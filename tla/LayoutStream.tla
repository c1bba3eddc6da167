---------------------------- MODULE LayoutStream ----------------------------
(***************************************************************************)
(* The streaming core of the A1 layout view                                *)
(* (app/components/silicon/layout-engine.ts): what the camera wants, which *)
(* tiles are fetched for it, decoded, cached, built and evicted, and how a *)
(* selection's own tile requests share the same queue.                     *)
(*                                                                         *)
(* Every frame asks for the tiles around the camera at up to three levels  *)
(* of detail, drops the queued fetches of a view that has moved on, builds *)
(* chunks from the tiles that have arrived, and evicts chunks nobody has   *)
(* wanted for a while.  Between frames fetches settle, and the tasks that  *)
(* fill in a selection's details go on.  JavaScript runs each of these to  *)
(* completion, so each is one action.                                      *)
(*                                                                         *)
(* Bounds and abstractions: the tiles are one row (a strip of NX tiles);   *)
(* a tile's bytes are its key; a fetch fails at most once per tile; jobs   *)
(* of equal priority start in any order; an unwanted chunk may be evicted  *)
(* at any later frame, which covers the 1.5 s it is really kept.           *)
(***************************************************************************)
EXTENDS Integers, FiniteSets, SequencesExt

CONSTANTS
  NX,             \* tiles in the strip
  TileSize,       \* a tile's width, in tenths of a micrometre
  Entries,        \* the tiles that have something in them (manifest.tile.entries)
  Views,          \* camera views: <<target, distance>>, in the same unit
  Rendering,      \* "gpu" or "software"
  FETCHES,        \* fetches in flight at once
  BLOCK_CACHE,    \* decoded tiles kept
  Nets,           \* nets a user may select
  NetTiles,       \* the tiles each spans, as a pair <<first, last>>
  Cells,          \* placed cells a user may select
  CellTile,       \* the tile that keeps each
  MayFail,        \* bound: the tiles whose fetch may fail, once each
  MaxMoves,       \* bound: camera moves
  MaxSelections   \* bound: selections made

ASSUME StreamAssumption ==
  /\ NX \in Nat \ {0} /\ TileSize \in Nat \ {0}
  /\ Entries \subseteq 0 .. NX - 1
  /\ Views \subseteq Int \X Int /\ Rendering \in {"gpu", "software"}
  /\ NetTiles \in [Nets -> (0 .. NX - 1) \X (0 .. NX - 1)]
  /\ CellTile \in [Cells -> 0 .. NX - 1]
  /\ "none" \notin Nets \cup Cells
  /\ FETCHES \in Nat \ {0}
  /\ BLOCK_CACHE \in Nat \ {0}
  /\ MaxSelections \in Nat /\ MaxMoves \in Nat

----------------------------------------------------------------------------
(* How the view zooms (lib/a1-layout-view.ts): its five stops, the three   *)
(* levels of detail, and which square of tiles each one streams.           *)
(* Distances are camera to target.  The code's millimetres are counted     *)
(* here in tenths of a micrometre (millimetres * 10000), so that every     *)
(* threshold of the code is an integer.                                    *)

Levels == {"coarse", "tile", "cells"}

\* Detail levels: where they stream in, where they are fully faded in, and
\* the half-size of their window (a factor of the distance, in per cent).
lod ==
  [ coarse |-> [activateAt |-> 17000, fullAt |-> 12500, factor |-> 100,
                min |-> 2000, max |-> 7500],
    tile   |-> [activateAt |-> 3600, fullAt |-> 2600, factor |-> 90,
                min |-> 600, max |-> 2800],
    cells  |-> [activateAt |-> 800, fullAt |-> 600, factor |-> 80,
                min |-> 200, max |-> 600] ]

\* Tiles kept at once, with a GPU and with software rendering.
budget ==
  [ gpu      |-> [coarse |-> 160, tile |-> 36, cells |-> 9],
    software |-> [coarse |-> 12, tile |-> 4, cells |-> 1] ]

MinDistance == 20
MaxDistance == 160000

stops == <<"tile", "region", "routing", "cells", "devices">>

\* A stop holds while the distance is below this; the first one always does.
below == <<MaxDistance + 1, 12500, 2600, 600, 140>>

\* The ladder's distances (the tile stop's comes from the die size).
presets == [region |-> 5500, routing |-> 1100, cells |-> 280, devices |-> 65]

Clamp(x, lo, hi) == IF x < lo THEN lo ELSE IF x > hi THEN hi ELSE x

\* How faded in a level is at a distance, in per cent.
lodFade(level, d) ==
  LET s == lod[level]
  IN  IF d >= s.activateAt THEN 0
      ELSE IF d <= s.fullAt THEN 100
      ELSE ((s.activateAt - d) * 100) \div (s.activateAt - s.fullAt)

\* Whether a level shows at all (lodFade > 0 in the code's real arithmetic).
FadedIn(level, d) == d < lod[level].activateAt

lodWindow(level, d) ==
  Clamp((d * lod[level].factor) \div 100, lod[level].min, lod[level].max)

\* The stop for a distance, with 8 % of hysteresis around each boundary:
\* |log (d / boundary)| < log 1.08.
stopAt(d, current) ==
  LET chosen   == CHOOSE k \in 1 .. 5 :
                    d < below[k] /\ \A j \in 1 .. 5 : d < below[j] => j <= k
      index    == CHOOSE k \in 1 .. 5 : stops[k] = current
      adjacent == chosen - index \in {-1, 1}
      boundary == IF chosen > index THEN below[chosen] ELSE below[index]
  IN  IF adjacent /\ 100 * d < 108 * boundary /\ 100 * boundary < 108 * d
        THEN stops[index]
        ELSE stops[chosen]
----------------------------------------------------------------------------

VARIABLES
  view,        \* the camera's target and distance
  blocks,      \* decoded tiles, least recently used first
  blockRequests, \* keys with an unsettled promise
  fetchQueue,  \* priorities of the jobs not started yet, by key
  flying,      \* keys being fetched
  inFlight,    \* the code's count of them
  resident,    \* built chunks, as <<level, key>>
  tileShown,   \* whether the tile level's group is visible
  standDown,   \* keys of the coarse chunks whose group is hidden
  selected,    \* the selection: a net, a cell, or "none"
  token,       \* selectionToken
  tasks,       \* one task per selection token: how far its details are
  chunk,       \* each file of names: "none", "loading" or "ready"
  page,        \* what onSelect last told the page
  failed,      \* tiles whose fetch has failed (at most once each)
  moves        \* camera moves made

viewVars == <<view, moves>>
fetches == <<blockRequests, fetchQueue, flying, inFlight>>
scene == <<resident, tileShown, standDown>>
details == <<selected, token, tasks, chunk, page>>
vars == <<viewVars, blocks, fetches, scene, details, failed>>

Keys == 0 .. NX - 1
Ids == Levels \X Keys
Targets == Nets \cup Cells \cup {"none"}
----------------------------------------------------------------------------
\* What the camera wants.

\* Twice the distance of a tile's centre from the target p (rank, in half
\* tile sizes, scaled by the tile size so that it stays an integer).
Rank(k, p) == LET d == 2 * k * TileSize + TileSize - 2 * p
              IN  IF d < 0 THEN -d ELSE d

\* Tiles within the level's window: the nearest ones, as many as its budget.
windowOf(level, p, d) ==
  LET half   == lodWindow(level, d)
      around == {k \in Entries : /\ p - half < (k + 1) * TileSize
                                 /\ k * TileSize <= p + half}
      nearer(a, b) == \/ Rank(a, p) < Rank(b, p)
                      \/ Rank(a, p) = Rank(b, p) /\ a < b
  IN  {k \in around : /\ FadedIn(level, d)
                      /\ Cardinality({j \in around : nearer(j, k)}) < budget[Rendering][level]}

\* A window item's priority: its rank, the finer level first at equal rank.
Tagged(level, keys, p) ==
  {[id |-> <<level, k>>, key |-> k,
    priority |-> Rank(k, p) + (CASE level = "cells"  -> 0
                                 [] level = "tile"   -> TileSize
                                 [] level = "coarse" -> 3 * TileSize)] : k \in keys}

\* Each tile shows once: every shape where the full level streams, upper
\* routing and outlines in the ring beyond; then what cells add.
wantedFrom ==
  [v \in Views |->
     LET p == v[1]
         d == v[2]
         full == windowOf("tile", p, d)
     IN  Tagged("cells", windowOf("cells", p, d), p)
           \cup Tagged("tile", full, p)
           \cup Tagged("coarse", windowOf("coarse", p, d) \ full, p)]

wanted == wantedFrom[view]

Wanted == {w.id : w \in wanted}

WantedKeys == {w.key : w \in wanted}

\* A selection's own requests come before any window's.
Urgent == -1

\* The order in which one task makes its requests: a frame takes the cells'
\* window first, then the full and the coarse level, each from the nearest
\* tile on; a selection asks tile by tile.
turn == [cells |-> 1, tile |-> 2, coarse |-> 3, selection |-> 4]

Before(u, w) ==
  \/ turn[u.id[1]] < turn[w.id[1]]
  \/ /\ turn[u.id[1]] = turn[w.id[1]]
     /\ u.priority < w.priority \/ (u.priority = w.priority /\ u.key < w.key)
----------------------------------------------------------------------------
\* The cache and the queue of fetches.

\* keepBlock: as the most recently used, dropping the least recently used.
keepBlock(cache, k) ==
  LET kept == Append(SelectSeq(cache, LAMBDA b : b # k), k)
  IN  IF Len(kept) > BLOCK_CACHE THEN Tail(kept) ELSE kept

Cached == ToSet(blocks)

\* Jobs that may start next: any n of the lowest priority.
Startable(queue, n) ==
  {S \in SUBSET DOMAIN queue :
     /\ Cardinality(S) = n
     /\ \A s \in S, q \in DOMAIN queue \ S : queue[s] <= queue[q]}

Without(queue, S) == [k \in DOMAIN queue \ S |-> queue[k]]

Lower(a, b) == IF a < b THEN a ELSE b

\* pumpFetches over the queue and the keys in flight it is given.
pumpFetches(queue, up) ==
  \E S \in Startable(queue, Lower(FETCHES - Cardinality(up), Cardinality(DOMAIN queue))) :
    /\ fetchQueue' = Without(queue, S)
    /\ flying' = up \cup S
    /\ inFlight' = Cardinality(up) + Cardinality(S)

\* requestBlock for the items one task asks for: a cached tile is touched; a
\* pending one takes the lower priority if it still waits; a tile with
\* nothing in it is answered at once; any other one is queued, and started
\* if a fetch is free (no job waits while one is).
Fresh(items) == ({w.key : w \in items} \cap Entries) \ (Cached \cup blockRequests)

\* The fresh keys that may start at once: the first asked for, while fetches
\* are free.
StartsNow(items) ==
  LET fresh == Fresh(items)
      sooner(s, q) == \E u \in items : u.key = s /\ \A w \in items : w.key = q => Before(u, w)
  IN  {S \in SUBSET fresh :
         /\ Cardinality(S) = Lower(FETCHES - inFlight, Cardinality(fresh))
         /\ \A s \in S, q \in fresh \ S : sooner(s, q)}

Least(S) == CHOOSE p \in S : \A q \in S : p <= q

\* The priorities a waiting job has had and was asked with.
Asked(items, k) ==
  {w.priority : w \in {u \in items : u.key = k}}
    \cup (IF k \in DOMAIN fetchQueue THEN {fetchQueue[k]} ELSE {})

Requeued(items, started) ==
  [k \in DOMAIN fetchQueue \cup (Fresh(items) \ started) |-> Least(Asked(items, k))]

\* The cached tiles the requests touch, last touched last.
Touched(items) ==
  LET hits == Cached \cap {w.key : w \in items}
      earlier(j, k) == \E w \in items : w.key = k /\ \A u \in items : u.key = j => Before(u, w)
  IN  SelectSeq(blocks, LAMBDA b : b \notin hits)
        \o [i \in 1 .. Cardinality(hits) |->
              CHOOSE k \in hits : Cardinality({j \in hits : earlier(j, k)}) = i - 1]

\* All the requests of one task, which nothing interrupts.
requestBlocks(items) ==
  /\ blocks' = Touched(items)
  /\ blockRequests' = blockRequests \cup Fresh(items)
  /\ \E started \in StartsNow(items) :
       /\ fetchQueue' = Requeued(items, started)
       /\ flying' = flying \cup started
       /\ inFlight' = inFlight + Cardinality(started)
----------------------------------------------------------------------------
\* The tasks that fill in a selection's details.

\* The files of names: one chunk per net (netChunk), one of instances.
Chunks == Nets \cup {"insts"}

NoTask == [target |-> "none", stage |-> "done", chunks |-> {}, awaits |-> {}, got |-> {}]

Stages == {"names", "tiles", "pins", "labels", "done"}

\* Settled keys are no longer awaited; the ones that came are in hand.
Answered(task, keys, came) ==
  [task EXCEPT !.awaits = @ \ keys,
               !.got = @ \cup (IF came THEN task.awaits \cap keys ELSE {})]

\* A task that has just requested keys: the cached ones are in hand already.
Awaiting(task, stage, keys) ==
  [task EXCEPT !.stage = stage, !.chunks = {},
               !.awaits = (keys \cap Entries) \ Cached,
               !.got = keys \cap Cached]

AskChunks(asked) ==
  chunk' = [x \in Chunks |-> IF x \in asked /\ chunk[x] = "none" THEN "loading"
                             ELSE chunk[x]]

ChunksReady(t) == \A x \in tasks[t].chunks : chunk[x] = "ready"

Span(net) == NetTiles[net][1] .. NetTiles[net][2]

\* The tiles a target's pins are read from: netPins also reads the tile to
\* the left, whose cells may reach over; cellPins the tile to the right,
\* which may hold a cell's vias.
PinTiles(target) ==
  IF target \in Nets
    THEN (NetTiles[target][1] - 1 .. NetTiles[target][2]) \cap Keys
    ELSE {CellTile[target], CellTile[target] + 1} \cap Keys

\* The names the pins found need: a net's pins are of instances, a cell's
\* pins are on the nets that cross its tile.
LabelChunks(target, got) ==
  IF got = {} THEN {}
  ELSE IF target \in Nets THEN {"insts"}
  ELSE {n \in Nets : CellTile[target] \in Span(n)}

Urgently(keys) ==
  {[id |-> <<"selection", k>>, key |-> k, priority |-> Urgent] : k \in keys}

Tell(target, stage, got) == [target |-> target, stage |-> stage, got |-> got]

Nothing == Tell("none", "done", {})

\* Mistake: any task may tell the page.
UpdateUnchecked(t, told) == page' = told

\* update: only the current selection's task may tell the page.
Update(t, told) == page' = IF t = token THEN told ELSE page
----------------------------------------------------------------------------
Init ==
  /\ view \in Views
  /\ blocks = <<>>
  /\ blockRequests = {} /\ fetchQueue = <<>> /\ flying = {} /\ inFlight = 0
  /\ resident = {} /\ tileShown = TRUE /\ standDown = {}
  /\ selected = "none" /\ token = 0
  /\ tasks = [t \in 1 .. MaxSelections |-> NoTask]
  /\ chunk = [x \in Chunks |-> "none"]
  /\ page = Nothing
  /\ failed = {} /\ moves = 0

\* The user moves or zooms; the next frame streams for the new view.
Move ==
  /\ moves < MaxMoves
  /\ view' \in Views \ {view}
  /\ moves' = moves + 1
  /\ UNCHANGED <<blocks, fetches, scene, details, failed>>

\* The requests a frame makes: everything wanted and not built.
FrameItems == {w \in wanted : w.id \notin resident}

\* Whether a tile's block is at hand: cached, or held by one of its chunks.
AtHand(k) == k \in Cached \/ \E l \in {"tile", "coarse"} : <<l, k>> \in resident

\* Mistake: what this frame builds is not looked at.
StandDownBefore(tileOn, built, old) ==
  {k \in Keys : tileOn /\ <<"coarse", k>> \in resident \ old /\ <<"tile", k>> \in resident}

\* A coarse chunk that stays stands down while the tile's full chunk shows.
StandDown(tileOn, built, old) ==
  {k \in Keys : tileOn /\ <<"coarse", k>> \in built \ old /\ <<"tile", k>> \in built}

\* Build what has arrived, in order, within the frame's budget (at least
\* one), then evict what nobody wants, whenever its time is up.
BuildAndEvict ==
  LET ready  == {w \in FrameItems : AtHand(w.key)}
      tileOn == FadedIn("tile", view[2])
  IN  \E now \in SUBSET ready, old \in SUBSET (resident \ Wanted) :
        /\ ready # {} => now # {}
        /\ \A u \in now, w \in ready \ now : Before(u, w)
        /\ LET built == resident \cup {w.id : w \in now}
           IN  /\ resident' = built \ old
               /\ tileShown' = tileOn
               /\ standDown' = StandDown(tileOn, built, old)

\* Queued tiles of a view that has moved on; a selection's own are kept.
Stale(queue) == {k \in DOMAIN queue : queue[k] >= 0 /\ k \notin WantedKeys}

\* One frame of streaming: ask for what is wanted, drop what is stale, build.
stream ==
  /\ blocks' = Touched(FrameItems)
  /\ \E started \in StartsNow(FrameItems) :
       LET queue == Requeued(FrameItems, started)
           stale == Stale(queue)
       IN  /\ blockRequests' = (blockRequests \cup Fresh(FrameItems)) \ stale
           /\ fetchQueue' = Without(queue, stale)
           /\ flying' = flying \cup started
           /\ inFlight' = inFlight + Cardinality(started)
           /\ tasks' = [t \in DOMAIN tasks |-> Answered(tasks[t], stale, FALSE)]
  /\ BuildAndEvict
  /\ UNCHANGED <<viewVars, selected, token, chunk, page, failed>>

\* Mistake: a failed fetch leaves its promise behind.
SettleKeepsFailed(k, came) ==
  /\ k \in flying
  /\ came \/ k \in MayFail \ failed
  /\ blocks' = IF came THEN keepBlock(blocks, k) ELSE blocks
  /\ failed' = IF came THEN failed ELSE failed \cup {k}
  /\ tasks' = [t \in DOMAIN tasks |-> Answered(tasks[t], {k}, came)]
  /\ blockRequests' = IF came THEN blockRequests \ {k} ELSE blockRequests
  /\ pumpFetches(fetchQueue, flying \ {k})
  /\ UNCHANGED <<viewVars, scene, selected, token, chunk, page>>

\* Mistake: the next jobs wait for somebody else to start them.
SettleWithoutPump(k, came) ==
  /\ k \in flying
  /\ came \/ k \in MayFail \ failed
  /\ blocks' = IF came THEN keepBlock(blocks, k) ELSE blocks
  /\ failed' = IF came THEN failed ELSE failed \cup {k}
  /\ tasks' = [t \in DOMAIN tasks |-> Answered(tasks[t], {k}, came)]
  /\ blockRequests' = blockRequests \ {k}
  /\ flying' = flying \ {k}
  /\ inFlight' = inFlight - 1
  /\ UNCHANGED <<viewVars, fetchQueue, scene, selected, token, chunk, page>>

\* A fetch settles either way: its promise resolves, its request is over,
\* and the next jobs start.
Settle(k, came) ==
  /\ k \in flying
  /\ came \/ k \in MayFail \ failed
  /\ blocks' = IF came THEN keepBlock(blocks, k) ELSE blocks
  /\ failed' = IF came THEN failed ELSE failed \cup {k}
  /\ tasks' = [t \in DOMAIN tasks |-> Answered(tasks[t], {k}, came)]
  /\ blockRequests' = blockRequests \ {k}
  /\ pumpFetches(fetchQueue, flying \ {k})
  /\ UNCHANGED <<viewVars, scene, selected, token, chunk, page>>
----------------------------------------------------------------------------
\* Selecting.

\* selectTarget: a new token, the description at once, and a task for more,
\* which begins with a file of names.
selectTarget(target, names) ==
  /\ token < MaxSelections
  /\ selected' = target
  /\ token' = token + 1
  /\ page' = IF target = "none" THEN Nothing ELSE Tell(target, "described", {})
  /\ tasks' = IF target = "none" THEN tasks
              ELSE [tasks EXCEPT ![token + 1] =
                      [NoTask EXCEPT !.target = target, !.stage = "names", !.chunks = names]]
  /\ AskChunks(names)
  /\ UNCHANGED <<viewVars, blocks, fetches, scene, failed>>

\* A click on a conductor of a net, in a chunk that draws it.
SelectNet(n) ==
  /\ \E id \in resident : id[1] # "cells" /\ id[2] \in Span(n)
  /\ selectTarget(n, {n})

\* A click on a cell of a built tile.
SelectCell(c) ==
  /\ <<"tile", CellTile[c]>> \in resident
  /\ selectTarget(c, {"insts"})

clearSelection ==
  /\ selected # "none"
  /\ selectTarget("none", {})

\* A file of names arrives, or its fetch fails and is asked for again by a
\* later task; the tasks that waited for it then never go on.
ChunkSettles(x, came) ==
  /\ chunk[x] = "loading"
  /\ chunk' = [chunk EXCEPT ![x] = IF came THEN "ready" ELSE "none"]
  /\ tasks' = [t \in DOMAIN tasks |->
                 IF ~came /\ x \in tasks[t].chunks
                   THEN [tasks[t] EXCEPT !.stage = "done", !.chunks = {}] ELSE tasks[t]]
  /\ UNCHANGED <<viewVars, blocks, fetches, scene, selected, token, page, failed>>

\* A net's names are there: tell the page, and ask for the net's tiles, even
\* when the selection has moved on meanwhile.
NetNamed(t) ==
  LET n == tasks[t].target
  IN  /\ tasks[t].stage = "names" /\ n \in Nets /\ ChunksReady(t)
      /\ Update(t, Tell(n, "named", {}))
      /\ tasks' = [tasks EXCEPT ![t] = Awaiting(@, "tiles", Span(n))]
      /\ requestBlocks(Urgently(Span(n)))
      /\ UNCHANGED <<viewVars, scene, selected, token, chunk, failed>>

\* A task starts reading pins: it asks for their tiles.
ReadPins(t) ==
  LET keys == PinTiles(tasks[t].target)
  IN  /\ tasks' = [tasks EXCEPT ![t] = Awaiting(@, "pins", keys)]
      /\ requestBlocks(Urgently(keys))

\* Every tile of the net answered: outline it and read its pins, unless the
\* selection has moved on.
Outlined(t) ==
  /\ tasks[t].stage = "tiles" /\ tasks[t].awaits = {}
  /\ IF t = token
       THEN ReadPins(t)
       ELSE /\ tasks' = [tasks EXCEPT ![t].stage = "done"]
            /\ UNCHANGED <<blocks, fetches>>
  /\ UNCHANGED <<viewVars, scene, selected, token, chunk, page, failed>>

\* A cell's instance is named: read its pins.
CellNamed(t) ==
  /\ tasks[t].stage = "names" /\ tasks[t].target \in Cells /\ ChunksReady(t)
  /\ ReadPins(t)
  /\ UNCHANGED <<viewVars, scene, selected, token, chunk, page, failed>>

\* The pins are read off the tiles that came; their names come next.
PinsRead(t) ==
  LET names == LabelChunks(tasks[t].target, tasks[t].got)
  IN  /\ tasks[t].stage = "pins" /\ tasks[t].awaits = {}
      /\ tasks' = [tasks EXCEPT ![t].stage = "labels", ![t].chunks = names]
      /\ AskChunks(names)
      /\ UNCHANGED <<viewVars, blocks, fetches, scene, selected, token, page, failed>>

\* Everything is named: the page gets the pins.
Labelled(t) ==
  /\ tasks[t].stage = "labels" /\ ChunksReady(t)
  /\ Update(t, Tell(tasks[t].target, "complete", tasks[t].got))
  /\ tasks' = [tasks EXCEPT ![t].stage = "done", ![t].chunks = {}]
  /\ UNCHANGED <<viewVars, blocks, fetches, scene, selected, token, chunk, failed>>
----------------------------------------------------------------------------
User ==
  \/ Move
  \/ \E n \in Nets : SelectNet(n)
  \/ \E c \in Cells : SelectCell(c)
  \/ clearSelection

Network ==
  \/ \E k \in Keys, came \in BOOLEAN : Settle(k, came)
  \/ \E x \in Chunks, came \in BOOLEAN : ChunkSettles(x, came)

Task(t) ==
  NetNamed(t) \/ CellNamed(t) \/ Outlined(t) \/ PinsRead(t) \/ Labelled(t)

Next ==
  \/ stream
  \/ User
  \/ Network
  \/ \E t \in 1 .. MaxSelections : Task(t)

\* Frames go on, a fetch settles one way or the other, and a task whose
\* promise has settled runs.  Nothing makes the user do anything.
Fairness ==
  /\ WF_vars(stream)
  /\ \A k \in Keys : WF_vars(\E came \in BOOLEAN : Settle(k, came))
  /\ \A x \in Chunks : WF_vars(\E came \in BOOLEAN : ChunkSettles(x, came))
  /\ \A t \in 1 .. MaxSelections : WF_vars(Task(t))

Spec == Init /\ [][Next]_vars /\ Fairness
----------------------------------------------------------------------------
TypeOK ==
  /\ view \in Views /\ moves \in 0 .. MaxMoves
  /\ blocks \in Seq(Entries)
  /\ blockRequests \subseteq Entries
  /\ DOMAIN fetchQueue \subseteq Entries
  /\ flying \subseteq Entries /\ inFlight \in Nat
  /\ resident \subseteq Ids /\ tileShown \in BOOLEAN /\ standDown \subseteq Keys
  /\ selected \in Targets /\ token \in 0 .. MaxSelections
  /\ \A t \in DOMAIN tasks : tasks[t].stage \in Stages
  /\ chunk \in [Chunks -> {"none", "loading", "ready"}]
  /\ page.target \in Targets
  /\ failed \subseteq MayFail

\* Every pending promise has exactly one job that will settle it, waiting or
\* flying; at most FETCHES fly, and none waits while a fetch is free.
PendingIsServed ==
  /\ blockRequests = DOMAIN fetchQueue \cup flying
  /\ DOMAIN fetchQueue \cap flying = {}
  /\ inFlight = Cardinality(flying) /\ inFlight <= FETCHES
  /\ DOMAIN fetchQueue # {} => inFlight = FETCHES

\* The page's details are always of what is selected now, however late the
\* answers of earlier selections come.
DetailsAreOfTheSelection == page.target = selected

\* A selection's tiles are never dropped with the views that move on: when
\* its pins are shown, every tile they are read from came or failed.
PinsAreComplete ==
  page.stage = "complete" =>
    (PinTiles(page.target) \cap Entries) \ page.got \subseteq failed

\* The layout's selection is answered with its own details, whole.
SelectionIsItsOwn == DetailsAreOfTheSelection /\ PinsAreComplete

\* No tile is drawn at both levels at once: a coarse chunk stands down while
\* the tile's full chunk is on screen.
DrawnOnce ==
  \A k \in Keys : tileShown /\ {<<"tile", k>>, <<"coarse", k>>} \subseteq resident
                    => k \in standDown

\* requestBlock, pumpFetches and stream: each tile asked for has one job that
\* will settle it, and no tile is drawn at two levels of detail at once.
SceneIsSound == PendingIsServed /\ DrawnOnce

\* What comes true and stays so once the user rests: everything in the
\* camera's windows is built,
WindowFilled == Wanted \subseteq resident

\* and a selection that is not superseded is answered in full, unless the
\* fetch of its names fails.
SelectionsAnswered == \A t \in 1 .. MaxSelections : tasks[t].stage = "done"
=============================================================================

----------------------------- MODULE MacroRoutes -----------------------------
(***************************************************************************)
(* The macro view's wires, followed without a stored netlist: routes on    *)
(* the intermediate layers Mx1-Mx3 (lib/silicon-macro.ts), and the trace   *)
(* of a net from a click (lib/silicon-trace.ts).                           *)
(*                                                                         *)
(* Routes.  None is stored: each chunk, and each row block that looks for  *)
(* the via stacks landing in it, works them out again from a window of its *)
(* own.  Whether the parts fit depends on every window finding the same    *)
(* runs and the same ends.                                                 *)
(*                                                                         *)
(* Lengths are nanometres.  Layers are 0 (Mx1, horizontal), 1 (Mx2,        *)
(* vertical) and 2 (Mx3, horizontal).  What the hash decides is chosen:    *)
(* which cells of a track are occupied, and how far the ends are set in.   *)
(* Stacks of buses and channels, which routeEndsIn finds beside those of   *)
(* the routes, are MacroFloorplan's; here they are any point of the        *)
(* lattice that module shows them to be on.                                *)
(*                                                                         *)
(* Traces: from one drawn conductor to every conductor that touches it,    *)
(* through the chunks that happen to be loaded.  Plan is one coordinate.   *)
(* A piece is a record of its chunk (level, ix), its extent in plan and in *)
(* height, whether it is a box (clipped at its chunk's edges) or a         *)
(* cylinder (whole in the chunk of its axis), and whether it conducts.     *)
(***************************************************************************)
EXTENDS Integers, FiniteSetsExt, SequencesExt

CONSTANTS
  Sites,       \* the <<layer, track, cell>> that may be occupied
  Insets,      \* how far a run's ends are set in, of 100 of a cell: 8 .. 38
  BackSearch,  \* cells a window looks back for the start of a run; 48 in the code
  LongestRun,  \* cells after which a run is cut; 96 in the code
  Windows,     \* <<first, last>> cell of the windows compared
  RoutePad,    \* how far around a block its ends are looked for; 700
  World,       \* every piece the generator would draw
  ChunkWidth,  \* level -> width of its chunks; a multiple of 20
  MaxGap,      \* MAX_GAP
  GRID,        \* cells of a chunk's index
  Limit        \* pieces after which a trace stops

VARIABLES
  occupied, inset,
  loaded,      \* the chunks that are drawn
  seed,        \* the piece clicked, or NoPiece
  pieces,      \* what the trace has reached
  queue,       \* pieces not yet looked around; the last is next
  truncated
routesVars == <<occupied, inset>>
traceVars == <<loaded, seed, pieces, queue, truncated>>

CPP == 54
ROW == 216
BLOCK == 32 * CPP
MX_PITCH == 1000
pitch(layer) == IF layer = 2 THEN 1500 ELSE MX_PITCH
cellOf(layer) == IF layer = 2 THEN 19000 ELSE 13000
DROP_HALF == 25
Horizontal(layer) == layer # 1

Init == occupied = {} /\ inset \in [{"lo", "hi"} -> Insets]
\* One more cell of the die turns out to be occupied.
Occupy ==
  /\ \E site \in Sites \ occupied : occupied' = occupied \cup {site}
  /\ UNCHANGED inset
Next == Occupy
Spec == Init /\ [][Next]_routesVars
----------------------------------------------------------------------------
\* mazeRuns: the runs a window of cells c0 .. c1 finds on a track, from left
\* to right.  Only a run at the window's edge is followed back.

Occupied(layer, track, cell) == <<layer, track, cell>> \in occupied

\* Mistake: a run begins where the window does.
StartHere(layer, track, cell, c0) == cell

StartOf(layer, track, cell, c0) ==
  IF cell # c0 THEN cell
  ELSE Min({start \in cell - BackSearch .. cell : \A c \in start .. cell : Occupied(layer, track, c)})
EndOf(layer, track, cell, start) ==
  Max({end \in cell .. Max({cell, start + LongestRun}) : \A c \in cell .. end : Occupied(layer, track, c)})

RunsOfTrack(layer, track, c0, c1) ==
  LET Visit(found, cell) ==
        IF cell < found.next \/ ~Occupied(layer, track, cell) THEN found
        ELSE LET start == StartOf(layer, track, cell, c0)
                 end == EndOf(layer, track, cell, start)
             IN  [next |-> end + 1, runs |-> found.runs \cup {[track |-> track, start |-> start, end |-> end]}]
  IN  FoldLeft(Visit, [next |-> c0, runs |-> {}], [i \in 1 .. c1 - c0 + 1 |-> c0 + i - 1]).runs

\* The tracks and cells a rectangle covers.
Across(layer, rect) == IF Horizontal(layer) THEN <<rect.z0, rect.z1>> ELSE <<rect.x0, rect.x1>>
Along(layer, rect) == IF Horizontal(layer) THEN <<rect.x0, rect.x1>> ELSE <<rect.z0, rect.z1>>
across(layer, track) == (2 * track + 1) * (pitch(layer) \div 2)
TracksIn(layer, rect) ==
  {site[2] : site \in {s \in Sites : /\ s[1] = layer /\ across(layer, s[2]) >= Across(layer, rect)[1]
                                     /\ across(layer, s[2]) < Across(layer, rect)[2]}}
mazeRuns(layer, rect) ==
  UNION {RunsOfTrack(layer, track, Along(layer, rect)[1] \div cellOf(layer), Along(layer, rect)[2] \div cellOf(layer)) :
           track \in TracksIn(layer, rect)}
----------------------------------------------------------------------------
\* Routes and their ends.

RoundDiv(a, b) == (2 * a + b) \div (2 * b)
m3Of(class, m) == (4 * m + class) * CPP + CPP \div 2
m3Near(class, x) == m3Of(class, RoundDiv(x - class * CPP - CPP \div 2, ROW))
m3From(class, x) == m3Of(class, -((class * CPP + CPP \div 2 - x) \div ROW))
m3To(class, x) == m3Of(class, (x - class * CPP - CPP \div 2) \div ROW)
onTrack(v) == (v \div MX_PITCH) * MX_PITCH + MX_PITCH \div 2
onGap(v) == RoundDiv(v, MX_PITCH) * MX_PITCH

\* A run with its ends set in; Mx2 and Mx3 start on a track centre of the
\* layer below and stop between its tracks.
RouteOf(layer, run) ==
  LET cell == cellOf(layer)
      lo == run.start * cell + (cell * inset["lo"]) \div 100
      hi == (run.end + 1) * cell - (cell * inset["hi"]) \div 100
  IN  [layer |-> layer, across |-> across(layer, run.track),
       lo |-> IF layer = 0 THEN lo ELSE onTrack(lo), hi |-> IF layer = 0 THEN hi ELSE onGap(hi)]
Routes(layer, rect) ==
  {route \in {RouteOf(layer, run) : run \in mazeRuns(layer, rect)} : 100 * (route.hi - route.lo) >= 49 * MX_PITCH}

loDropAt(route) == IF route.layer = 1 THEN <<m3Near(2, route.across), route.lo>> ELSE <<m3Near(2, route.lo), route.across>>
hiDropAt(route) == IF route.layer = 1 THEN <<m3Near(2, route.across), route.hi>> ELSE <<m3Near(2, route.hi), route.across>>

\* A route of the layer below is drawn at a point, or so near that a stack
\* there would touch it.
routeCovers(layer, x, z) ==
  LET reach == IF layer = 0 THEN 80 ELSE 150 + 80
      along == IF layer = 0 THEN x ELSE z
      near == [x0 |-> x - 20, x1 |-> x + 20, z0 |-> z - 20, z1 |-> z + 20]
  IN  \E route \in Routes(layer, near) : route.lo - reach <= along /\ along <= route.hi + reach
joined(route) == route.layer > 0 /\ routeCovers(route.layer - 1, loDropAt(route)[1], loDropAt(route)[2])

\* The stacks of a route that drop to the cells.
Drop(route, at) == [x |-> at[1], z |-> at[2], route |-> route]
drops(route) ==
  IF route.layer = 0
  THEN {Drop(route, <<m3From(2, route.lo + 30), route.across>>), Drop(route, <<m3To(2, route.hi - 30), route.across>>)}
  ELSE {Drop(route, hiDropAt(route))} \cup IF joined(route) THEN {} ELSE {Drop(route, loDropAt(route))}

insideRect(rect, x, z) == x >= rect.x0 /\ x < rect.x1 /\ z >= rect.z0 /\ z < rect.z1
Padded(rect, px, pz) == [x0 |-> rect.x0 - px, x1 |-> rect.x1 + px, z0 |-> rect.z0 - pz, z1 |-> rect.z1 + pz]
\* Mistake: only the routes that cross the block are asked.
EndsOfOwnRoutes(rect) ==
  UNION {{drop \in UNION {drops(route) : route \in Routes(layer, rect)} :
            insideRect(rect, drop.x, drop.z)} : layer \in {0, 1, 2}}

routeEndsIn(rect) ==
  UNION {{drop \in UNION {drops(route) : route \in Routes(layer, Padded(rect, RoutePad, IF layer = 1 THEN RoutePad ELSE 0))} :
            insideRect(rect, drop.x, drop.z)} : layer \in {0, 1, 2}}

\* Power ladders: from every other strap of Mx4, every 6 um, to the rail of
\* the same supply on the nearest row boundary.
supply(row) == IF row % 2 = 1 THEN "vdd" ELSE "vss"
strapFlow(index) == IF index % 2 = 0 THEN "vdd" ELSE "vss"
laddersIn(rect) ==
  LET k0 == -((7000 + 200 - rect.x0) \div 14000) \* ceil((x0 - 200 - 7000) / 14000)
      k1 == (rect.x1 + 200 - 7000) \div 14000
      n0 == -((200 - rect.z0) \div 6000)
      n1 == (rect.z1 + 200) \div 6000
      at(k, n) == [x |-> m3Near(3, 7000 + k * 14000), z |-> RoundDiv(n * 6000, ROW) * ROW,
                   row |-> RoundDiv(n * 6000, ROW), strap |-> k]
  IN  {ladder \in {at(k, n) : k \in k0 .. k1, n \in n0 .. n1} :
         supply(ladder.row) = strapFlow(ladder.strap) /\ insideRect(rect, ladder.x, ladder.z)}
----------------------------------------------------------------------------
Whole == [x0 |-> -20000, x1 |-> 120000, z0 |-> -20000, z1 |-> 60000]
AllDrops == UNION {UNION {drops(route) : route \in Routes(layer, Whole)} : layer \in {0, 1, 2}}
BlockAt(column, row) == [x0 |-> column * BLOCK, x1 |-> (column + 1) * BLOCK, z0 |-> row * ROW, z1 |-> (row + 1) * ROW]
BlocksAround(x, z) ==
  {BlockAt(column, row) : column \in (x \div BLOCK) - 1 .. (x \div BLOCK) + 1, row \in (z \div ROW) - 1 .. (z \div ROW) + 1}

LongRuns == {run \in mazeRuns(0, Whole) : run.end - run.start > BackSearch}

\* A window finds exactly the runs of the whole die that meet it, wherever it
\* is cut, as long as no run is longer than the window looks back.
RunsAgree ==
  \A layer \in {0, 1, 2} : \A track \in {site[2] : site \in {s \in Sites : s[1] = layer}} :
    LET all == RunsOfTrack(layer, track, -2, 8)
    IN  (\A run \in all : run.end - run.start <= BackSearch) =>
          \A window \in Windows :
            RunsOfTrack(layer, track, window[1], window[2]) =
              {run \in all : run.end >= window[1] /\ run.start <= window[2]}

\* Every stack of a route that drops to the cells is found by the row block it
\* lands in, whatever window that block looks through, and by no other; so is every
\* power ladder.  A stack that no block found would hang in the air, one
\* found twice would drive two nets.
EndsFoundOnce ==
  LongRuns = {} =>
    \A drop \in AllDrops :
      {block \in BlocksAround(drop.x, drop.z) : drop \in routeEndsIn(block)}
        = {BlockAt(drop.x \div BLOCK, drop.z \div ROW)}
LaddersFoundOnce ==
  \A ladder \in laddersIn([x0 |-> 0, x1 |-> 60000, z0 |-> 0, z1 |-> 30000]) :
    {block \in BlocksAround(ladder.x, ladder.z) : ladder \in laddersIn(block)}
      = {BlockAt(ladder.x \div BLOCK, ladder.z \div ROW)}

\* Where a line of a bus or of a channel may come down (OnLattice in
\* MacroFloorplan): a whole micrometre across, three along.
BusSitesAround(d) ==
  {[x |-> m3Near(2, 1000 * i), z |-> 3000 * k] :
     i \in (d.x \div 1000) - 1 .. (d.x \div 1000) + 2, k \in (d.z \div 3000) .. (d.z \div 3000) + 1}

\* Two stacks of routes that drop to the cells never touch, and none touches a
\* stack of a bus or a channel, a route of a layer it passes, or a ladder's
\* pad, though nobody checks the one against the other.
Near(a, b, reach) == a - b < reach /\ b - a < reach
DropsStandApart ==
  LongRuns = {} =>
    /\ \A d, e \in AllDrops : d # e => ~(Near(d.x, e.x, 2 * DROP_HALF + 1) /\ Near(d.z, e.z, 2 * DROP_HALF + 1))
    /\ \A d \in AllDrops : \A bus \in BusSitesAround(d) :
         ~(Near(d.x, bus.x, 2 * DROP_HALF + 1) /\ Near(d.z, bus.z, 2 * DROP_HALF + 1))
    /\ \A d \in AllDrops : \A layer \in {l \in {0, 1} : l < d.route.layer} : \A route \in Routes(layer, Whole) :
         LET reach == IF layer = 0 THEN 0 ELSE 150
             along == IF layer = 0 THEN d.x ELSE d.z
             beside == IF layer = 0 THEN d.z ELSE d.x
         IN  Near(beside, route.across, 210 + DROP_HALF)
               => along + DROP_HALF < route.lo - reach \/ along - DROP_HALF > route.hi + reach
    /\ \A d \in AllDrops : \A ladder \in laddersIn([x0 |-> 0, x1 |-> 60000, z0 |-> 0, z1 |-> 30000]) :
         ~(Near(d.x, ladder.x, 54) /\ Near(d.z, ladder.z, 54))
----------------------------------------------------------------------------
\* Tracing a net.

NoPiece == [level |-> -1]
chunk(piece) == <<piece.level, piece.ix>>
Chunks == {chunk(piece) : piece \in World}
Drawn(piece) == chunk(piece) \in loaded
Start(at) == at[2] * ChunkWidth[at[1]]
End(at) == (at[2] + 1) * ChunkWidth[at[1]]

TraceInit ==
  /\ loaded = {} /\ seed = NoPiece
  /\ pieces = {} /\ queue = <<>> /\ truncated = FALSE

touching(a, b) ==
  LET height(p) == p.y1 - p.y0
      gap == Min({4 * MaxGap, height(a), height(b)}) \* a quarter of the lower, in quarters
  IN  /\ a.x0 <= b.x1 /\ b.x0 <= a.x1
      /\ 4 * a.y0 <= 4 * b.y1 + gap /\ 4 * b.y0 <= 4 * a.y1 + gap

\* The cells of a chunk's index that a piece is filed under, and looked for
\* in: the chunk, padded by a twentieth, in GRID cells.
Cells(at, piece) ==
  LET pad == ChunkWidth[at[1]] \div 20
      cell(x) == Min({GRID - 1, Max({0, ((x - Start(at) + pad) * GRID) \div (ChunkWidth[at[1]] + 2 * pad)})})
  IN  cell(piece.x0) .. cell(piece.x1)
\* Mistake: pieces of the next chunk may touch what ends at the edge.
ReachesExactly(piece, at) == piece.x0 < End(at) /\ piece.x1 > Start(at)

\* A chunk is not looked into for a piece that stays clear of it.
Reaches(piece, at) ==
  LET pad == ChunkWidth[at[1]] \div 20
  IN  ~(piece.x0 > End(at) + pad) /\ ~(piece.x1 < Start(at) - pad)

Found(piece) ==
  {q \in World : /\ Drawn(q) /\ q.conducts /\ q \notin pieces
                 /\ Reaches(piece, chunk(q))
                 /\ Cells(chunk(q), piece) \cap Cells(chunk(q), q) # {}
                 /\ touching(piece, q)}

\* The view draws another chunk; what was traced is forgotten.
Load ==
  /\ seed = NoPiece
  /\ \E at \in Chunks \ loaded : loaded' = loaded \cup {at}
  /\ UNCHANGED <<seed, pieces, queue, truncated>>

TraceNet ==
  /\ seed = NoPiece
  /\ \E piece \in {p \in World : Drawn(p) /\ p.conducts} :
       seed' = piece /\ pieces' = {piece} /\ queue' = <<piece>>
  /\ UNCHANGED <<loaded, truncated>>

LookAround ==
  /\ queue # <<>> /\ ~truncated
  /\ LET found == Found(Last(queue))
         full == Cardinality(pieces) + Cardinality(found) >= Limit /\ found # {}
     IN  /\ truncated' = full
         /\ IF full
            THEN \E kept \in {s \in SUBSET found : Cardinality(pieces) + Cardinality(s) = Limit} :
                   pieces' = pieces \cup kept /\ queue' = <<>>
            ELSE /\ pieces' = pieces \cup found
                 /\ queue' = Front(queue) \o SetToSeq(found)
  /\ UNCHANGED <<loaded, seed>>

TraceNext == Load \/ TraceNet \/ LookAround
TraceSpec == TraceInit /\ [][TraceNext]_traceVars
----------------------------------------------------------------------------
\* `open`: a box that reaches the edge of its chunk where the neighbour is
\* not loaded.
leavesLoaded(piece) ==
  /\ piece.level # 0 /\ piece.box
  /\ \/ piece.x0 <= Start(chunk(piece)) /\ <<piece.level, piece.ix - 1>> \notin loaded
     \/ piece.x1 >= End(chunk(piece)) /\ <<piece.level, piece.ix + 1>> \notin loaded
open == truncated \/ \E piece \in pieces : leavesLoaded(piece)

Traced == seed # NoPiece /\ (queue = <<>> \/ truncated)

\* What a piece is connected to, through conductors of a set.
Spread(set, reached) == reached \cup {q \in set : \E p \in reached : touching(p, q)}
Component(set, piece) ==
  LET after[n \in 0 .. Cardinality(World)] == IF n = 0 THEN {piece} ELSE Spread(set, after[n - 1])
  IN  after[Cardinality(World)]
Conductors == {p \in World : p.conducts}

\* A trace that was not cut short is the whole net as drawn: the index and
\* the skipping of chunks lose no piece that touches, and nothing else joins.
TraceIsTheNet ==
  Traced =>
    /\ pieces \subseteq Component({p \in Conductors : Drawn(p)}, seed)
    /\ ~truncated => pieces = Component({p \in Conductors : Drawn(p)}, seed)
    /\ truncated => Cardinality(pieces) = Limit

\* A trace that does not say it is open has no wire that goes on into the next
\* chunk of its level.  The net may go on all the same, through a via into a
\* chunk of another level that is not loaded.
OpenTellsOfItsLevel ==
  Traced /\ ~open => \A p \in pieces, q \in Conductors :
    touching(p, q) /\ q.level = p.level /\ p.box /\ q.box => q \in pieces
=============================================================================

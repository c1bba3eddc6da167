---------------------------- MODULE MCSiliconData ----------------------------
(***************************************************************************)
(* What the silicon views are drawn from, small: the layout export and the *)
(* scene rebuilt from it (part "scene"), the exporter's reading of a DEF   *)
(* net ("wiring") and of the netlist ("roles"), the procedural model's     *)
(* floorplan ("floor"), cell rows ("cells"), routes ("routes") and net     *)
(* tracing ("trace"), and what is pointed at and cut open ("pick").  The   *)
(* parts share no state; the variables of the parts a behaviour is not of  *)
(* are Off.                                                                *)
(***************************************************************************)
EXTENDS LayoutScene, MacroFloorplan, SectionPick

VARIABLES
  part,
  wiring, token, layerOn, widthOn, purposeOn, lastPoint, wireRects, wireVias, wirePath,
  netlist, unitMask, stageMask, passing, walked,
  rows, drops, nets,
  occupied, inset,
  loaded, seed, pieces, reached, truncated

wiringVars == <<wiring, token, layerOn, widthOn, purposeOn, lastPoint, wireRects, wireVias, wirePath>>
rolesVars == <<netlist, unitMask, stageMask, passing, walked>>
cellsVars == <<rows, drops, nets>>
routesVars == <<occupied, inset>>
traceVars == <<loaded, seed, pieces, reached, truncated>>
partsVars == <<part, vars, floorVars, wiringVars, rolesVars, cellsVars, routesVars, traceVars, pickVars>>

Off == "off"
----------------------------------------------------------------------------
\* A die of two by two tiles whose edges cut through cells, rows and rails, in
\* units of half the grid; rows of six sites.  Macros 1 and 2 are fillers, 11
\* a cell without pins, 12 one with two, 13 a well tap.
MCRows == [count |-> 2, height |-> 4, site |-> 2, x0 |-> 0, y0 |-> 2, x1 |-> 12]
MCFillSites == <<2, 1>>
MCWidth == [m \in {1, 2, 11, 12, 13} |-> IF m \in {1, 11, 13} THEN 2 ELSE 4]
Box(layer, x0, y0, x1, y1) == [layer |-> layer, x0 |-> x0, y0 |-> y0, x1 |-> x1, y1 |-> y1]
Pin(p, layer, x0, y0, x1, y1) == [pin |-> p, layer |-> layer, x0 |-> x0, y0 |-> y0, x1 |-> x1, y1 |-> y1]
MCPinShapes ==
  [m \in DOMAIN MCWidth |->
     IF m = 12 THEN {Pin(1, LI1, 0, 0, 2, 2), Pin(2, MET1, 2, 2, 4, 4)} ELSE {}]
Pad(layer) == Box(layer, -1, -1, 1, 1)
MCViaRects == [d \in 0 .. 2 |-> CASE d = 0 -> {Pad(LI1), Pad(MET1)}
                                  [] d = 1 -> {Pad(MET1), Pad(MET4)}
                                  [] d = 2 -> {Pad(MET4), Pad(MET5)}]
MCViaBottom == [d \in 0 .. 2 |-> CASE d = 0 -> LI1 [] d = 1 -> MET1 [] d = 2 -> MET4]

VDD == 2
VSS == 3
Rect(layer, purpose, x0, y0, x1, y1, net) ==
  [kind |-> packKind(layer, purpose), x0 |-> x0, y0 |-> y0, x1 |-> x1, y1 |-> y1, net |-> net]
Via(d, x, y, net) == [def |-> d, x |-> x, y |-> y, net |-> net]

\* Rows of cells: 0 is an empty site.
RECURSIVE Layouts(_)
Layouts(sites) ==
  IF sites = 0 THEN {<<>>}
  ELSE {<<m>> \o l : m \in {0, 11}, l \in Layouts(sites - 1)}
         \cup IF sites > 1 THEN {<<12>> \o l : l \in Layouts(sites - 2)} ELSE {}

SitesOf(m) == IF m = 12 THEN 2 ELSE 1
Cell(m, x, row) == [macro |-> m, x |-> x, y |-> MCRows.y0 + row * MCRows.height,
                    orient |-> IF row % 2 = 0 THEN 0 ELSE 5]
RECURSIVE CellsFrom(_, _, _)
CellsFrom(l, x, row) ==
  IF l = <<>> THEN <<>>
  ELSE (IF Head(l) = 0 THEN <<>> ELSE <<Cell(Head(l), x, row)>>) \o CellsFrom(Tail(l), x + 2 * SitesOf(Head(l)), row)

\* A row's fillers: the placer's, or with sizes up to 1 only, or short of one.
RowFillCells(cells, row, sizes) ==
  {Cell(f.sites, f.x, row) :
     f \in UNION {GapFillers(g[1], (g[2] - g[1]) \div 2, 2, sizes, 1) : g \in RowGaps(ToSet(cells), MCWidth, 0, 12)}}

Design(row0, row1, fills, rects, vias, net1, net2, reports) ==
  LET low == CellsFrom(row0, 0, 0)
      high == CellsFrom(row1, 0, 1)
      stored == low \o high
      full == RowFillCells(low, 0, IF fills = "small" THEN <<1>> ELSE <<2, 1>>) \cup RowFillCells(high, 1, <<2, 1>>)
      some == IF fills = "short" /\ full # {} THEN full \ {CHOOSE f \in full : TRUE} ELSE full
  IN  [cells |-> stored \o Listed(some),
       rects |-> rects, vias |-> vias,
       pinNet |-> [at \in {<<i, p>> \in (DOMAIN stored) \X {1, 2} : stored[i].macro = 12} |->
                     IF at[2] = 1 THEN net1 ELSE net2],
       reports |-> reports]

CellDesigns ==
  {Design(l, <<12, 0, 0, 0, 13>>, f, <<>>, <<>>, NO_NET, NO_NET, f # "late") :
     l \in Layouts(6), f \in {"placed", "small", "short", "late"}}

\* One cell with pins, at the left edge, across the middle edge or in the
\* upper right; wires and vias on them or elsewhere, on the grid or off.
Wires ==
  {<<>>} \cup {<<Rect(layer, WIRE, b[1], b[2], b[3], b[4], n)>> :
     layer \in {MET1, MET3}, n \in {0, 1},
     b \in {<<0, 2, 12, 4>>, <<6, 2, 8, 10>>, <<2, 4, 10, 6>>, <<3, 4, 5, 6>>}}
Landed == {<<>>} \cup {<<Via(0, p[1], p[2], n)>> : n \in {0, 1}, p \in {<<0, 2>>, <<4, 4>>, <<6, 2>>, <<7, 3>>}}
WireDesigns ==
  {Design(l, <<0, 0, 0, 0, 0, 0>>, "placed", a \o b \o <<Rect(MET3, PIN, 10, 0, 12, 4, 1)>>, v \o <<Via(0, 10, 10, 1)>>, n1, n2, TRUE) :
     l \in {<<12, 0, 0, 0, 0>>, <<0, 0, 12, 0, 0>>},
     a \in Wires, b \in {<<>>, <<Rect(MET1, WIRE, 2, 4, 10, 6, 1)>>, <<Rect(LI1, WIRE, 0, 2, 2, 4, 0)>>},
     v \in Landed, n1 \in {0, 1, NO_NET}, n2 \in {0, 1, NO_NET}}

\* Straps over rails, and a stack at every crossing but perhaps one.
PowerDesigns ==
  {LET vdd == Rect(MET4, STRIPE, s, 0, s + 4, 12, VDD)
       rail(y, net) == Rect(MET1, RAIL, 0, y - 2, 12, y + 2, net)
       stack(y) == <<Via(1, s + 2, y, VDD)>>
       patch(y) == Rect(MET3, PATCH, s, y - 2, s + 4, y + 2, VDD)
   IN  Design(<<0, 12, 0, 0, 0>>, <<0, 0, 0, 12, 0>>, "placed",
              <<vdd, rail(2, VDD), rail(6, VSS), rail(at, VDD), patch(2)>> \o (IF odd = "patch" THEN <<>> ELSE <<patch(at)>>),
              stack(2) \o (IF odd = "via" THEN <<>> ELSE stack(at)) \o <<Via(2, s + 2, 4, VDD)>>
                \o (IF odd = "more" THEN <<Via(1, s + 2, 4, VDD)>> ELSE <<>>),
              NO_NET, NO_NET, TRUE) :
     s \in {0, 2, 4, 8}, at \in {6, 8, 10}, odd \in {"none", "via", "patch", "more"}}

MCDesigns == CellDesigns \cup WireDesigns \cup PowerDesigns
----------------------------------------------------------------------------
\* Three layers and two vias; wires of a point, and up to four moves from it.
TwoVias == [v \in {"v12", "v23"} |-> IF v = "v12" THEN <<1, 2>> ELSE <<2, 3>>]

\* The values of Star and NoExt in DefAnalysis.
Same == 999
Unset == 99
NewPath(l) == [type |-> "new", layer |-> l, width |-> 2]
To(x, y) == [type |-> "point", x |-> x, y |-> y, ext |-> Unset]
Down(name) == [type |-> "via", name |-> name, columns |-> 1, rows |-> 1, sx |-> 0, sy |-> 0]
WireMoves == {To(8, Same), To(Same, 8), To(0, Same), [To(Same, 16) EXCEPT !.ext = 0],
              Down("v12"), Down("v23"), [type |-> "taper"], [type |-> "mask"],
              [type |-> "rect", dx0 |-> -1, dy0 |-> -1, dx1 |-> 3, dy1 |-> 1]}
\* The layer a path from layer 1 ends on; 0 if it takes a via from neither of
\* the via's layers.
LayerAfter(s) ==
  LET after[i \in 0 .. Len(s)] ==
        IF i = 0 THEN 1
        ELSE IF s[i].type # "via" \/ after[i - 1] = 0 THEN after[i - 1]
        ELSE LET pair == TwoVias[s[i].name]
             IN  IF after[i - 1] = pair[1] THEN pair[2] ELSE IF after[i - 1] = pair[2] THEN pair[1] ELSE 0
  IN  after[Len(s)]
WirePaths(n) == {s \in UNION {[1 .. m -> WireMoves] : m \in 0 .. n} : LayerAfter(s) # 0}
Regular(tokens) == [special |-> FALSE, tokens |-> tokens]
WireStatements ==
  {Regular(<<NewPath(1), To(0, 0)>> \o s) : s \in WirePaths(4)}
  \cup {Regular(<<NewPath(1), To(0, 0)>> \o s \o <<NewPath(2), To(8, 8)>> \o s) : s \in WirePaths(1)}
  \cup {Regular(<<NewPath(1), To(0, 0), [type |-> "virtual"], To(8, 0)>>)}
  \cup {[special |-> TRUE,
         tokens |-> <<NewPath(3), [type |-> "shape", shape |-> kind], To(0, 0), To(16, Same),
                      [Down("v23") EXCEPT !.columns = 2, !.rows = 2, !.sx = 4, !.sy = 4]>>] :
         kind \in {"FOLLOWPIN", "STRIPE", "IOWIRE"}}
----------------------------------------------------------------------------
\* Two registers, and three cells between them whose inputs make every shape
\* of cone, loops included.
Serves(units, stages) == [units |-> units, stages |-> stages]
Few(set) == {some \in SUBSET set : Cardinality(some) <= 1} \cup {set}
SmallNetlists ==
  {[cls |-> <<"sequential", "sequential", "logic", c, "buffer">>,
    of |-> <<o, Serves({1}, {2})>>,
    inputs |-> <<a, b, x, y, z>>,
    firstInput |-> [i \in 1 .. 5 |-> LET s == <<a, b, x, y, z>>[i] IN IF s = {} THEN 0 ELSE Min(s)],
    clockDrivers |-> {3, 4, 5}] :
    c \in {"logic", "clock"}, o \in {Serves({0}, {1}), Serves({}, {3}), Serves({}, {})},
    a \in {{3}, {3, 4}}, b \in {{4}, {1, 3}},
    x \in Few({4, 5}), y \in Few({2, 3, 5}), z \in Few({3, 4})}

Def == INSTANCE DefAnalysis WITH
  k <- token, layer <- layerOn, width <- widthOn, purpose <- purposeOn, prev <- lastPoint,
  rects <- wireRects, vias <- wireVias, path <- wirePath,
  Statements <- WireStatements, DefaultWidth <- <<2, 2, 4>>, RuleWidth <- <<4, 4, 4>>, ViaLayers <- TwoVias,
  Insts <- 1 .. 5, Units <- {0, 1}, Stages <- {1, 2, 3}, Netlists <- SmallNetlists, DepthGuard <- 8
----------------------------------------------------------------------------
\* Every cell type in some row, and three drops that land in the middle one.
DrawLists == {<<"FA", "XOR2", "NAND2", "DFF">>, <<"BUF", "AOI21", "INV", "NAND2", "OAI22">>,
              <<"MUX2", "NOR2", "NAND3", "DECAP">>}
ThreeDrops == <<[x |-> 351, z |-> 324, up |-> TRUE], [x |-> 999, z |-> 236, up |-> FALSE],
                [x |-> 1215, z |-> 396, up |-> FALSE]>>

CellRows == INSTANCE MacroCells WITH
  BLOCK_CPP <- 32, Draws <- DrawLists, Seeds <- {1, 2, 3, 5, 8, 13}, DropLists <- {ThreeDrops}

\* Boxes along three chunks of a level, cut at their edges, cylinders that
\* reach over an edge, and vias down to another level.
Piece(l, i, a, b, c, d, box, conducts) ==
  [level |-> l, ix |-> i, x0 |-> a, x1 |-> b, y0 |-> c, y1 |-> d, box |-> box, conducts |-> conducts]
TenPieces ==
  {Piece(3, 0, 4, 20, 10, 14, TRUE, TRUE), Piece(3, 1, 20, 40, 10, 14, TRUE, TRUE), Piece(3, 2, 40, 47, 10, 14, TRUE, TRUE),
   Piece(3, 1, 30, 32, 4, 10, TRUE, TRUE), Piece(3, 0, 2, 5, 15, 20, FALSE, TRUE), Piece(3, 1, 19, 22, 15, 30, FALSE, TRUE),
   Piece(3, 2, 44, 52, 22, 30, TRUE, TRUE),
   Piece(4, 1, 30, 33, 0, 4, TRUE, TRUE), Piece(4, 1, 33, 36, 0, 3, TRUE, FALSE), Piece(4, 1, 25, 29, 0, 4, TRUE, TRUE)}

\* A track of Mx1 with runs longer than a window looks back, others beside
\* it, and tracks of Mx2 and Mx3 that drop onto them.
Maze == INSTANCE MacroRoutes WITH
  Sites <- {<<0, 1, c>> : c \in 0 .. 4} \cup {<<0, 2, 0>>, <<0, 4, 0>>, <<1, 0, 0>>, <<1, 2, 0>>, <<1, 60, 0>>, <<2, 1, 0>>},
  Insets <- {8, 38}, BackSearch <- 3, LongestRun <- 5,
  Windows <- {<<0, 8>>, <<1, 3>>, <<2, 2>>, <<3, 6>>, <<-2, 1>>, <<4, 4>>}, RoutePad <- 700,
  queue <- reached,
  World <- TenPieces, ChunkWidth <- (3 :> 20 @@ 4 :> 20), MaxGap <- 1, GRID <- 3, Limit <- 6
----------------------------------------------------------------------------
\* Chunks side by side, above, within or instead of one another, a cell that
\* reaches out of its tile, and vias that go through the die.
Body(lo, hi) == [lo |-> lo, hi |-> hi]
Batch(material, shape, solids) == [material |-> material, shape |-> shape, pieces |-> solids]
Chunk(level, up, x, z, hx, hz, y0, y1, batches) ==
  [level |-> level, up |-> up, origin |-> <<x, z>>, half |-> <<hx, hz>>, yMin |-> y0, yMax |-> y1, batches |-> batches]
Strap == Chunk("global", TRUE, 10, 0, 20, 10, 10, 12, <<Batch("copper", "box", <<Body(<<-20, 10, -8>>, <<20, 12, -6>>)>>)>>)
TileOne ==
  Chunk("tile", TRUE, 0, 0, 10, 10, 0, 6,
    <<Batch("copper", "box", <<Body(<<-10, 4, 0>>, <<10, 6, 2>>)>>),
      Batch("logic", "box", <<Body(<<-8, 0, -4>>, <<-2, 2, 4>>), Body(<<6, 0, -4>>, <<14, 2, 4>>)>>),
      Batch("tungsten", "box", <<Body(<<-4, 2, 0>>, <<-2, 4, 2>>)>>)>>)
TileTwo ==
  Chunk("tile", TRUE, 20, 0, 10, 10, 0, 6,
    <<Batch("sequential", "box", <<Body(<<-4, 0, -4>>, <<4, 2, 4>>)>>),
      Batch("copper", "box", <<Body(<<-10, 4, 0>>, <<10, 6, 2>>)>>)>>)
Inside == Chunk("cells", TRUE, 0, 0, 10, 10, 0, 2, <<Batch("poly", "box", <<Body(<<-6, 0, -2>>, <<-4, 2, 2>>)>>)>>)
CoarseOf(up) == Chunk("coarse", up, 0, 0, 10, 10, 0, 6, <<Batch("copper", "box", <<Body(<<-10, 4, 0>>, <<10, 6, 2>>)>>)>>)
LayoutPicture(records) ==
  [engine |-> "layout", records |-> records, statics |-> {[lo |-> <<-20, -2, -20>>, hi |-> <<40, 0, 20>>, part |-> "substrate"]}]

\* A lined via through the die, its landing, and a wire beside it.
Lined ==
  Chunk("tile", TRUE, 10, 10, 10, 10, -6, 6,
    <<Batch("oxide", "cyl", <<Body(<<-6, -6, -6>>, <<4, 2, 4>>)>>),
      Batch("copper", "cyl", <<Body(<<-4, -6, -4>>, <<2, 0, 2>>)>>),
      Batch("copper", "box", <<Body(<<-4, 2, -4>>, <<2, 4, 2>>), Body(<<6, 0, -10>>, <<8, 2, 10>>)>>)>>)
ModelPicture(records) ==
  [engine |-> "model", records |-> records, statics |-> {[lo |-> <<-20, -6, -20>>, hi |-> <<40, 0, 40>>, part |-> "die"]}]

MCPictures ==
  {LayoutPicture(<<Strap, TileOne, TileTwo>>), LayoutPicture(<<TileTwo, Inside, TileOne>>),
   LayoutPicture(<<CoarseOf(FALSE), CoarseOf(TRUE), Strap>>),
   ModelPicture(<<Lined, Strap>>), ModelPicture(<<Strap, Lined>>)}

LookAt(x, z, fx, fz, distance, shown, crater) ==
  [orbit |-> <<x, z>>, forward |-> <<fx, fz>>, distance |-> distance, shown |-> shown, crater |-> crater]
Pit == {[x |-> 0, z |-> 0, floor |-> 3, radius |-> 6]}
MCLooks ==
  {LookAt(-3, 1, 9, 2, 20, {"global", "tile", "footprint"}, {}), LookAt(-3, 1, -9, 2, 20, {"global", "tile", "cells"}, {}),
   LookAt(5, 1, 4, 4, 20, {"global", "tile", "cells"}, Pit), LookAt(5, 9, 1, -9, 90, {"global", "tile", "coarse", "footprint"}, {})}
MCRays ==
  ({<<<<x, 20, z>>, <<0, -1, 0>>>> : x \in {-3, 8, 10, 13, 20}, z \in {-7, 1, 9}}
    \cup {<<<<x, y, z>>, <<d, 0, 0>>>> : <<x, d>> \in {<<-30, 1>>, <<44, -1>>}, y \in {-3, 1, 5, 11}, z \in {-7, 1, 9}}
    \cup {<<<<x, y, z>>, <<0, 0, d>>>> : <<z, d>> \in {<<-30, 1>>, <<34, -1>>}, y \in {-3, 1, 5}, x \in {-3, 9, 13}}
    \cup {<<<<x, 20, z>>, <<d, -1, 0>>>> : <<x, d>> \in {<<-22, 1>>, <<-14, 1>>, <<30, -1>>, <<26, -1>>}, z \in {1, 9}})
----------------------------------------------------------------------------
SceneOff == /\ design = Off /\ step = Off /\ tiles = Off /\ whole = Off
            /\ stacks = Off /\ skipped = Off /\ out = Off
WiringOff == /\ wiring = Off /\ token = Off /\ layerOn = Off /\ widthOn = Off /\ purposeOn = Off
             /\ lastPoint = Off /\ wireRects = Off /\ wireVias = Off /\ wirePath = Off
RolesOff == netlist = Off /\ unitMask = Off /\ stageMask = Off /\ passing = Off /\ walked = Off
FloorOff == camera = Off /\ floor = Off
CellsOff == rows = Off /\ drops = Off /\ nets = Off
RoutesOff == occupied = Off /\ inset = Off
TraceOff == loaded = Off /\ seed = Off /\ pieces = Off /\ reached = Off /\ truncated = Off
PickOff == /\ picture = Off /\ look = Off /\ sectionOn = Off /\ section = Off /\ sectionStamp = Off
           /\ capEps = Off /\ caps = Off /\ faceCaps = Off

PartsInit ==
  /\ part \in {"scene", "floor", "wiring", "roles", "cells", "routes", "trace", "pick"}
  /\ IF part = "scene" THEN Init ELSE SceneOff
  /\ IF part = "floor" THEN FloorInit ELSE FloorOff
  /\ IF part = "wiring" THEN Def!WiringInit ELSE WiringOff
  /\ IF part = "roles" THEN Def!RolesInit ELSE RolesOff
  /\ IF part = "cells" THEN CellRows!Init ELSE CellsOff
  /\ IF part = "routes" THEN Maze!Init ELSE RoutesOff
  /\ IF part = "trace" THEN Maze!TraceInit ELSE TraceOff
  /\ IF part = "pick" THEN PickInit ELSE PickOff

Only(p) == /\ part = p /\ UNCHANGED part
           /\ IF p = "scene" THEN TRUE ELSE UNCHANGED vars
           /\ IF p = "floor" THEN TRUE ELSE UNCHANGED floorVars
           /\ IF p = "wiring" THEN TRUE ELSE UNCHANGED wiringVars
           /\ IF p = "roles" THEN TRUE ELSE UNCHANGED rolesVars
           /\ IF p = "cells" THEN TRUE ELSE UNCHANGED cellsVars
           /\ IF p = "routes" THEN TRUE ELSE UNCHANGED routesVars
           /\ IF p = "trace" THEN TRUE ELSE UNCHANGED traceVars
           /\ IF p = "pick" THEN TRUE ELSE UNCHANGED pickVars

PartsNext == \/ Only("scene") /\ Next
             \/ Only("floor") /\ FloorNext
             \/ Only("wiring") /\ Def!WiringNext
             \/ Only("roles") /\ Def!RolesNext
             \/ Only("cells") /\ CellRows!Next
             \/ Only("routes") /\ Maze!Next
             \/ Only("trace") /\ Maze!TraceNext
             \/ Only("pick") /\ PickNext

PartsSpec == PartsInit /\ [][PartsNext]_partsVars

\* The part "pick" alone.
OnlyPickInit == /\ part = "pick" /\ PickInit /\ SceneOff /\ FloorOff /\ WiringOff /\ RolesOff
                /\ CellsOff /\ RoutesOff /\ TraceOff
OnlyPickSpec == OnlyPickInit /\ [][Only("pick") /\ PickNext]_partsVars
----------------------------------------------------------------------------
\* Exactly the sound designs are published, and whoever finds a manifest
\* finds every file it names, of the same export; what is exported of a net's
\* wiring is connected metal, and of the netlist the unit and stage that each
\* cell feeds: see LayoutExport and DefAnalysis.
ExportIsSound ==
  /\ part = "scene" => SoundIsPublished /\ ManifestIsLast
  /\ part = "wiring" => Def!PathsAreConnected
  /\ part = "roles" => Def!RolesAreReachability /\ Def!ClockLevels

\* The procedural rows: cells tile a row and are wired inside, and the local
\* nets are whole and never short, though each is routed alone.
CellNetsAreSound ==
  part = "cells" => CellRows!CellsAreWired /\ CellRows!NoShorts /\ CellRows!NetsAreWhole

\* Every window of the procedural routes, and every trace through the chunks
\* that happen to be drawn, finds what the whole die has; and the wires of the
\* upper layers, worked out apart at every level, meet.
RoutesAreFound ==
  /\ part = "routes" => /\ Maze!RunsAgree /\ Maze!EndsFoundOnce
                        /\ Maze!LaddersFoundOnce /\ Maze!DropsStandApart
  /\ part = "trace" => Maze!TraceIsTheNet /\ Maze!OpenTellsOfItsLevel
  /\ part = "floor" => DieHangsTogether

\* What is pointed at, what it is called and what the section shows of it: see
\* SectionPick.
PointedAtIsDrawn == part = "pick" => SectionIsSound /\ NamedAsDrawn
=============================================================================

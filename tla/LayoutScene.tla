----------------------------- MODULE LayoutScene -----------------------------
(***************************************************************************)
(* What the viewer makes of an exported layout: the shapes, vias and cells *)
(* it draws of a block (lib/a1-layout-scene.ts), the coarse form of a tile *)
(* for the region view, and how it finds the nets of a cell's pins and the *)
(* pins of a net (silicon/layout-engine.ts).  The properties compare that  *)
(* with the design the exporter read.                                      *)
(*                                                                         *)
(* Abstractions: a drawn box is its layer, purpose, net and outline in the *)
(* design's coordinates; heights, tints, pulses and the inside of cells    *)
(* are left out.                                                           *)
(***************************************************************************)
EXTENDS LayoutExport

CONSTANTS
  Taps,         \* the macros that are well taps
  LandingReach, \* how far around a via's origin netPins looks for cells
  NearReach     \* how far from a place cellNear looks for one

Published == step = "published"

Block(t) == Decoded(tiles[t])
strapsOf(block) == LinesOf(block.rects, MET4, STRIPE)

\* The supply stacks of a tile, from the straps of the global block and the
\* rails of its own.
TileCrossings(t) ==
  LET rails == {Line(r) : r \in {q \in ToSet(Block(t).rects) : kindPurpose(q.kind) = RAIL}}
  IN  Crossings(strapsOf(Decoded(whole)), rails, t[1] * TileSize, t[2] * TileSize, TileSize, TileSize)

\* A tile without a file has nothing to draw.
HasFile(t) == \/ tiles[t].cells # <<>> \/ FillsOf(t) # {}
              \/ tiles[t].rects # <<>> \/ tiles[t].vias # <<>>
Shown == {t \in Tiles : HasFile(t)}

\* buildRoutingChunk.
TileRects(t) == Block(t).rects \o Listed(StackPatches(TileCrossings(t), stacks))
TileVias(t) == Block(t).vias \o Listed(StackVias(TileCrossings(t), stacks))
TileFills(t) == rebuildFill(Block(t), Rows, FillSites, Width, t[1] * TileSize, TileSize)

OfTiles(F(_)) ==
  LET order == Listed(Shown)
  IN  FlattenSeq([i \in DOMAIN order |-> F(order[i])])
AllRects == OfTiles(TileRects) \o Decoded(whole).rects
AllVias == OfTiles(TileVias) \o Decoded(whole).vias
AllCells == {[macro |-> c.macro, x |-> c.x, y |-> c.y] : c \in ToSet(OfTiles(LAMBDA t : Block(t).cells))}
              \cup UNION {TileFills(t) : t \in Shown}

\* buildCoarseChunk: the wiring of the upper layers.
IsCoarse(r) ==
  kindLayer(r.kind) \in {MET3, MET4, MET5} /\ ~Supply(r) /\ kindPurpose(r.kind) \in {WIRE, PATCH}
CoarseRects == SelectSeq(OfTiles(LAMBDA t : Block(t).rects), IsCoarse)

\* Number of the instance drawn for the k-th cell of a tile.
instOf(t, k) == Block(t).firstInst + k - 1
----------------------------------------------------------------------------
\* The nets of a cell's pins.

netOnRects(t, rects) == pinNets(rects, LowMetal(Block(t).rects, Block(t).vias))

\* Mistake: a cell's pins are looked for in its own tile.
CellPinNetsAtHome(t, cell, pin) == netOnRects(t, PinRects(cell, pin))

\* cellPins looks in the cell's tile and in those right of and above it.
cellPinNets(t, cell, pin) ==
  UNION {netOnRects(u, PinRects(cell, pin)) :
    u \in Shown \cap {t, <<t[1] + 1, t[2]>>, <<t[1], t[2] + 1>>, <<t[1] + 1, t[2] + 1>>}}

\* The tiles in the box of a net's metal (NetChunk.tiles).
netTiles(net) ==
  LET shapes == {RectShape(r) : r \in ToSet(design.rects)} \cup UNION {ViaShapes(v) : v \in ToSet(design.vias)}
      own == {s \in shapes : s.net = net}
      from == tileIndexAt(Min({s.x0 : s \in own}), Min({s.y0 : s \in own}))
      to == tileIndexAt(Max({s.x1 : s \in own}) - 1, Max({s.y1 : s \in own}) - 1)
  IN  IF own = {} THEN {} ELSE (from[1] .. to[1]) \X (from[2] .. to[2])

\* Where the net's metal may land on cells.
Landings(t, net) ==
  LET around(v) == [x0 |-> v.x - LandingReach, y0 |-> v.y - LandingReach,
                    x1 |-> v.x + LandingReach, y1 |-> v.y + LandingReach]
  IN  {around(v) : v \in {w \in ToSet(Block(t).vias) : w.net = net /\ ViaBottom[w.def] = LI1}}
        \cup {[x0 |-> r.x0, y0 |-> r.y0, x1 |-> r.x1, y1 |-> r.y1] :
                r \in {q \in ToSet(Block(t).rects) : q.net = net /\ kindLayer(q.kind) = MET1}}

\* netOnRectsFor: whether the net's metal touches any of a pin's shapes.
netOnRectsFor(t, rects, net) ==
  \E r \in rects :
    \/ \E v \in ToSet(Block(t).vias) : v.net = net /\ \E s \in ViaShapes(v) : s.layer = r.layer /\ Overlaps(s, r)
    \/ \E q \in ToSet(Block(t).rects) : q.net = net /\ kindLayer(q.kind) = r.layer /\ Overlaps(q, r)

BoxOf(cell) == [x0 |-> cell.x, y0 |-> cell.y, x1 |-> cell.x + Width[cell.macro], y1 |-> cell.y + Rows.height]

\* netPins: the cells are looked for one tile further left and below.
netPins(net) ==
  LET box == netTiles(net)
      near == Shown \cap (box \cup {<<t[1] - 1, t[2]>> : t \in box} \cup {<<t[1], t[2] - 1>> : t \in box}
                                \cup {<<t[1] - 1, t[2] - 1>> : t \in box})
      landings == UNION {Landings(t, net) : t \in Shown \cap box}
  IN  UNION {LET cells == Block(t).cells
                 landed == {k \in DOMAIN cells : \E l \in landings : Overlaps(l, BoxOf(cells[k]))}
             IN  UNION {{<<instOf(t, k), p>> : p \in {q \in PinsOf(cells[k].macro) :
                                   \E u \in Shown \cap box : netOnRectsFor(u, PinRects(cells[k], q), net)}} : k \in landed}
             : t \in near}
----------------------------------------------------------------------------
\* What the viewer says of a net, a place and a view.

\* netBoxes: the outlines of a selected net, from the blocks of its tiles.
netBoxes(net) ==
  LET ofBlock(t) ==
        LET rects == SelectSeq(Block(t).rects, LAMBDA r : r.net = net)
            own == SelectSeq(Block(t).vias, LAMBDA v : v.net = net)
        IN  [i \in DOMAIN rects |-> RectShape(rects[i])]
              \o FlattenSeq([i \in DOMAIN own |-> Listed(ViaShapes(own[i]))])
      order == Listed(netTiles(net) \cap Shown)
  IN  FlattenSeq([i \in DOMAIN order |-> ofBlock(order[i])])

\* Mistake: a place's cell is looked for in its own tile.
SearchedAtHome(p) == Shown \cap {tileIndexAt(p[1], p[2])}

\* cellNear: "a cell can reach into the tiles above and to its right".
Searched(p) ==
  LET t == tileIndexAt(p[1], p[2])
  IN  Shown \cap {<<t[1] + d[1], t[2] + d[2]>> : d \in {<<0, 0>>, <<-1, 0>>, <<0, -1>>, <<-1, -1>>, <<1, 0>>, <<0, 1>>}}

Apart(cell, p) ==
  LET away(lo, at, hi) == Max({lo - at, 0, at - hi})
  IN  away(cell.x, p[1], cell.x + Width[cell.macro]) ^ 2 + away(cell.y, p[2], cell.y + Rows.height) ^ 2

Nearest(cells, p) ==
  LET near == {c \in cells : ~isFill(c.macro) /\ c.macro \notin Taps /\ Apart(c, p) < NearReach ^ 2}
  IN  {c \in near : \A d \in near : Apart(c, p) <= Apart(d, p)}
cellNear(p) == Nearest(UNION {ToSet(Block(t).cells) : t \in Searched(p)}, p)

Touches(t, r) == /\ (t[1] + 1) * TileSize >= r.x0 /\ t[1] * TileSize <= r.x1
                 /\ (t[2] + 1) * TileSize >= r.y0 /\ t[2] * TileSize <= r.y1

\* Mistake: a tile loaded in both forms is counted in both.
ViewChunksTwice(full, r) == {"tile", "coarse"} \X {t \in Shown : Touches(t, r)}

\* viewDetails: "Each tile once: its full chunk where loaded, else its region
\* chunk."
ViewChunks(full, r) ==
  LET seen == {t \in Shown : Touches(t, r)}
  IN  ({"tile"} \X (seen \cap full)) \cup ({"coarse"} \X (seen \ full))

\* viewStats: the cells of the chunks with their middle in the view, and the
\* signal nets of the wires and vias there.  Region chunks have no vias.
MiddleIn(r, x0, y0, x1, y1) == /\ 2 * r.x0 <= x0 + x1 /\ x0 + x1 <= 2 * r.x1
                               /\ 2 * r.y0 <= y0 + y1 /\ y0 + y1 <= 2 * r.y1
CellIn(r, c) == MiddleIn(r, c.x, c.y, c.x + Width[c.macro], c.y + Rows.height)
IsWire(q) == kindPurpose(q.kind) = WIRE
\* What a chunk lists: a full tile every cell, its fillers rebuilt; a region
\* chunk the stored cells but for the well taps.
ChunkCells(chunk) ==
  LET stored == Block(chunk[2]).cells
  IN  IF chunk[1] = "tile" THEN stored \o Listed(TileFills(chunk[2]))
      ELSE SelectSeq(stored, LAMBDA c : c.macro \notin Taps)
CellsCounted(chunks, r, macro) ==
  MapThenSumSet(LAMBDA c : Len(SelectSeq(ChunkCells(c), LAMBDA d : d.macro = macro /\ CellIn(r, d))), chunks)
NetsCounted(chunks, r) ==
  LET wires(c) == {q \in ToSet(Block(c[2]).rects) : IsWire(q) /\ (c[1] = "tile" \/ IsCoarse(q)) /\ MiddleIn(r, q.x0, q.y0, q.x1, q.y1)}
      cuts(c) == {v \in ToSet(Block(c[2]).vias) : c[1] = "tile" /\ MiddleIn(r, v.x, v.y, v.x, v.y)}
  IN  {s.net : s \in UNION {wires(c) \cup cuts(c) : c \in chunks}} \cap 0 .. SignalNets - 1
----------------------------------------------------------------------------
\* The stored cells in the order of their numbers.
Numbered ==
  SortSeq(StoredCells, LAMBDA c, d :
    LET t == tileIndexAt(c.x, c.y)
        u == tileIndexAt(d.x, d.y)
    IN  LexLess(<<t[2], t[1], c.y, c.x>>, <<u[2], u[1], d.y, d.x>>))

Points == {p \in (0 .. DieSize - 1) \X (0 .. DieSize - 1) : p[1] % Grid = 0 /\ p[2] % Grid = 0}
Cover(rects, like, p) ==
  Cardinality({i \in DOMAIN rects :
    LET r == rects[i]
    IN  /\ r.kind = like.kind /\ r.net = like.net
        /\ r.x0 <= p[1] /\ p[1] < r.x1 /\ r.y0 <= p[2] /\ p[2] < r.y1})
SameMetal(drawn, real) ==
  \A like \in ToSet(drawn) \cup ToSet(real) : \A p \in Points : Cover(drawn, like, p) = Cover(real, like, p)

\* No rail is cut lengthwise by a tile edge under a strap.
RailsWhole ==
  \A c \in AllCrossings : \A e \in 1 .. N - 1 : ~(c.rail.y0 < e * TileSize /\ e * TileSize < c.rail.y1)

\* A selected net is outlined whole, but for the die's own pins, which no tile
\* keeps; a cell is found under every place it covers, though another tile
\* keeps it; and of every macro that is neither filler nor well tap, which the
\* panel does not list, a view counts what the design has there, whichever of
\* its tiles are loaded in full.  Fillers and taps are counted right where all
\* are; a region chunk leaves them out.
Die == [x0 |-> 0, y0 |-> 0, x1 |-> DieSize, y1 |-> DieSize]
Left == [Die EXCEPT !.x1 = TileSize + 1]
OutlinesAreWhole ==
  \A net \in 0 .. SignalNets - 1 :
    LET drawn == netBoxes(net)
        real == {RectShape(q) : q \in {r \in ToSet(design.rects) : r.net = net /\ kindPurpose(r.kind) # PIN}}
                  \cup UNION {ViaShapes(v) : v \in {w \in ToSet(design.vias) : w.net = net}}
        holds(b, layer, p) == b.layer = layer /\ b.x0 <= p[1] /\ p[1] < b.x1 /\ b.y0 <= p[2] /\ p[2] < b.y1
    IN  \A p \in Points : {b.layer : b \in {c \in ToSet(drawn) : holds(c, c.layer, p)}}
                          = {b.layer : b \in {c \in real : holds(c, c.layer, p)}}
PlacesAreNamed ==
  \A p \in Points :
    LET under == {c \in ToSet(StoredCells) : c.macro \notin Taps /\ Apart(c, p) = 0}
    IN  under # {} => cellNear(p) = under
Physical(macro) == isFill(macro) \/ macro \in Taps
CountsAreRight ==
  \A full \in {{}, Shown, {t \in Shown : t[1] = 0}} : \A r \in {Die, Left} :
    /\ \A macro \in DOMAIN Width :
         (Physical(macro) => full = Shown) =>
           CellsCounted(ViewChunks(full, r), r, macro)
              = Len(SelectSeq(design.cells, LAMBDA c : c.macro = macro /\ CellIn(r, c) /\ Touches(tileIndexAt(c.x, c.y), r)))
    /\ full = Shown =>
         NetsCounted(ViewChunks(full, Die), Die)
           = {s.net : s \in ToSet(SelectSeq(design.rects, IsWire)) \cup ToSet(design.vias)} \cap 0 .. SignalNets - 1

\* A published layout is drawn as it was designed: every cell once, under
\* its own number, every via once, and the same metal of every net on every
\* layer at every place, in the full tiles and in the coarse ones ("Nothing
\* is approximated", a1-layout-format.ts:20).
DrawsTheDesign ==
  Published =>
    /\ AllCells = {[macro |-> c.macro, x |-> c.x, y |-> c.y] : c \in ToSet(design.cells)}
    /\ \A t \in Shown : \A k \in DOMAIN Block(t).cells : Numbered[instOf(t, k) + 1] = Block(t).cells[k]
    /\ SameMetal(CoarseRects, SelectSeq(design.rects, IsCoarse))
    /\ RailsWhole => /\ ToBag(AllVias) = ToBag(design.vias)
                     /\ SameMetal(AllRects, design.rects)
    /\ OutlinesAreWhole /\ PlacesAreNamed /\ CountsAreRight

\* "The supply via stack placed wherever a met4 strap crosses a met1 rail
\* ... Rebuilt per tile rather than stored (the exporter checks every
\* crossing)" (a1-layout-format.ts): the viewer's vias are the design's.
StacksAreRebuilt == Published => ToBag(AllVias) = ToBag(design.vias)

\* Of a published layout the viewer finds, from the metal alone, the net of
\* every pin and the pins of every net, where vias land inside the cells.
ViasLandInside ==
  \A v \in ToSet(design.vias) : \A i \in DOMAIN StoredCells : \A p \in PinsOf(StoredCells[i].macro) :
    LET c == StoredCells[i]
    IN  (\E s \in ViaShapes(v), r \in PinRects(c, p) : s.layer = r.layer /\ Overlaps(s, r))
          => v.x >= c.x /\ v.x < c.x + Width[c.macro] /\ v.y >= c.y /\ v.y < c.y + Rows.height
NoBareLi1 == \A r \in ToSet(design.rects) : kindLayer(r.kind) # LI1

\* An instance's number is its place among the numbered cells.
NumberOf(i) == (CHOOSE k \in DOMAIN Numbered : Numbered[k] = StoredCells[i]) - 1
Alone(net) == Cardinality(PinsOn(net)) = 1

PinsAreFound ==
  Published /\ ViasLandInside =>
    /\ \A at \in DOMAIN design.pinNet :
         LET cell == StoredCells[at[1]]
             net == design.pinNet[at]
             found == cellPinNets(tileIndexAt(cell.x, cell.y), cell, at[2])
         IN  \/ found = IF net = NO_NET THEN {} ELSE {net}
             \/ net # NO_NET /\ found = {} /\ Alone(net)
    /\ NoBareLi1 => \A net \in 0 .. SignalNets - 1 :
         LET real == {<<NumberOf(at[1]), at[2]>> : at \in PinsOn(net)}
         IN  netPins(net) = real \/ (netPins(net) = {} /\ Alone(net))
----------------------------------------------------------------------------
\* A design is sound if its rows are filled as the placer does, every
\* crossing has the same stack, every shape lies on the grid, and its pins
\* touch the metal of their nets and no other.
RowFills(row) ==
  LET gaps == RowGaps(RowCells(row), Width, Rows.x0, Rows.x1)
  IN  UNION {GapFillers(g[1], (g[2] - g[1]) \div Rows.site, Rows.site, FillSites, 1) : g \in gaps}
Filled ==
  {[macro |-> c.macro, x |-> c.x, y |-> c.y] : c \in {d \in ToSet(design.cells) : isFill(d.macro)}}
    = UNION {{[macro |-> f.sites, x |-> f.x, y |-> Rows.y0 + row * Rows.height] : f \in RowFills(row)} :
               row \in 0 .. Rows.count - 1}
SoundDesign ==
  /\ Filled
  /\ \A c, d \in AllCrossings : StackAt(c) = StackAt(d)
  /\ \A r \in ToSet(design.rects) : \A n \in {r.x0, r.y0, r.x1, r.y1} : n % Grid = 0
  /\ \A v \in ToSet(design.vias) : v.x % Grid = 0 /\ v.y % Grid = 0
  /\ PinNetsAgree
  /\ design.reports

\* Exactly the sound designs are published: "the exporter proves both
\* against the DEF before it writes anything" (a1-layout-format.ts), and it
\* refuses no good one.
SoundIsPublished == /\ step = "refused" => ~SoundDesign
                    /\ Published => Filled /\ PinNetsAgree

\* Whoever finds a manifest finds every file it names, of the same export.
ManifestIsLast ==
  out["manifest"] # "absent" => \A f \in DOMAIN out : out[f] = out["manifest"]
=============================================================================

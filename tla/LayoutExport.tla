---------------------------- MODULE LayoutExport ----------------------------
(***************************************************************************)
(* The layout exporter (tools/physical/layout-export/export-layout.ts): it *)
(* reads a routed design, numbers its cells tile by tile, takes out what   *)
(* the viewer can rebuild, cuts the rest at the tiles' edges, checks that  *)
(* the rebuilds and the encoding give the design back, and writes the      *)
(* files, the manifest last.  It refuses (throws) at the first check that  *)
(* fails.                                                                  *)
(*                                                                         *)
(* Abstractions: a design is its placed cells, shapes and vias and the net *)
(* each signal pin is on; a filler macro is the number of sites it fills;  *)
(* an I/O pin's shapes are among the design's; of the reports it is only   *)
(* said whether they belong to the design; files are groups, each written  *)
(* at once; names, statistics and pictures are left out.                   *)
(***************************************************************************)
EXTENDS LayoutFormat

CONSTANTS
  DieSize, TileSize, \* the die is a square at the origin, of tiles
  Rows,              \* rowSpec: count, height, site, x0, y0, x1
  FillSites,         \* FILL_SITES: the fillers' sizes, largest first
  Width,             \* macro -> width (the rows' height is every macro's)
  PinShapes,         \* macro -> its signal pins' shapes [pin, layer, box]
  SignalNets,        \* N: nets 0 .. N - 1 are signals, then VDD and VSS
  ViaRects,          \* via definition -> its rectangles [layer, box]
  ViaBottom,         \* via definition -> its lower metal
  Designs            \* the designs that may be exported

LI1 == 8
MET1 == 10
MET3 == 14
MET4 == 16
MET5 == 18
NO_NET == 99
WIRE == 0
PATCH == 1
PIN == 2
RAIL == 3
STRIPE == 4

ASSUME ExportAssumption ==
  /\ {DieSize, TileSize, SignalNets} \subseteq Nat \ {0}
  /\ \A d \in DOMAIN ViaRects : \A r \in ViaRects[d] : r.x0 <= 0 /\ r.x1 >= 0 /\ r.y0 <= 0 /\ r.y1 >= 0

VARIABLES
  design,  \* what the DEF, the LEF and the reports say
  step,    \* how far the export has come
  tiles,   \* the blocks of the tiles
  whole,   \* the global block
  stacks,  \* powerStacks
  skipped, \* skipRect and skipVia: the shapes rebuilt and not stored
  out      \* the directory: which export each group of files is from

vars == <<design, step, tiles, whole, stacks, skipped, out>>

Files == <<"tiles", "global", "nets", "insts", "lib", "overview", "roles", "clock", "path", "manifest">>

\* Tiles per side.
N == (DieSize + TileSize - 1) \div TileSize
Tiles == (0 .. N - 1) \X (0 .. N - 1)
EmptyBlock(ox, oy) ==
  [ox |-> ox, oy |-> oy, firstInst |-> 0, cells |-> <<>>, rects |-> <<>>, vias |-> <<>>,
   row0 |-> 0, lead |-> <<>>, tail |-> <<>>]
NoTiles == [t \in Tiles |-> EmptyBlock(t[1] * TileSize, t[2] * TileSize)]
NoStacks == [vias |-> {}, patches |-> {}]
Nothing == [rects |-> {}, vias |-> {}]

Init ==
  /\ design \in Designs
  /\ step = "place"
  /\ tiles = NoTiles /\ whole = EmptyBlock(0, 0) /\ stacks = NoStacks /\ skipped = Nothing
  /\ out \in {[f \in ToSet(Files) |-> "absent"], [f \in ToSet(Files) |-> "earlier"]}

Clamp(n) == Max({0, Min({N - 1, n})})
tileIndexAt(x, y) == <<Clamp(x \div TileSize), Clamp(y \div TileSize)>>

isFill(macro) == macro \in ToSet(FillSites)
StoredCells == SelectSeq(design.cells, LAMBDA c : ~isFill(c.macro))

ByRowThenX(c, d) == LexLess(<<c.y, c.x>>, <<d.y, d.x>>)
CellsOf(t) ==
  SortSeq(SelectSeq(StoredCells, LAMBDA c : tileIndexAt(c.x, c.y) = t), ByRowThenX)
FillsOf(t) ==
  {[macro |-> c.macro, x |-> c.x, y |-> c.y] :
     c \in {d \in ToSet(design.cells) : isFill(d.macro) /\ tileIndexAt(d.x, d.y) = t}}

\* Instances are numbered in the order the tiles are stored.
firstInst(t) ==
  Cardinality({i \in DOMAIN StoredCells :
    LET u == tileIndexAt(StoredCells[i].x, StoredCells[i].y)
    IN  LexLess(<<u[2], u[1]>>, <<t[2], t[1]>>)})

CeilDiv(a, b) == -((-a) \div b)
FirstRow(t) == Max({0, CeilDiv(t[2] * TileSize - Rows.y0, Rows.height)})
LastRow(t) == Min({Rows.count - 1, CeilDiv((t[2] + 1) * TileSize - Rows.y0, Rows.height) - 1})

\* The gaps that reach into a tile from its left and out of it to its right.
RowCells(row) == {c \in ToSet(StoredCells) : c.y = Rows.y0 + row * Rows.height}
LeadOf(t, row) ==
  Max({Rows.x0} \cup {c.x + Width[c.macro] : c \in {d \in RowCells(row) : d.x < t[1] * TileSize}})
TailOf(t, row) ==
  Min({Rows.x1} \cup {c.x : c \in {d \in RowCells(row) : d.x >= (t[1] + 1) * TileSize}})
----------------------------------------------------------------------------
\* Cells go to the tile of their origin; fillers are put aside.
Place ==
  /\ step = "place"
  /\ tiles' = [t \in Tiles |->
       LET rows == [r \in 1 .. Max({0, LastRow(t) - FirstRow(t) + 1}) |-> FirstRow(t) + r - 1]
       IN  [NoTiles[t] EXCEPT
              !.cells = CellsOf(t),
              !.firstInst = firstInst(t),
              !.row0 = FirstRow(t),
              !.lead = [r \in DOMAIN rows |-> LeadOf(t, rows[r])],
              !.tail = [r \in DOMAIN rows |-> TailOf(t, rows[r])]]]
  /\ step' = "stacks"
  /\ UNCHANGED <<design, whole, stacks, skipped, out>>

Supply(shape) == shape.net >= SignalNets
Line(r) == [net |-> r.net, x0 |-> r.x0, y0 |-> r.y0, x1 |-> r.x1, y1 |-> r.y1]
LinesOf(rects, layer, purpose) ==
  {Line(r) : r \in {q \in ToSet(rects) : Supply(q) /\ q.kind = packKind(layer, purpose)}}
Straps == LinesOf(design.rects, MET4, STRIPE)
Rails == LinesOf(design.rects, MET1, RAIL)
AllCrossings == Crossings(Straps, Rails, 0, 0, DieSize + 1, DieSize + 1)

PowerVias == {i \in DOMAIN design.vias : Supply(design.vias[i]) /\ ViaBottom[design.vias[i].def] # MET4}
PowerPatches == {i \in DOMAIN design.rects :
                   Supply(design.rects[i]) /\ kindPurpose(design.rects[i].kind) = PATCH}

\* The stack at a crossing.
StackAt(c) ==
  LET centred(r) == r.x0 + r.x1 = 2 * c.x /\ r.y0 + r.y1 = 2 * c.y
  IN  [vias |-> {design.vias[i].def : i \in {j \in PowerVias : design.vias[j].x = c.x /\ design.vias[j].y = c.y}},
       patches |-> {LET r == design.rects[i]
                    IN  [kind |-> r.kind, x0 |-> r.x0 - c.x, y0 |-> r.y0 - c.y, x1 |-> r.x1 - c.x, y1 |-> r.y1 - c.y] :
                      i \in {j \in PowerPatches : centred(design.rects[j])}}]

\* Mistake: the stack learned is not required at every crossing.
FindStacksUnchecked ==
  /\ step = "stacks"
  /\ \/ AllCrossings = {} /\ stacks' = NoStacks
     \/ \E c \in AllCrossings : stacks' = StackAt(c)
  /\ skipped' = [vias |-> {i \in PowerVias : design.vias[i] \in StackVias(AllCrossings, stacks')},
                 rects |-> {i \in PowerPatches : design.rects[i] \in StackPatches(AllCrossings, stacks')}]
  /\ step' = "cut"
  /\ UNCHANGED <<design, tiles, whole, out>>

\* The supply via stack is learned from one crossing and then required at
\* every one, shape for shape.
FindStacks ==
  /\ step = "stacks"
  /\ \/ AllCrossings = {} /\ stacks' = NoStacks
     \/ \E c \in AllCrossings : stacks' = StackAt(c)
  /\ LET vias == StackVias(AllCrossings, stacks')
         patches == StackPatches(AllCrossings, stacks')
     IN  /\ skipped' = [vias |-> {i \in PowerVias : design.vias[i] \in vias},
                        rects |-> {i \in PowerPatches : design.rects[i] \in patches}]
         /\ step' = IF /\ vias \subseteq {design.vias[i] : i \in PowerVias}
                       /\ patches \subseteq {design.rects[i] : i \in PowerPatches}
                      THEN "cut" ELSE "refused"
  /\ UNCHANGED <<design, tiles, whole, out>>

\* Straps and I/O pins go to the global block whole, the rest to every tile
\* it lies in, cut at the edges; vias to the tile of their origin, those
\* between the straps to the global block.
Kept(shapes, skip, Test(_)) ==
  LET kept == Ascending({i \in DOMAIN shapes : i \notin skip /\ Test(shapes[i])})
  IN  [k \in DOMAIN kept |-> shapes[kept[k]]]

IsGlobalRect(r) ==
  \/ kindPurpose(r.kind) = PIN
  \/ kindPurpose(r.kind) = STRIPE /\ kindLayer(r.kind) >= MET4
IsGlobalVia(v) == Supply(v) /\ ViaBottom[v.def] = MET4

CutAt(t, r) ==
  LET ox == t[1] * TileSize
      oy == t[2] * TileSize
  IN  [r EXCEPT !.x0 = Max({@, ox}), !.y0 = Max({@, oy}),
                !.x1 = Min({@, ox + TileSize}), !.y1 = Min({@, oy + TileSize})]
Solid(r) == r.x0 < r.x1 /\ r.y0 < r.y1

Cut ==
  /\ step = "cut"
  /\ whole' = [whole EXCEPT !.rects = Kept(design.rects, skipped.rects, IsGlobalRect),
                            !.vias = Kept(design.vias, skipped.vias, IsGlobalVia)]
  /\ LET rects == Kept(design.rects, skipped.rects, LAMBDA r : ~IsGlobalRect(r))
         vias == Kept(design.vias, skipped.vias, LAMBDA v : ~IsGlobalVia(v))
     IN  tiles' = [t \in Tiles |->
           [tiles[t] EXCEPT
              !.rects = SelectSeq([k \in DOMAIN rects |-> CutAt(t, rects[k])], Solid),
              !.vias = SelectSeq(vias, LAMBDA v : tileIndexAt(v.x, v.y) = t)]]
  /\ step' = "check"
  /\ UNCHANGED <<design, stacks, skipped, out>>

AllBlocks == {tiles[t] : t \in Tiles} \cup {whole}
Decoded(block) == decodeBlock(encodeBlock(block))

FillsAgree ==
  \A t \in Tiles :
    rebuildFill(Decoded(tiles[t]), Rows, FillSites, Width, tiles[t].ox, TileSize) = FillsOf(t)

RoundTrip(block) ==
  LET back == Decoded(block)
  IN  /\ ToBag(back.rects) = ToBag(block.rects)
      /\ ToBag(back.vias) = ToBag(block.vias)
      /\ back.cells = block.cells
      /\ back.firstInst = block.firstInst

ViaShapes(v) ==
  {[layer |-> r.layer, net |-> v.net, x0 |-> v.x + r.x0, y0 |-> v.y + r.y0, x1 |-> v.x + r.x1, y1 |-> v.y + r.y1] :
     r \in ViaRects[v.def]}
RectShape(r) ==
  [layer |-> kindLayer(r.kind), net |-> r.net, x0 |-> r.x0, y0 |-> r.y0, x1 |-> r.x1, y1 |-> r.y1]

\* The signal metal cell pins can be on.
LowMetal(rects, vias) ==
  {s \in {RectShape(r) : r \in ToSet(rects)} \cup UNION {ViaShapes(v) : v \in ToSet(vias)} :
     ~Supply(s) /\ s.layer <= MET1}

PinsOf(macro) == {p.pin : p \in PinShapes[macro]}
PinRects(cell, pin) ==
  placedPinRects({p \in PinShapes[cell.macro] : p.pin = pin}, Width[cell.macro], Rows.height, cell)
PinsOn(net) == {<<i, p>> \in DOMAIN design.pinNet : design.pinNet[<<i, p>>] = net}

PinNetsAgree ==
  \A at \in DOMAIN design.pinNet :
    LET expected == design.pinNet[at]
        found == pinNets(PinRects(StoredCells[at[1]], at[2]), LowMetal(design.rects, design.vias))
    IN  \/ found = IF expected = NO_NET THEN {} ELSE {expected}
        \/ found = {} /\ expected # NO_NET /\ Cardinality(PinsOn(expected)) = 1

Check ==
  /\ step = "check"
  /\ step' = IF /\ \A b \in AllBlocks : Encodable(b)
                /\ FillsAgree
                /\ \A b \in AllBlocks : RoundTrip(b)
                /\ PinNetsAgree
               THEN "clear" ELSE "refused"
  /\ UNCHANGED <<design, tiles, whole, stacks, skipped, out>>

\* Mistake: an earlier export is written over.
ClearNothing ==
  /\ step = "clear"
  /\ step' = "tiles"
  /\ UNCHANGED <<design, tiles, whole, stacks, skipped, out>>

\* The old export is removed, then the files are written in order; the
\* reports are read on the way.
Clear ==
  /\ step = "clear"
  /\ out' = [f \in DOMAIN out |-> "absent"]
  /\ step' = "tiles"
  /\ UNCHANGED <<design, tiles, whole, stacks, skipped>>

Write ==
  \E k \in DOMAIN Files :
    /\ step = Files[k]
    /\ IF Files[k] = "path" /\ ~design.reports
         THEN step' = "refused" /\ UNCHANGED out
         ELSE /\ out' = [out EXCEPT ![Files[k]] = "new"]
              /\ step' = IF k = Len(Files) THEN "published" ELSE Files[k + 1]
    /\ UNCHANGED <<design, tiles, whole, stacks, skipped>>

Ended == step \in {"published", "refused"} /\ UNCHANGED vars

Next == Place \/ FindStacks \/ Cut \/ Check \/ Clear \/ Write \/ Ended

Spec == Init /\ [][Next]_vars
=============================================================================

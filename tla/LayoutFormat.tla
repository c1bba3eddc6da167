---------------------------- MODULE LayoutFormat ----------------------------
(***************************************************************************)
(* The data format of the exported layout (lib/a1-layout-format.ts): how a *)
(* block of cells, wires and vias is put in storage order, encoded and     *)
(* decoded, and what the viewer rebuilds rather than reads: filler cells,  *)
(* supply via stacks and the nets of cell pins.                            *)
(*                                                                         *)
(* Abstractions: a block is a record of sequences, one per column of the   *)
(* file; where a column has 16-bit fields a value is kept modulo Narrow;   *)
(* headers, padding and byte order are left out.                           *)
(***************************************************************************)
EXTENDS Orientations, FiniteSetsExt, SequencesExt

CONSTANTS
  Grid,     \* BLOCK_GRID: every stored coordinate is a multiple
  Narrow,   \* the values of a 16-bit field
  ViaReach  \* half the square a via counts as in routeOrder

ASSUME FormatAssumption ==
  Grid \in Nat \ {0} /\ Narrow \in Nat \ {0} /\ Narrow % 2 = 0 /\ ViaReach \in Nat

packKind(layer, purpose) == purpose * 32 + layer
kindLayer(kind) == kind % 32
kindPurpose(kind) == kind \div 32

MAX_RECT_KIND == packKind(31, 6)
VIA_TYPE_BASE == 255

Overlaps(r, s) == r.x0 < s.x1 /\ s.x0 < r.x1 /\ r.y0 < s.y1 /\ s.y0 < r.y1
\* A set as a sequence, in any order and in ascending order.
Listed(S) == FoldSet(LAMBDA x, s : Append(s, x), <<>>, S)
Ascending(S) == SortSeq(Listed(S), <)
----------------------------------------------------------------------------
\* Storage order.

LexLess(a, b) ==
  \E i \in DOMAIN a : a[i] < b[i] /\ \A j \in 1 .. i - 1 : a[j] = b[j]

\* Wires and vias as one kind of thing.
Prims(block) ==
  [i \in DOMAIN block.rects |->
     LET r == block.rects[i]
     IN  [via |-> 0, type |-> r.kind, x0 |-> r.x0, y0 |-> r.y0, x1 |-> r.x1, y1 |-> r.y1, net |-> r.net]]
  \o
  [i \in DOMAIN block.vias |->
     LET v == block.vias[i]
     IN  [via |-> 1, type |-> v.def, x0 |-> v.x, y0 |-> v.y, x1 |-> v.x, y1 |-> v.y, net |-> v.net]]

Sorted(prims) ==
  LET key(p) == <<p.net, p.via, p.type, p.x0, p.y0, p.x1, p.y1>>
  IN  SortSeq(prims, LAMBDA p, q : LexLess(key(p), key(q)))

Touch(p, q) ==
  LET pad == (p.via + q.via) * ViaReach
  IN  /\ p.x0 - pad <= q.x1 /\ q.x0 - pad <= p.x1
      /\ p.y0 - pad <= q.y1 /\ q.y0 - pad <= p.y1

\* The shapes of one net, depth first through those that touch; each route
\* starts at the lowest shape furthest left of those not yet taken.
RECURSIVE Walk(_, _, _)
Walk(group, left, stack) ==
  IF stack = <<>>
    THEN IF left = {} THEN <<>>
         ELSE LET first == CHOOSE k \in left : \A j \in left :
                             \/ LexLess(<<group[k].x0, group[k].y0>>, <<group[j].x0, group[j].y0>>)
                             \/ <<group[k].x0, group[k].y0>> = <<group[j].x0, group[j].y0>> /\ k <= j
              IN  Walk(group, left \ {first}, <<first>>)
    ELSE LET k == Head(stack)
             next == {j \in left : Touch(group[k], group[j])}
         IN  <<group[k]>> \o Walk(group, left \ next, Ascending(next) \o Tail(stack))

routeOrder(block) ==
  LET prims == Sorted(Prims(block))
      nets == Ascending({p.net : p \in ToSet(prims)})
      routes == [i \in DOMAIN nets |->
                   LET group == SelectSeq(prims, LAMBDA p : p.net = nets[i])
                   IN  Walk(group, DOMAIN group, <<>>)]
  IN  FlattenSeq(routes)
----------------------------------------------------------------------------
\* Encoding.

OnGrid(block) ==
  /\ \A c \in ToSet(block.cells) : (c.x - block.ox) % Grid = 0 /\ (c.y - block.oy) % Grid = 0
  /\ \A p \in ToSet(Prims(block)) : \A d \in {p.x0 - block.ox, p.y0 - block.oy, p.x1 - p.x0, p.y1 - p.y0} : d % Grid = 0

TypesFit(block) ==
  /\ \A r \in ToSet(block.rects) : r.kind <= MAX_RECT_KIND
  /\ \A v \in ToSet(block.vias) : v.def <= VIA_TYPE_BASE - MAX_RECT_KIND - 1

\* encodeBlock throws otherwise.
Encodable(block) == OnGrid(block) /\ TypesFit(block)

\* A value too large for its 16-bit field loses its upper part.
NarrowUnsigned(n) == n % Narrow
NarrowSigned(n) == ((n + Narrow \div 2) % Narrow) - Narrow \div 2

\* Does some value need 32 bits?
NeedsWide(cellValues, steps, sizes) ==
  \/ \E n \in cellValues : n < 0 \/ n >= Narrow
  \/ \E n \in steps : n < -(Narrow \div 2) \/ n >= Narrow \div 2
  \/ \E n \in sizes : n >= Narrow

\* Each position is a step from the one before, each net too; a wire adds
\* its length, its width and which way it runs.
Encoded(block, prims) ==
  LET from(k) == IF k = 1 THEN [x0 |-> block.ox, y0 |-> block.oy, net |-> 0] ELSE prims[k - 1]
      dx == [k \in DOMAIN prims |-> (prims[k].x0 - from(k).x0) \div Grid]
      dy == [k \in DOMAIN prims |-> (prims[k].y0 - from(k).y0) \div Grid]
      wires == SelectSeq(prims, LAMBDA p : p.via = 0)
      w == [k \in DOMAIN wires |-> (wires[k].x1 - wires[k].x0) \div Grid]
      h == [k \in DOMAIN wires |-> (wires[k].y1 - wires[k].y0) \div Grid]
      cx == [k \in DOMAIN block.cells |-> (block.cells[k].x - block.ox) \div Grid]
      cy == [k \in DOMAIN block.cells |-> (block.cells[k].y - block.oy) \div Grid]
      wide == NeedsWide(ToSet(cx) \cup ToSet(cy), ToSet(dx) \cup ToSet(dy), ToSet(w) \cup ToSet(h))
      unsigned(s) == [k \in DOMAIN s |-> IF wide THEN s[k] ELSE NarrowUnsigned(s[k])]
      signed(s) == [k \in DOMAIN s |-> IF wide THEN s[k] ELSE NarrowSigned(s[k])]
  IN  [ox |-> block.ox, oy |-> block.oy, firstInst |-> block.firstInst,
       macro |-> [k \in DOMAIN cx |-> block.cells[k].macro],
       orient |-> [k \in DOMAIN cx |-> block.cells[k].orient],
       cx |-> unsigned(cx), cy |-> unsigned(cy),
       type |-> [k \in DOMAIN prims |-> IF prims[k].via = 1 THEN VIA_TYPE_BASE - prims[k].type ELSE prims[k].type],
       dx |-> signed(dx), dy |-> signed(dy),
       netDelta |-> [k \in DOMAIN prims |-> prims[k].net - from(k).net],
       vertical |-> [k \in DOMAIN w |-> h[k] > w[k]],
       along |-> unsigned([k \in DOMAIN w |-> Max({w[k], h[k]})]),
       across |-> unsigned([k \in DOMAIN w |-> Min({w[k], h[k]})]),
       row0 |-> block.row0, lead |-> block.lead, tail |-> block.tail]
encodeBlock(block) == Encoded(block, routeOrder(block))

decodeBlock(file) ==
  LET PrimDomain == DOMAIN file.type
      at[k \in 0 .. Len(file.type)] ==
        IF k = 0 THEN [x |-> file.ox, y |-> file.oy, net |-> 0]
        ELSE [x |-> at[k - 1].x + file.dx[k] * Grid, y |-> at[k - 1].y + file.dy[k] * Grid,
              net |-> at[k - 1].net + file.netDelta[k]]
      wires == SelectSeq([k \in PrimDomain |-> k], LAMBDA k : file.type[k] <= MAX_RECT_KIND)
      vias == SelectSeq([k \in PrimDomain |-> k], LAMBDA k : file.type[k] > MAX_RECT_KIND)
  IN  [ox |-> file.ox, oy |-> file.oy, firstInst |-> file.firstInst,
       cells |-> [k \in DOMAIN file.macro |->
                    [macro |-> file.macro[k], orient |-> file.orient[k],
                     x |-> file.ox + file.cx[k] * Grid, y |-> file.oy + file.cy[k] * Grid]],
       rects |-> [r \in DOMAIN wires |->
                    LET p == at[wires[r]]
                        long == file.along[r] * Grid
                        short == file.across[r] * Grid
                    IN  [kind |-> file.type[wires[r]], net |-> p.net, x0 |-> p.x, y0 |-> p.y,
                         x1 |-> p.x + IF file.vertical[r] THEN short ELSE long,
                         y1 |-> p.y + IF file.vertical[r] THEN long ELSE short]],
       vias |-> [v \in DOMAIN vias |->
                   [def |-> VIA_TYPE_BASE - file.type[vias[v]],
                    x |-> at[vias[v]].x, y |-> at[vias[v]].y, net |-> at[vias[v]].net]],
       row0 |-> file.row0, lead |-> file.lead, tail |-> file.tail]
----------------------------------------------------------------------------
\* What is rebuilt.

\* The greedy fillers of a gap: the largest that fits, left to right.
\* sizes are FillSpec.sites, from the i-th on.
RECURSIVE GapFillers(_, _, _, _, _)
GapFillers(at, gap, site, sizes, i) ==
  IF i > Len(sizes) THEN {}
  ELSE IF gap >= sizes[i]
    THEN {[sites |-> sizes[i], x |-> at]} \cup GapFillers(at + sizes[i] * site, gap - sizes[i], site, sizes, i)
    ELSE GapFillers(at, gap, site, sizes, i + 1)

\* The gaps of one row of a block, from where its first begins (lead) to
\* where its last ends (tail), around the stored cells.
RowGaps(cells, width, lead, tail) ==
  LET end(c) == c.x + width[c.macro]
      stops == {tail} \cup {c.x : c \in cells}
      cursor(x) == Max({lead} \cup {end(c) : c \in {d \in cells : d.x < x}})
  IN  {<<cursor(x), x>> : x \in {s \in stops : s > cursor(s)}}

\* rebuildFill: the fillers of a block that begin inside it.
rebuildFill(block, rows, sizes, width, ox, size) ==
  LET y(r) == rows.y0 + (block.row0 + r - 1) * rows.height
      gaps(r) == RowGaps({c \in ToSet(block.cells) : c.y = y(r)}, width, block.lead[r], block.tail[r])
      fillers(g) == GapFillers(g[1], (g[2] - g[1]) \div rows.site, rows.site, sizes, 1)
      ofRow(r) == {[macro |-> f.sites, x |-> f.x, y |-> y(r)] : f \in UNION {fillers(g) : g \in gaps(r)}}
  IN  {f \in UNION {ofRow(r) : r \in DOMAIN block.lead} : f.x >= ox /\ f.x < ox + size}

\* rebuildPowerStacks: where a strap crosses a rail of its net inside the
\* window, the stack's vias and patches.
Crossings(straps, rails, ox, oy, width, height) ==
  {c \in {[x |-> (s.x0 + s.x1) \div 2, y |-> (r.y0 + r.y1) \div 2, net |-> s.net, strap |-> s, rail |-> r] :
            s \in straps, r \in rails} :
     /\ c.strap.net = c.rail.net
     /\ c.x >= ox /\ c.x < ox + width /\ c.y >= oy /\ c.y < oy + height
     /\ c.x >= c.rail.x0 /\ c.x <= c.rail.x1 /\ c.y >= c.strap.y0 /\ c.y <= c.strap.y1}

StackVias(crossings, stacks) ==
  {[def |-> d, x |-> c.x, y |-> c.y, net |-> c.net] : d \in stacks.vias, c \in crossings}

StackPatches(crossings, stacks) ==
  {[kind |-> p.kind, x0 |-> c.x + p.x0, y0 |-> c.y + p.y0, x1 |-> c.x + p.x1, y1 |-> c.y + p.y1, net |-> c.net] :
     p \in stacks.patches, c \in crossings}

\* A macro's pin shapes on a placed cell.
placedPinRects(pinRects, w, h, cell) ==
  {LET r == placeRect(cell.orient, w, h, p)
   IN  [layer |-> p.layer, x0 |-> cell.x + r.x0, y0 |-> cell.y + r.y0, x1 |-> cell.x + r.x1, y1 |-> cell.y + r.y1] :
     p \in pinRects}

\* pinNet: the nets of the metal on a pin's shapes (more than one: conflict).
pinNets(rects, shapes) ==
  {s.net : s \in {t \in shapes : \E r \in rects : r.layer = t.layer /\ Overlaps(r, t)}}
=============================================================================

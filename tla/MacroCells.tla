----------------------------- MODULE MacroCells -----------------------------
(***************************************************************************)
(* Standard-cell rows of the macro view (lib/silicon-macro.ts): the cells  *)
(* of a row block, the pins and M0 wiring of a cell, and the local nets    *)
(* that join pins on M2 and M3.  Every chunk rebuilds the nets it shows    *)
(* from this, so the rules below are all that keeps two nets apart.        *)
(*                                                                         *)
(* One block of a few neighbouring rows.  Lengths are nanometres, x and z  *)
(* from the block's corner; positions inside a cell are twentieths of a    *)
(* gate pitch.  What the hash decides (the cells drawn, what each input    *)
(* connects to, where the drops from the layers above land) is chosen.     *)
(***************************************************************************)
EXTENDS Integers, FiniteSetsExt, SequencesExt

CONSTANTS
  BLOCK_CPP,  \* gate pitches of a block; 32 in the code
  Draws,      \* what the hash may draw for a row: types, used over and over
  Seeds,      \* what it decides of the inputs
  DropLists   \* the drops that may land in a row: sequences of [x, z, up]

CPP == 54
ROW == 216
REACH == 14
LANE_GAP == 20
M2_HALF == 9
M3_HALF == 13
V_HALF == 10
PadHalf == 27

CELL_WIDTH == [INV |-> 2, BUF |-> 3, NAND2 |-> 3, NOR2 |-> 3, NAND3 |-> 4, AOI21 |-> 4, OAI22 |-> 5,
               XOR2 |-> 6, MUX2 |-> 7, FA |-> 12, DFF |-> 14, TAP |-> 1, FILL |-> 1, DECAP |-> 4]
\* How many inputs and outputs a cell has, whether the last input is a clock,
\* and whether it has internal nodes.
Io(inputs, outputs, clock, stages) == [inputs |-> inputs, outputs |-> outputs, clock |-> clock, stages |-> stages]
CELL_IO == [INV |-> Io(1, 1, FALSE, FALSE), BUF |-> Io(1, 1, FALSE, TRUE), NAND2 |-> Io(2, 1, FALSE, FALSE),
            NOR2 |-> Io(2, 1, FALSE, FALSE), NAND3 |-> Io(3, 1, FALSE, FALSE), AOI21 |-> Io(3, 1, FALSE, FALSE),
            OAI22 |-> Io(4, 1, FALSE, FALSE), XOR2 |-> Io(2, 1, FALSE, TRUE), MUX2 |-> Io(3, 1, FALSE, TRUE),
            FA |-> Io(3, 2, FALSE, TRUE), DFF |-> Io(2, 1, TRUE, TRUE)]
Types == DOMAIN CELL_IO
----------------------------------------------------------------------------
\* A cell's layout.

Even(k) == k % 2 = 0
\* Wires or lanes a .. b and c .. d keep a gap.
Apart(a, b, lane, gap) == b + gap <= lane[1] \/ lane[2] + gap <= a
FreeOf(a, b, lanes, gap) == \A lane \in lanes : Apart(a, b, lane, gap)

outs(type) == LET w == CELL_WIDTH[type]
              IN  IF CELL_IO[type].outputs > 1 THEN <<w - 4, w - 1>> ELSE <<w - 1>>
role(type, k) ==
  IF k \in Range(outs(type)) THEN "out"
  ELSE IF k = 0 THEN "power"
  ELSE IF ~CELL_IO[type].stages THEN IF Even(k) THEN "power" ELSE "none"
  ELSE IF Even(k) THEN "power" ELSE "int"

\* Inputs spread left of the first output; with internal nodes they take even
\* positions.  A position that is taken moves on.
SpreadInputs(io, span) ==
  LET step == IF io.stages THEN 2 ELSE 1
      spread(i) == IF io.inputs = 1 THEN 0 ELSE (2 * i * span + io.inputs - 1) \div (2 * (io.inputs - 1))
      start(i) == IF io.stages /\ ~Even(spread(i)) THEN spread(i) - 1 ELSE spread(i)
      Take(taken, i) == Append(taken, Min({start(i) + step * n : n \in 0 .. io.inputs} \ Range(taken)))
  IN  FoldLeft(Take, <<>>, [i \in 1 .. io.inputs |-> i - 1])
InputPositions(type) == SpreadInputs(CELL_IO[type], outs(type)[1] - 1)

\* Pins in the order they are drawn: inputs, then outputs.
LayoutPins(type) ==
  LET ins == InputPositions(type)
      dir(i) == IF CELL_IO[type].clock /\ i = Len(ins) THEN "clk" ELSE "in"
  IN  [i \in 1 .. Len(ins) |-> [k |-> ins[i], dir |-> dir(i)]]
        \o [i \in 1 .. Len(outs(type)) |-> [k |-> outs(type)[i], dir |-> "out"]]

PinTable == [type \in Types |-> LayoutPins(type)]

\* The M0 wires: drains on track 0, inputs on 1 and 2 in turn, then a wire
\* from each internal node to the undriven gates beside it.  A wire for which
\* no track is free is left out, and so is what it would have connected.
TrackFor(m0, order, a, b) ==
  SelectSeq(order, LAMBDA t : FreeOf(a, b, {<<w.k0, w.k1>> : w \in {v \in m0 : v.track = t}}, 4))
Wire(track, a, b, pin) == [track |-> track, k0 |-> a, k1 |-> b, pin |-> pin]

WithInput(layout, input) ==
  LET a == 20 * input.k - 5
      b == 20 * input.k + 15
      tracks == TrackFor(layout.m0, IF Even(input.index) THEN <<1, 2>> ELSE <<2, 1>>, a, b)
  IN  IF tracks = <<>> THEN layout
      ELSE [m0 |-> layout.m0 \cup {Wire(tracks[1], a, b, input.k)}, gates |-> layout.gates \cup {input.k}]
WithNode(layout, node) ==
  LET gates == {n \in {node.k - 1, node.k} : n <= node.last} \ layout.gates
      ends == {20 * node.k} \cup {20 * n + 10 : n \in gates}
      tracks == TrackFor(layout.m0, <<1, 2>>, Min(ends) - 3, Max(ends) + 3)
  IN  IF gates = {} \/ tracks = <<>> THEN layout
      ELSE [m0 |-> layout.m0 \cup {Wire(tracks[1], Min(ends) - 3, Max(ends) + 3, -1)},
            gates |-> layout.gates \cup gates]

cellLayout(type) ==
  LET w == CELL_WIDTH[type]
      ins == InputPositions(type)
      drains == {Wire(0, 20 * k - 6, 20 * k + 6, k) : k \in Range(outs(type))}
      nodes == SelectSeq([k \in 1 .. w - 2 |-> k], LAMBDA k : role(type, k) = "int")
      wired == FoldLeft(WithInput, [m0 |-> drains, gates |-> {}],
                        [i \in 1 .. Len(ins) |-> [k |-> ins[i], index |-> i - 1]])
  IN  IF CELL_IO[type].stages
      THEN FoldLeft(WithNode, wired, [i \in 1 .. Len(nodes) |-> [k |-> nodes[i], last |-> w - 2]])
      ELSE wired
LayoutTable == [type \in Types |-> cellLayout(type)]
----------------------------------------------------------------------------
\* The cells of a row block: a well tap, what is drawn, and filler for what
\* does not fit.

blockCells(draw) ==
  LET Place(cells, k) ==
        LET used == Last(cells).start + Last(cells).width
            type == draw[((k - 1) % Len(draw)) + 1]
            fits == used + CELL_WIDTH[type] <= BLOCK_CPP
        IN  IF used = BLOCK_CPP THEN cells
            ELSE Append(cells, IF fits THEN [type |-> type, start |-> used, width |-> CELL_WIDTH[type]]
                               ELSE [type |-> "FILL", start |-> used, width |-> BLOCK_CPP - used])
  IN  FoldLeft(Place, <<[type |-> "TAP", start |-> 0, width |-> 1]>>, [k \in 1 .. BLOCK_CPP |-> k])

\* The cell over gate pitch n.
cellsAt(cells, n) == {i \in DOMAIN cells : n >= cells[i].start /\ n < cells[i].start + cells[i].width}

PinsOf(row, cell) ==
  IF cell.type \notin Types THEN <<>>
  ELSE LET list == PinTable[cell.type]
       IN  [i \in 1 .. Len(list) |-> [row |-> row, k |-> cell.start + list[i].k, dir |-> list[i].dir,
                                     cell |-> cell.start, type |-> cell.type]]
pins(row, cells) == FoldLeft(LAMBDA all, cell : all \o PinsOf(row, cell), <<>>, cells)
X(pin) == pin.k * CPP

\* The first of the nearest pins of those that are accepted, at most one.
nearestPin(list, x, Accept(_)) ==
  LET fit == {i \in DOMAIN list : Accept(list[i])}
      distance(i) == LET d == X(list[i]) - x IN IF d < 0 THEN -d ELSE d
  IN  IF fit = {} THEN {}
      ELSE {list[CHOOSE i \in fit : \A j \in fit : distance(i) < distance(j) \/ (distance(i) = distance(j) /\ i <= j)]}
----------------------------------------------------------------------------
\* Drops and input classes.

\* Each drop in turn takes a pin: an output if the cells drive it, else the
\* nearest input no other drop has claimed.
ports(here, landings) ==
  LET claimed(done) == {port.k : port \in {q \in Range(done) : ~q.up}}
      Land(done, drop) ==
        LET pin == nearestPin(here, drop.x, LAMBDA p : IF drop.up THEN p.dir = "out"
                                                        ELSE p.dir = "in" /\ p.k \notin claimed(done))
        IN  Append(done, [x |-> drop.x, z |-> drop.z, up |-> drop.up,
                          k |-> IF pin = {} THEN -1 ELSE (CHOOSE p \in pin : TRUE).k])
  IN  FoldLeft(Land, <<>>, landings)
claims(landed) == {port.k : port \in {q \in Range(landed) : ~q.up}} \ {-1}

Classes == <<"row", "below", "above", "row", "none">>
\* Mistake: an input a drop has claimed takes a source of its own as well.
InputClassAlone(pin, landed, seed) ==
  IF pin.dir = "clk" THEN "clock"
  ELSE Classes[((seed * (pin.k + 3) + seed \div 5 + pin.row * 7) % 5) + 1]
inputClass(pin, landed, seed) ==
  IF pin.dir = "clk" THEN "clock"
  ELSE IF pin.k \in claims(landed) THEN "port"
  ELSE Classes[((seed * (pin.k + 3) + seed \div 5 + pin.row * 7) % 5) + 1]
----------------------------------------------------------------------------
\* Pieces of a net.  Vias are kept with the pin they reach, if any.

m2Z(row, j) == row * ROW + (2 * j + 1) * 18
Least(a, b) == IF a < b THEN a ELSE b
Most(a, b) == IF a < b THEN b ELSE a
M2(z, a, b) == [kind |-> "m2", x0 |-> Least(a, b) - REACH, x1 |-> Most(a, b) + REACH, z0 |-> z - M2_HALF, z1 |-> z + M2_HALF]
M3(x, a, b) == [kind |-> "m3", x0 |-> x - M3_HALF, x1 |-> x + M3_HALF, z0 |-> Least(a, b) - REACH, z1 |-> Most(a, b) + REACH]
Via(kind, x, z) == [kind |-> kind, x0 |-> x - V_HALF, x1 |-> x + V_HALF, z0 |-> z - V_HALF, z1 |-> z + V_HALF]
Pad(x, z) == [kind |-> "pad", x0 |-> x - PadHalf, x1 |-> x + PadHalf, z0 |-> z - PadHalf, z1 |-> z + PadHalf]

\* Along M2 both ways from a source, down a V1 to every sink.
fanOut(z, from, sinks) ==
  {M2(z, from, Min(side)) : side \in {{x \in sinks : x < from}} \ {{}}}
    \cup {M2(z, from, Max(side)) : side \in {{x \in sinks : x >= from}} \ {{}}}
    \cup {Via("v1", x, z) : x \in sinks}

Net(source, sinks, pieces) == [source |-> source, sinks |-> sinks, pieces |-> pieces]

\* The first of tracks 2 and 3 where a .. b fits, at most one.
place(lanes, a, b) ==
  LET fit == {j \in {2, 3} : FreeOf(a, b, lanes[j], LANE_GAP)} IN IF fit = {} THEN {} ELSE {Min(fit)}

\* The drops of a row, in order; a drop with no pin or no track stays a pad.
PortNets(row, landed) ==
  LET Route(done, port) ==
        LET x == port.k * CPP
            a == Least(x, port.x) - REACH
            b == Most(x, port.x) + REACH
            track == IF port.k = -1 THEN {} ELSE place(done.lanes, a, b)
            wires(j) == {Via("v1", x, m2Z(row, j)), M2(m2Z(row, j), x, port.x), Via("v2", port.x, m2Z(row, j)),
                         M3(port.x, m2Z(row, j), port.z)}
            driver == IF port.up THEN <<row, port.k>> ELSE <<row, -port.x>>
            fed == IF port.up THEN {} ELSE {<<row, port.k>>}
        IN  IF track = {}
            THEN [done EXCEPT !.nets = @ \cup {Net(<<row, -port.x>>, {}, {Pad(port.x, port.z)})}]
            ELSE LET j == CHOOSE t \in track : TRUE
                 IN  [lanes |-> [done.lanes EXCEPT ![j] = @ \cup {<<a, b>>}],
                      nets |-> done.nets \cup {Net(driver, fed, wires(j) \cup {Pad(port.x, port.z)})}]
  IN  FoldLeft(Route, [lanes |-> [j \in {2, 3} |-> {}], nets |-> {}], landed)

\* Source -> the sinks that take it, in one row block: a clock pin takes the
\* block's clock buffer, an input the output nearest to three pitches left.
RowSource(here, pin, landed, seed) ==
  LET buffers == SelectSeq(here, LAMBDA p : p.dir = "out" /\ p.type \in {"BUF", "INV"})
      class == inputClass(pin, landed, seed)
  IN  IF class = "clock"
      THEN IF buffers = <<>> \/ buffers[1].cell = pin.cell THEN {} ELSE {buffers[1]}
      ELSE IF class = "row"
      THEN nearestPin(here, X(pin) - 3 * CPP,
                      LAMBDA p : p.dir = "out" /\ p.cell # pin.cell /\ (buffers = <<>> \/ p # buffers[1]))
      ELSE {}

\* Sources in order of x, each with its sinks.
Groups(sourceOf) == \* sourceOf: sink pin -> set of its source, at most one
  LET sources == UNION {sourceOf[pin] : pin \in DOMAIN sourceOf}
  IN  [i \in 1 .. Cardinality(sources) |->
         LET s == CHOOSE c \in sources :
                    Cardinality({d \in sources : d.k < c.k \/ (d.k = c.k /\ d.row <= c.row)}) = i
         IN  [source |-> s, sinks |-> {pin \in DOMAIN sourceOf : s \in sourceOf[pin]}]]

rowNets(row, here, landings, seed) ==
  LET landed == ports(here, landings)
      groups == Groups([pin \in {p \in Range(here) : p.dir # "out"} |-> RowSource(here, pin, landed, seed)])
      Route(done, group) ==
        LET xs == {X(pin) : pin \in group.sinks}
            x == X(group.source)
            a == Min(xs \cup {x}) - REACH
            b == Max(xs \cup {x}) + REACH
            track == place(done.lanes, a, b)
            z(j) == m2Z(row, j)
        IN  IF track = {} THEN done
            ELSE LET j == CHOOSE t \in track : TRUE
                 IN  [lanes |-> [done.lanes EXCEPT ![j] = @ \cup {<<a, b>>}],
                      nets |-> done.nets \cup {Net(<<row, group.source.k>>, {<<row, pin.k>> : pin \in group.sinks},
                                                   {Via("v1", x, z(j))} \cup fanOut(z(j), x, xs))}]
  IN  FoldLeft(Route, PortNets(row, landed), groups).nets

\* M3 tracks of a class, of four.
m3Track(class, m) == (4 * m + class) * CPP + CPP \div 2
\* Nets between a row and the row above: up one M3 track of the pair's class,
\* with a lane on track 4 below and track 1 above.
PairSource(from, to, pin, wanted, landed, seed) ==
  IF pin.dir = "in" /\ inputClass(pin, landed, seed) = wanted
  THEN nearestPin(to, X(pin), LAMBDA p : p.dir = "out") ELSE {}

pairNets(row, lower, upper, landing, seed) ==
  LET inputs == {p \in Range(lower) \cup Range(upper) : p.dir # "out"}
      landed == [r \in {row, row + 1} |-> ports(IF r = row THEN lower ELSE upper, landing[r])]
      groups == Groups([pin \in inputs |->
                  IF pin.row = row THEN PairSource(lower, upper, pin, "above", landed[row], seed)
                                   ELSE PairSource(upper, lower, pin, "below", landed[row + 1], seed)])
      Route(done, group) ==
        LET x == X(group.source)
            xs == {X(pin) : pin \in group.sinks}
            lo == Most(CPP, Min(xs \cup {x}) - 2 * CPP)
            hi == Least((BLOCK_CPP - 1) * CPP, Max(xs \cup {x}) + 2 * CPP)
            from == IF group.source.row = row THEN "lower" ELSE "upper"
            to == IF from = "lower" THEN "upper" ELSE "lower"
            zs == IF from = "lower" THEN m2Z(row, 4) ELSE m2Z(row + 1, 1)
            zk == IF from = "lower" THEN m2Z(row + 1, 1) ELSE m2Z(row, 4)
            own(xm) == <<Least(x, xm) - REACH, Most(x, xm) + REACH>>
            other(xm) == <<Min(xs \cup {xm}) - REACH, Max(xs \cup {xm}) + REACH>>
            fit == {xm \in {m3Track(row % 2, m) : m \in 0 .. BLOCK_CPP \div 4} :
                      /\ lo <= xm /\ xm <= hi /\ xm \notin done.used
                      /\ FreeOf(own(xm)[1], own(xm)[2], done[from], LANE_GAP)
                      /\ FreeOf(other(xm)[1], other(xm)[2], done[to], LANE_GAP)}
            away(xm) == IF xm < x THEN 2 * (x - xm) ELSE 2 * (xm - x) + 1
        IN  IF fit = {} THEN done
            ELSE LET xm == CHOOSE c \in fit : \A d \in fit : away(c) <= away(d)
                     wires == {Via("v1", x, zs), M2(zs, x, xm), Via("v2", xm, zs), M3(xm, zs, zk), Via("v2", xm, zk)}
                 IN  [done EXCEPT !.used = @ \cup {xm}, ![from] = @ \cup {own(xm)}, ![to] = @ \cup {other(xm)},
                                  !.nets = @ \cup {Net(<<group.source.row, group.source.k>>,
                                                       {<<pin.row, pin.k>> : pin \in group.sinks},
                                                       wires \cup fanOut(zk, xm, xs))}]
  IN  IF lower = <<>> \/ upper = <<>> THEN {}
      ELSE FoldLeft(Route, [used |-> {}, lower |-> {}, upper |-> {}, nets |-> {}], groups).nets
----------------------------------------------------------------------------
VARIABLES
  rows,    \* row -> its cells
  drops,   \* row -> the drops that land in it
  nets     \* the local nets of the rows, once they are routed
cellsVars == <<rows, drops, nets>>

RowIds == 0 .. 2
Unrouted == {[unrouted |-> TRUE]}

Init ==
  /\ \E draws \in [RowIds -> Draws] : rows = [r \in RowIds |-> blockCells(draws[r])]
  /\ \E list \in DropLists : drops = [r \in RowIds |-> IF r = 1 THEN list ELSE <<>>]
  /\ nets = Unrouted

\* All three rows and the two pairs they make, as one chunk draws them.
RouteBlock ==
  /\ nets = Unrouted
  /\ \E seed \in Seeds :
       LET here == [r \in RowIds |-> pins(r, rows[r])]
       IN  nets' = UNION {rowNets(r, here[r], drops[r], seed) : r \in RowIds}
                     \cup UNION {pairNets(r, here[r], here[r + 1], drops, seed) : r \in {0, 1}}
  /\ UNCHANGED <<rows, drops>>

Next == RouteBlock
Spec == Init /\ [][Next]_cellsVars
----------------------------------------------------------------------------
Touch(a, b) == a.x0 <= b.x1 /\ b.x0 <= a.x1 /\ a.z0 <= b.z1 /\ b.z0 <= a.z1
Layer(piece) == IF piece.kind = "pad" THEN "m3" ELSE piece.kind
Routed == nets # Unrouted

\* Two nets with different drivers never touch, on M2, on M3 or at a via, and
\* no input is driven by two of them, though rows and pairs are routed apart.
NoShorts ==
  Routed => \A a, b \in nets : a.source # b.source =>
    /\ a.sinks \cap b.sinks = {}
    /\ \A p \in a.pieces, q \in b.pieces : ~(Layer(p) = Layer(q) /\ Touch(p, q))

\* A net is whole: each via lands on a wire of its own net that ends or
\* passes there, each V1 on the M1 bar of a pin of the net, and each wire
\* starts from a via; and nothing leaves the block.
NetsAreWhole ==
  Routed => \A net \in nets :
    LET of(kind) == {p \in net.pieces : p.kind = kind}
        inside(p, q) == q.x0 <= p.x0 /\ p.x1 <= q.x1 /\ q.z0 - 1 <= p.z0 /\ p.z1 <= q.z1 + 1
        pinsOf == net.sinks \cup {net.source}
    IN  /\ \A v \in of("v1") : (\E w \in of("m2") : inside(v, w))
             /\ \E pin \in pinsOf : /\ v.x0 + V_HALF = pin[2] * CPP
                                     /\ pin[1] * ROW + 42 <= v.z0 /\ v.z1 <= pin[1] * ROW + 174
        /\ \A v \in of("v2") : (\E w \in of("m2") : inside(v, w)) /\ (\E w \in of("m3") : inside(v, w))
        /\ \A w \in of("m2") : \E v \in of("v1") \cup of("v2") : inside(v, w)
        /\ \A sink \in net.sinks : \E v \in of("v1") : v.x0 + V_HALF = sink[2] * CPP
        /\ \A p \in net.pieces : 0 < p.x0 /\ p.x1 < BLOCK_CPP * CPP

\* A row's cells tile its block, so a point is in exactly one cell; and in
\* every cell each input reaches a gate, no two pins share a position and no
\* two M0 wires of a track touch, also where two cells meet.
CellsAreWired ==
  /\ \A r \in RowIds, n \in 0 .. BLOCK_CPP - 1 : Cardinality(cellsAt(rows[r], n)) = 1
  /\ \A r \in RowIds :
       LET here == pins(r, rows[r]) IN Cardinality({here[i].k : i \in DOMAIN here}) = Len(here)
  /\ \A type \in Types :
       /\ \A k \in Range(InputPositions(type)) : k \in LayoutTable[type].gates /\ k < outs(type)[1]
       /\ \A v, w \in LayoutTable[type].m0 : v.track = w.track /\ v # w => v.k1 < w.k0 \/ w.k1 < v.k0
  /\ \A r \in RowIds : \A i \in DOMAIN rows[r] \ {Len(rows[r])} :
       LET left == rows[r][i] right == rows[r][i + 1]
       IN  {left.type, right.type} \subseteq Types =>
             \A v \in LayoutTable[left.type].m0, w \in LayoutTable[right.type].m0 :
               v.track = w.track => 20 * left.start + v.k1 < 20 * right.start + w.k0
=============================================================================

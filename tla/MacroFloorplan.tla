--------------------------- MODULE MacroFloorplan ---------------------------
(***************************************************************************)
(* The procedural die of the macro view: its floorplan, the buses inside a *)
(* tile and between tiles, the on-die network and the upper power grids    *)
(* (lib/silicon-macro.ts, lib/reference-microchip.ts,                      *)
(* lib/package-connectors.ts).  Every level of detail works its wires and  *)
(* stacks out for itself from the same few numbers; nothing is stored, and *)
(* whether a stack meets the wire above it and the cells below it depends  *)
(* on several roundings to the grids of different layers agreeing.         *)
(*                                                                         *)
(* Lengths are 49ths of a nanometre: a unit of the package scene is        *)
(* 12/2.45 mm, so every length of the floorplan is a whole number of them, *)
(* but for the depth of an L2 bank and the spacing of pads, rounded down.  *)
(***************************************************************************)
EXTENDS Integers, FiniteSetsExt, SequencesExt

CONSTANTS Visits  \* where the camera flies to: tiles by index, then PHYs

VARIABLES
  camera,  \* what it hovers over
  floor    \* the tables the library works out when it is loaded
floorVars == <<camera, floor>>

um(v) == v * 49000
scene(hundredths) == hundredths * 2400000
rect(x0, z0, x1, z1) == [x0 |-> x0, z0 |-> z0, x1 |-> x1, z1 |-> z1]
centered(cx, cz, width, depth) == rect(cx - width \div 2, cz - depth \div 2, cx + width \div 2, cz + depth \div 2)
rectsOverlap(a, b) == a.x0 < b.x1 /\ b.x0 < a.x1 /\ a.z0 < b.z1 /\ b.z0 < a.z1
insideRect(r, x, z) == x >= r.x0 /\ x < r.x1 /\ z >= r.z0 /\ z < r.z1
Grown(r, by) == rect(r.x0 - by, r.z0 - by, r.x1 + by, r.z1 + by)
Middle(a, b) == (a + b) \div 2
RoundDiv(a, b) == (2 * a + b) \div (2 * b)
Distance(a, b) == IF a < b THEN b - a ELSE a - b
----------------------------------------------------------------------------
\* The floorplan.

DIE == [hx |-> scene(620) \div 2, hz |-> scene(530) \div 2, sealBand |-> um(60), ioBand |-> um(500), decapBand |-> um(950)]
sramMacro(r) == [rect |-> r, array |-> rect(r.x0 + um(40), r.z0, r.x1, r.z1 - um(30))]

TILE_RING == um(30)
PE_COLUMNS == 16
PE_ROWS == 12
PE_GAP == um(12)
PE_RF == [u0 |-> um(6), u1 |-> um(56), v0 |-> um(6), v1 |-> um(66), periph |-> um(6)]
T == [columns |-> 6, rows |-> 5, width |-> scene(58), depth |-> scene(62), pitchX |-> scene(66), pitchZ |-> scene(72)]
S == [width |-> scene(58), depth |-> scene(360)]

buildTile(cx, cz) ==
  LET r == centered(cx, cz, T.width, T.depth)
      wide == (T.width - 2 * TILE_RING - 3 * um(40)) \div 4
      bank(k) == LET x0 == r.x0 + TILE_RING + k * (wide + um(40))
                 IN  sramMacro(rect(x0, r.z0 + TILE_RING, x0 + wide, r.z0 + um(550)))
      pes == rect(r.x0 + um(60), r.z0 + um(590), r.x1 - um(60), r.z1 - um(370))
  IN  [rect |-> r, sram |-> [k \in 0 .. 3 |-> bank(k)], peArray |-> pes,
       pePitchX |-> (pes.x1 - pes.x0) \div PE_COLUMNS, pePitchZ |-> (pes.z1 - pes.z0) \div PE_ROWS,
       router |-> rect(r.x0 + TILE_RING, r.z1 - um(330), r.x0 + um(430), r.z1 - TILE_RING),
       vector |-> rect(r.x0 + um(470), r.z1 - um(330), r.x1 - TILE_RING, r.z1 - TILE_RING)]

\* Tile columns stand either side of the strip.
TileTable ==
  [at \in (0 .. T.columns - 1) \X (0 .. T.rows - 1) |->
     LET side == at[1] - 3 + (IF at[1] < 3 THEN 0 ELSE 1)
         sign == IF side < 0 THEN -1 ELSE 1
     IN  buildTile(sign * (S.width \div 2 + scene(4) + T.width \div 2) + (side - sign) * T.pitchX, (at[2] - 2) * T.pitchZ)]
EdgesOf(tiles, e) == {tiles[at].rect[e] : at \in DOMAIN tiles}
ArrayRect(tiles) ==
  rect(Min(EdgesOf(tiles, "x0")), Min(EdgesOf(tiles, "z0")), Max(EdgesOf(tiles, "x1")), Max(EdgesOf(tiles, "z1")))

peRect(tile, i, j) ==
  LET x0 == tile.peArray.x0 + i * tile.pePitchX
      z0 == tile.peArray.z0 + j * tile.pePitchZ
  IN  rect(x0, z0, x0 + tile.pePitchX - PE_GAP, z0 + tile.pePitchZ - PE_GAP)

StripTable ==
  LET r == centered(0, 0, S.width, S.depth)
      tsvBand == rect(-um(90), r.z0 + um(40), um(90), r.z1 - um(40))
      deep == (r.z1 - r.z0 - 25 * um(40)) \div 24
      z(k) == r.z0 + um(40) + k * (deep + um(40))
  IN  [rect |-> r, tsvBand |-> tsvBand,
       macros |-> {sramMacro(rect(r.x0 + um(40), z(k), tsvBand.x0 - um(20), z(k) + deep)) : k \in 0 .. 23}
             \cup {sramMacro(rect(tsvBand.x1 + um(20), z(k), r.x1 - um(40), z(k) + deep)) : k \in 0 .. 23}]

\* Two memory stacks on each edge, and the PHY that faces each.
DRIVER_STRIP == um(350)
CORNER_TRIM == um(150)
STACK_PLACEMENTS == <<<<"north", -1>>, <<"south", 1>>, <<"north", 1>>, <<"south", -1>>,
                      <<"west", -1>>, <<"east", 1>>, <<"west", 1>>, <<"east", -1>>>>
Lengthwise(side) == side \in {"north", "south"}
acceleratorPhyAnchor(placement) ==
  LET side == placement[1]
      slot == placement[2] * (scene(245) \div 2 + scene(15))
      edge == (IF Lengthwise(side) THEN DIE.hz ELSE DIE.hx) - scene(45)
      out == IF side \in {"north", "west"} THEN -edge ELSE edge
  IN  IF Lengthwise(side) THEN centered(slot, out, scene(210) - 2 * CORNER_TRIM, scene(50))
      ELSE centered(out, slot, scene(50), scene(210) - 2 * CORNER_TRIM)
DriversOf(side, r) ==
  CASE side = "north" -> [r EXCEPT !.z0 = r.z1 - DRIVER_STRIP]
    [] side = "south" -> [r EXCEPT !.z1 = r.z0 + DRIVER_STRIP]
    [] side = "west" -> [r EXCEPT !.x0 = r.x1 - DRIVER_STRIP]
    [] side = "east" -> [r EXCEPT !.x1 = r.x0 + DRIVER_STRIP]
PhyTable == [i \in 1 .. 8 |-> LET r == acceleratorPhyAnchor(STACK_PLACEMENTS[i])
                                  side == STACK_PLACEMENTS[i][1]
                              IN  [side |-> side, rect |-> r, drivers |-> DriversOf(side, r)]]

\* The uncore between each pair of PHYs.
EdgeBlocks(strip, array) ==
  LET hx == DIE.hx - DIE.decapBand
      hz == DIE.hz - DIE.decapBand
      north == rect(-um(1500), -hz, um(1500), strip.rect.z0 - um(180))
      south == rect(-um(1500), strip.rect.z1 + um(180), um(1500), hz)
      west == rect(-hx, -um(1500), array.x0 - um(200), um(1500))
      east == rect(array.x1 + um(200), -um(1500), hx, um(1500))
      bank(from, to) == sramMacro(rect(um(100), north.z0 + from, north.x1 - um(120), north.z0 + to))
      coil(cx, cz, size) == [cx |-> cx, cz |-> cz, size |-> size]
  IN  <<[id |-> "north", rect |-> north, sram |-> {bank(um(250), um(1350)), bank(um(1450), um(2550))}, inductors |-> {}],
        [id |-> "south", rect |-> south, sram |-> {},
         inductors |-> {coil(-um(720), south.z1 - um(950), um(460)), coil(um(720), south.z1 - um(950), um(460))}],
        [id |-> "west", rect |-> west, sram |-> {}, inductors |-> {coil(Middle(west.x0, west.x1), um(950), um(340))}],
        [id |-> "east", rect |-> east, sram |-> {}, inductors |-> {}]>>

\* Pads along each edge, from one end of 82 % of it to the other.
IO_PADS ==
  LET count(side) == IF side = "east" THEN 17 ELSE 18
      pad(side, i) ==
        LET half == IF Lengthwise(side) THEN DIE.hx ELSE DIE.hz
            along == -((half \div 100) * 82) + i * (((half \div 100) * 164) \div (count(side) - 1))
            out == (IF Lengthwise(side) THEN DIE.hz ELSE DIE.hx) - um(270)
            at == IF side \in {"north", "west"} THEN -out ELSE out
        IN  [side |-> side,
             rect |-> IF Lengthwise(side) THEN centered(along, at, um(160), um(240)) ELSE centered(at, along, um(240), um(160))]
  IN  UNION {{pad(side, i) : i \in 0 .. count(side) - 1} : side \in {"north", "south", "west", "east"}}
----------------------------------------------------------------------------
\* What is laid out between the blocks: the channels between tiles, the lanes
\* of the on-die network, and the global power mesh.

Ordered(values) == SetToSortSeq(values, LAMBDA a, b : a < b)
ChannelRects(tiles, strip, a) ==
  LET starts == Ordered(EdgesOf(tiles, "x0"))
      ends == Ordered(EdgesOf(tiles, "x1"))
      tops == Ordered(EdgesOf(tiles, "z0"))
      bottoms == Ordered(EdgesOf(tiles, "z1"))
      upright(x0, x1) == [rect |-> rect(x0, a.z0, x1, a.z1), horizontal |-> FALSE]
      gap(k) == IF starts[k + 1] - ends[k] > um(1000)
                THEN <<upright(ends[k], strip.rect.x0), upright(strip.rect.x1, starts[k + 1])>>
                ELSE <<upright(ends[k], starts[k + 1])>>
  IN  FlattenSeq([k \in 1 .. Len(starts) - 1 |-> gap(k)])
      \o [k \in 1 .. Len(tops) - 1 |-> [rect |-> rect(a.x0, bottoms[k], a.x1, tops[k + 1]), horizontal |-> TRUE]]
NetworkLanes(tiles, strip, a) ==
  LET margin == um(260)
      starts == Ordered(EdgesOf(tiles, "x0"))
      ends == Ordered(EdgesOf(tiles, "x1"))
      between(k) == IF starts[k + 1] - ends[k] > um(1000)
                    THEN {Middle(ends[k], strip.rect.x0), Middle(strip.rect.x1, starts[k + 1])}
                    ELSE {Middle(ends[k], starts[k + 1])}
      bottoms == Ordered(EdgesOf(tiles, "z1"))
      tops == Ordered(EdgesOf(tiles, "z0"))
  IN  [vertical |-> {a.x0 - margin, a.x1 + margin} \cup UNION {between(k) : k \in 1 .. Len(starts) - 1},
       horizontal |-> {a.z0 - margin, a.z1 + margin} \cup {Middle(bottoms[k], tops[k + 1]) : k \in 1 .. Len(tops) - 1},
       span |-> Grown(a, margin), lines |-> 4, width |-> um(14), pitch |-> um(34), overhang |-> um(60)]

\* The global mesh: straps every 0.6 mm, broken over PHYs and inductors.
MeshTable ==
  LET core == rect(DIE.ioBand - DIE.hx, DIE.ioBand - DIE.hz, DIE.hx - DIE.ioBand, DIE.hz - DIE.ioBand)
      from(lo, hi) == [k \in 0 .. (hi - lo - um(300) - 1) \div um(600) |-> lo + um(300) + k * um(600)]
  IN  [core |-> core, xs |-> from(core.x0, core.x1), zs |-> from(core.z0, core.z1)]

\* The tables, each made from those before it.
TablesFrom(tiles, strip, array) ==
  [tiles |-> tiles, strip |-> strip, array |-> array, phys |-> PhyTable, blocks |-> EdgeBlocks(strip, array),
   channels |-> ChannelRects(tiles, strip, array), network |-> NetworkLanes(tiles, strip, array), mesh |-> MeshTable]
TablesWith(tiles, strip) == TablesFrom(tiles, strip, ArrayRect(tiles))
LoadedTables == TablesWith(TileTable, StripTable)

TILES == floor.tiles
SRAM_STRIP == floor.strip
TILE_ARRAY_RECT == floor.array
PHYS == floor.phys
EDGE_BLOCKS == floor.blocks
CHANNEL_RECTS == floor.channels
NOC == floor.network
GLOBAL_MESH == floor.mesh
----------------------------------------------------------------------------
\* What stands at a point, and what the view says does.

tileAt(x, z) == {at \in DOMAIN TILES : insideRect(TILES[at].rect, x, z)}
Holding(macros, x, z) == {m \in macros : insideRect(m.rect, x, z)}
macroLeaf(macros, x, z) ==
  IF \E m \in Holding(macros, x, z) : insideRect(m.array, x, z) THEN "sram" ELSE "sram-periph"

tileLeaf(tile, x, z) ==
  LET lu == (x - tile.peArray.x0) % tile.pePitchX
      lv == (z - tile.peArray.z0) % tile.pePitchZ
  IN  CASE ~insideRect(Grown(tile.rect, -TILE_RING), x, z) -> "decap"
        [] Holding(Range(tile.sram), x, z) # {} -> macroLeaf(Range(tile.sram), x, z)
        [] insideRect(tile.peArray, x, z) ->
             CASE lu > tile.pePitchX - PE_GAP \/ lv > tile.pePitchZ - PE_GAP -> "channel"
               [] insideRect(rect(PE_RF.u0, PE_RF.v0, PE_RF.u1, PE_RF.v1), lu, lv) ->
                    IF lu < PE_RF.u0 + PE_RF.periph \/ lv > PE_RF.v1 - PE_RF.periph THEN "sram-periph" ELSE "sram"
               [] OTHER -> "logic"
        [] insideRect(tile.router, x, z) -> "router"
        [] insideRect(tile.vector, x, z) -> "logic"
        [] OTHER -> "channel"
stripLeaf(x, z) ==
  CASE insideRect(SRAM_STRIP.tsvBand, x, z) -> "tsv"
    [] Holding(SRAM_STRIP.macros, x, z) # {} -> macroLeaf(SRAM_STRIP.macros, x, z)
    [] OTHER -> "channel"
blockLeaf(block, x, z) ==
  CASE Holding(block.sram, x, z) # {} -> macroLeaf(block.sram, x, z)
    [] \E i \in block.inductors : Distance(x, i.cx) < (31 * i.size) \div 50 /\ Distance(z, i.cz) < (31 * i.size) \div 50 -> "analog"
    [] block.id = "west" -> IF x < Middle(block.rect.x0, block.rect.x1) THEN "phy-drivers" ELSE "analog"
    [] block.id = "south" /\ z > block.rect.z1 - um(1500) -> "analog"
    [] OTHER -> "logic"

PhyAt(x, z) == {i \in 1 .. 8 : insideRect(PHYS[i].rect, x, z)}
BlockAt(x, z) == {i \in 1 .. 4 : insideRect(EDGE_BLOCKS[i].rect, x, z)}
leafAt(x, z) ==
  LET edge == Min({DIE.hx - Distance(x, 0), DIE.hz - Distance(z, 0)})
  IN  CASE edge <= 0 -> "outside"
        [] edge > 0 /\ edge < DIE.sealBand -> "seal"
        [] edge >= DIE.sealBand /\ edge < DIE.ioBand -> "io"
        [] OTHER ->
             CASE PhyAt(x, z) # {} -> IF insideRect(PHYS[Min(PhyAt(x, z))].drivers, x, z) THEN "phy-drivers" ELSE "phy-bumps"
               [] PhyAt(x, z) = {} /\ BlockAt(x, z) # {} -> blockLeaf(EDGE_BLOCKS[Min(BlockAt(x, z))], x, z)
               [] PhyAt(x, z) \cup BlockAt(x, z) = {} ->
                    IF insideRect(SRAM_STRIP.rect, x, z) THEN stripLeaf(x, z)
                    ELSE IF tileAt(x, z) # {} THEN tileLeaf(TILES[CHOOSE at \in tileAt(x, z) : TRUE], x, z)
                    ELSE IF edge < DIE.decapBand THEN "decap"
                    ELSE IF insideRect(TILE_ARRAY_RECT, x, z) THEN "channel" ELSE "logic"

CPP == 2646
ROW == 10584
BLOCK == 32 * CPP
ROW_LEAVES == {"logic", "router", "sram-periph", "channel", "analog", "phy-drivers", "phy-bumps", "io"}
rowBlockLeaf(row, block) == leafAt(block * BLOCK + BLOCK \div 2, row * ROW + ROW \div 2)
LeafCache(step, x, z) == leafAt((x \div step) * step + step \div 2, (z \div step) * step + step \div 2)
----------------------------------------------------------------------------
\* The buses of a tile.  Lines along x sit on multiples of 3 um, lines along
\* z beside the middle of an Mx4 gap; every line ends in stacks that drop to
\* the cells.

MX4 == [pitch |-> um(14), offset |-> um(7)]
MY == [pitch |-> um(60), offset |-> um(30)]
SYS == [lines |-> 6, hSpacing |-> um(3), vSpacing |-> um(2), half |-> 39200, overlap |-> um(30), reach |-> um(16)]
\* Mistake: the lines run down the middle of what they serve.
Mx4GapUnsnapped(x) == x
mx4Gap(x) == RoundDiv(x, MX4.pitch) * MX4.pitch
busZ(z) == RoundDiv(z, um(3)) * um(3)
bundleCenterZ(z) == RoundDiv(z - um(3) \div 2, um(3)) * um(3) + um(3) \div 2
lineOffset(line, lines, spacing) == ((2 * line - (lines - 1)) * spacing) \div 2
Lines == 0 .. SYS.lines - 1
horizontalLines(cz) == [line \in Lines |-> bundleCenterZ(cz) + lineOffset(line, SYS.lines, SYS.hSpacing)]
verticalLines(cx) == [line \in Lines |-> mx4Gap(cx) + lineOffset(line, SYS.lines, SYS.vSpacing)]

UpAt(at) == [at |-> at, up |-> TRUE]
DownAt(at) == [at |-> at, up |-> FALSE]
Bus(part, axis, across, from, to, dir, ends) ==
  [part |-> part, axis |-> axis, across |-> across, from |-> from, to |-> to, dir |-> dir, drops |-> ends]
PEs == (0 .. PE_COLUMNS - 1) \X (0 .. PE_ROWS - 1)
CenterX(r) == Middle(r.x0, r.x1)
CenterZ(r) == Middle(r.z0, r.z1)
TrunkX(tile) == tile.rect.x0 + TILE_RING + (tile.peArray.x0 - tile.rect.x0 - TILE_RING) \div 2

SystolicBuses(tile) ==
  LET pe(at) == peRect(tile, at[1], at[2])
      east(r) == Bus("systolic-bus", "x", horizontalLines(CenterZ(r)), r.x1 - SYS.overlap, r.x1 + PE_GAP + SYS.overlap, 1,
                     {UpAt(mx4Gap(r.x1 - SYS.reach)), DownAt(mx4Gap(r.x1 + PE_GAP + SYS.reach))})
      south(r) == Bus("systolic-bus", "z", verticalLines(CenterX(r)), r.z1 - SYS.overlap, r.z1 + PE_GAP + SYS.overlap, 1,
                      {UpAt(busZ(r.z1 - SYS.reach)), DownAt(busZ(r.z1 + PE_GAP + SYS.reach))})
  IN  {east(pe(at)) : at \in {at \in PEs : at[1] + 1 < PE_COLUMNS}}
      \cup {south(pe(at)) : at \in {at \in PEs : at[2] + 1 < PE_ROWS}}
WeightBuses(tile) ==
  LET bus(i) == LET bank == tile.sram[(i * 4) \div PE_COLUMNS].rect
                    r == peRect(tile, i, 0)
                IN  Bus("weight-bus", "z", verticalLines(CenterX(r)), bank.z1 - um(20), r.z0 + SYS.overlap, 1,
                        {UpAt(busZ(bank.z1 - um(12))), DownAt(busZ(r.z0 + SYS.reach))})
  IN  {bus(i) : i \in 0 .. PE_COLUMNS - 1}
Trunk(tile) ==
  Bus("activation-bus", "z", verticalLines(TrunkX(tile)), CenterZ(peRect(tile, 0, 0)) - 3 * SYS.hSpacing,
      tile.router.z0 + um(20), -1, {UpAt(busZ(tile.router.z0 + um(12)))})
Branch(tile, j) ==
  LET r == peRect(tile, 0, j)
  IN  Bus("activation-bus", "x", horizontalLines(CenterZ(r)), mx4Gap(TrunkX(tile)) - 3 * SYS.vSpacing, r.x0 + SYS.overlap, 1,
          {DownAt(mx4Gap(r.x0 + SYS.reach))})
ResultBus(tile, i) ==
  LET r == peRect(tile, i, PE_ROWS - 1)
      into == IF mx4Gap(CenterX(r)) >= tile.vector.x0 + um(8) THEN tile.vector ELSE tile.router
  IN  Bus("result-bus", "z", verticalLines(CenterX(r)), r.z1 - SYS.overlap, into.z0 + um(24), 1,
          {UpAt(busZ(r.z1 - SYS.reach)), DownAt(busZ(into.z0 + um(16)))})
ReturnBus(tile) ==
  Bus("result-bus", "x", horizontalLines(CenterZ(tile.vector)), tile.router.x1 - um(30), tile.vector.x0 + um(30), -1,
      {UpAt(mx4Gap(tile.vector.x0 + um(18))), DownAt(mx4Gap(tile.router.x1 - um(18)))})
tileBuses(tile) ==
  SystolicBuses(tile) \cup WeightBuses(tile) \cup {Trunk(tile), ReturnBus(tile)}
  \cup {Branch(tile, j) : j \in 0 .. PE_ROWS - 1} \cup {ResultBus(tile, i) : i \in 0 .. PE_COLUMNS - 1}

\* Where branches meet the trunk, line k to line k.
activationTaps(tile) ==
  {[x |-> verticalLines(TrunkX(tile))[line], z |-> horizontalLines(CenterZ(peRect(tile, 0, j)))[line], row |-> j, line |-> line] :
     line \in Lines, j \in 0 .. PE_ROWS - 1}

\* Each line's drops: a wide stack from the line, and under it a thin one on
\* the nearest M3 track of its class.
m3Near(class, x) == (4 * RoundDiv(x - class * CPP - CPP \div 2, 4 * CPP) + class) * CPP + CPP \div 2
busDrops(bus) ==
  {LET x == IF bus.axis = "x" THEN at.at ELSE bus.across[line]
       z == IF bus.axis = "x" THEN bus.across[line] ELSE at.at
   IN  [wide |-> x, x |-> m3Near(2, x), z |-> z, up |-> at.up, bus |-> bus.part, line |-> line] :
     at \in bus.drops, line \in DOMAIN bus.across}
ZoneOf(bus) ==
  LET lines == Range(bus.across)
  IN  IF bus.axis = "x" THEN rect(bus.from, Min(lines) - SYS.half, bus.to, Max(lines) + SYS.half)
      ELSE rect(Min(lines) - SYS.half, bus.from, Max(lines) + SYS.half, bus.to)
busZones(tile) == {ZoneOf(bus) : bus \in tileBuses(tile)}
----------------------------------------------------------------------------
\* Channels between tiles, their wires, and the network above them.

NearStrap(v, grid, reach) ==
  LET offset == (v - grid.offset) % grid.pitch IN Min({offset, grid.pitch - offset}) < reach
nearMyStrap(v) == NearStrap(v, MY, um(7) \div 2)
nearMx4Strap(x) == NearStrap(x, MX4, um(6) \div 5)
\* The first place from `value` inward that is clear of the straps across.
clearAlong(value, dir, horizontalWire) ==
  LET step == IF horizontalWire THEN um(1) ELSE um(3)
      at(n) == RoundDiv(value, step) * step + n * dir * step
      blocked(v) == nearMyStrap(v) \/ (horizontalWire /\ nearMx4Strap(v))
  IN  at(Min({n \in 0 .. 60 : ~blocked(at(n))}))

channelWires(channel) ==
  LET c == channel.rect
      h == channel.horizontal
      lo == (IF h THEN c.z0 ELSE c.x0) + um(20)
      hi == (IF h THEN c.z1 ELSE c.x1) - um(20)
      spacing == IF h THEN um(6) ELSE um(7)
      offset == IF h THEN 0 ELSE um(3)
      from == IF h THEN c.x0 ELSE c.z0
      to == IF h THEN c.x1 ELSE c.z1
      first == -((offset - lo) \div spacing)
      wire(k) == LET dir == IF k % 2 = 1 THEN 1 ELSE -1
                 IN  Bus("channel-bus", IF h THEN "x" ELSE "z", 0 :> offset + k * spacing, from, to, dir,
                         {[at |-> clearAlong(from + um(8), 1, h), up |-> dir > 0], [at |-> clearAlong(to - um(8), -1, h), up |-> dir < 0]})
  IN  {wire(k) : k \in {k \in first .. (hi - offset) \div spacing : offset + k * spacing < hi /\ ~nearMyStrap(offset + k * spacing)}}

routerLane(tile) ==
  LET lane == CHOOSE z \in NOC.horizontal : \A other \in NOC.horizontal :
                       Distance(z, tile.router.z1) <= Distance(other, tile.router.z1)
      start == tile.router.z0 + um(50)
  IN  [x |-> CenterX(tile.router), lane |-> lane, start |-> start,
       from |-> Min({start, lane - NOC.overhang}), to |-> Max({start, lane + NOC.overhang})]
phyBundles(phy) ==
  LET side == phy.side
      d == phy.drivers
      lane == CASE side = "west" -> NOC.span.x0 [] side = "east" -> NOC.span.x1
                [] side = "north" -> NOC.span.z0 [] side = "south" -> NOC.span.z1
      across(n) == IF Lengthwise(side) THEN phy.rect.x0 + ((phy.rect.x1 - phy.rect.x0) \div 4) * n
                   ELSE phy.rect.z0 + ((phy.rect.z1 - phy.rect.z0) \div 4) * n
      from == CASE side = "west" -> d.x0 [] side = "north" -> d.z0 [] OTHER -> lane - NOC.overhang
      to == CASE side = "east" -> d.x1 [] side = "south" -> d.z1 [] OTHER -> lane + NOC.overhang
  IN  {[horizontal |-> ~Lengthwise(side), across |-> across(n), from |-> from, to |-> to, lane |-> lane, lines |-> 8, pitch |-> um(26)] : n \in 1 .. 3}
\* A bundle's line drops by a stub to the nearest of the PHY's driver lanes.
FirstLane(phy) == (IF Lengthwise(phy.side) THEN phy.drivers.x0 ELSE phy.drivers.z0) + um(9)
laneAt(phy, across) == FirstLane(phy) + RoundDiv(across - FirstLane(phy), um(18)) * um(18)
DriverLanes(phy) ==
  LET end == IF Lengthwise(phy.side) THEN phy.drivers.x1 ELSE phy.drivers.z1
  IN  {FirstLane(phy) + k * um(18) : k \in 0 .. (end - FirstLane(phy) - 1) \div um(18)}
----------------------------------------------------------------------------
\* Power grids: straps alternate VDD and VSS, broken where a region does not
\* allow them; stacks join straps of the same supply.

strapFlow(index) == IF index % 2 = 0 THEN "vdd" ELSE "vss"
STRAP_ALLOWED == {"logic", "channel", "sram", "sram-periph", "decap"}
MX4_ALLOWED == ROW_LEAVES \cup {"decap", "sram"}
Indices(grid, lo, hi) == -((grid.offset - lo) \div grid.pitch) .. (hi - grid.offset) \div grid.pitch
StrapAt(grid, k) == grid.offset + k * grid.pitch

\* emitStraps: a strap is drawn sample by sample, where the region at the
\* sample's middle, read through the chunk's leaf cache, allows it.
emitStraps(horizontal, across, along, sample, step, allowed) ==
  LET mid == (along \div sample) * sample + sample \div 2
  IN  LeafCache(step, IF horizontal THEN mid ELSE across, IF horizontal THEN across ELSE mid) \in allowed
My1Drawn(x, z) == emitStraps(TRUE, z, x, um(20), um(10), STRAP_ALLOWED)
My2Drawn(x, z) == emitStraps(FALSE, x, z, um(20), um(10), STRAP_ALLOWED)
Mx4Drawn(x, z) == emitStraps(FALSE, x, z, um(4), um(4), MX4_ALLOWED)

systolicClear(zones, x, z, margin) ==
  \A zone \in zones : x < zone.x0 - margin \/ x > zone.x1 + margin \/ z < zone.z0 - margin \/ z > zone.z1 + margin
\* Of one tile: where the Mx4 straps are fed from the My1 straps.
strapStacksIn(tile, r) ==
  LET zones == busZones(tile)
  IN  {stack \in {[x |-> StrapAt(MX4, k), z |-> StrapAt(MY, m)] :
                    k \in Indices(MX4, r.x0, r.x1), m \in Indices(MY, r.z0, r.z1)} :
         /\ strapFlow((stack.x - MX4.offset) \div MX4.pitch) = strapFlow((stack.z - MY.offset) \div MY.pitch)
         /\ LeafCache(um(4), stack.x, stack.z) \in MX4_ALLOWED
         /\ LeafCache(um(10), (stack.x \div um(20)) * um(20) + um(10), stack.z) \in STRAP_ALLOWED
         /\ systolicClear(zones, stack.x, stack.z, um(3))}
\* level1: vias where My1 and My2 straps of one supply cross.
StrapVias(r) ==
  {via \in {[x |-> StrapAt(MY, k), z |-> StrapAt(MY, m), even |-> (k + m) % 2 = 0] :
              k \in Indices(MY, r.x0, r.x1), m \in Indices(MY, r.z0, r.z1)} :
     via.even /\ LeafCache(um(10), via.x, via.z) \in STRAP_ALLOWED}

inAnyPhy(x, z) ==
  \/ PhyAt(x, z) # {}
  \/ \E b \in 1 .. 4 : \E i \in EDGE_BLOCKS[b].inductors :
       insideRect(centered(i.cx, i.cz, (i.size \div 10) * 13, (i.size \div 10) * 13), x, z)
\* A strap is sampled every 50 um; a run ends half a sample short of a
\* blocked sample, and starts again on the first free one.
strapRuns(fixed, from, to, vertical) ==
  LET sample == um(50)
      last == (to - from) \div sample
      free(k) == LET s == from + k * sample IN ~(IF vertical THEN inAnyPhy(fixed, s) ELSE inAnyPhy(s, fixed))
      end(k) == LET blocked == {m \in k .. last : ~free(m)}
                IN  IF blocked = {} THEN to ELSE from + Min(blocked) * sample - sample \div 2
  IN  {<<from + k * sample, end(k)>> : k \in {k \in 0 .. last : free(k) /\ (k = 0 \/ ~free(k - 1))}}
OnRun(runs, at) == \E run \in runs : run[1] <= at /\ at <= run[2]
MeshColumn(i) == strapRuns(GLOBAL_MESH.xs[i], GLOBAL_MESH.core.z0, GLOBAL_MESH.core.z1, TRUE)
MeshRow(j) == strapRuns(GLOBAL_MESH.zs[j], GLOBAL_MESH.core.x0, GLOBAL_MESH.core.x1, FALSE)
\* Of mesh column i: the rows a via joins it to.
MeshVias(i) == {j \in DOMAIN GLOBAL_MESH.zs : strapFlow(i) = strapFlow(j) /\ ~inAnyPhy(GLOBAL_MESH.xs[i], GLOBAL_MESH.zs[j])}

\* Feeds of a tile: the ring's stacks from the mesh rows above it, and the
\* My2 straps' stacks straight to the mesh.
RingStacks(tile) ==
  LET r == tile.rect
  IN  {stack \in {r.x0 + um(18), r.x1 - um(18)} \X DOMAIN GLOBAL_MESH.zs :
         LET z == GLOBAL_MESH.zs[stack[2]]
         IN  strapFlow(stack[2]) = "vdd" /\ z >= r.z0 + um(36) /\ z <= r.z1 - um(36) /\ ~inAnyPhy(stack[1], z)}
MeshStacks(tile) ==
  LET r == tile.rect
      x(k) == StrapAt(MY, k)
      z(j) == GLOBAL_MESH.zs[j]
  IN  {stack \in Indices(MY, r.x0 + um(36), r.x1 - um(36) - 1) \X DOMAIN GLOBAL_MESH.zs :
         /\ Distance(x(stack[1]), routerLane(tile).x) > um(80)
         /\ strapFlow(stack[1]) = strapFlow(stack[2])
         /\ z(stack[2]) >= r.z0 + um(90) /\ z(stack[2]) <= r.z1 - um(90) /\ ~inAnyPhy(x(stack[1]), z(stack[2]))
         /\ LeafCache(um(10), x(stack[1]), z(stack[2])) \in STRAP_ALLOWED \ {"channel"}}
\* Each line of a router's link comes down onto a wire of its crossbar.
NocDrops(tile) ==
  LET r == tile.router
      wire(x) == r.x0 + um(8) + RoundDiv(x - r.x0 - um(8), um(6)) * um(6)
  IN  {[line |-> n, x |-> wire(routerLane(tile).x + lineOffset(n, 4, um(24))), z |-> routerLane(tile).start - 490] : n \in 0 .. 3}
----------------------------------------------------------------------------
\* What a row block asks for: the drops that land in it.

busDropsByRow(tile, row) == {d \in UNION {busDrops(bus) : bus \in tileBuses(tile)} : d.z \div ROW = row}
busEndsIn(r) ==
  {d \in UNION {UNION {busDropsByRow(TILES[at], row) : row \in (r.z0 \div ROW) .. (r.z1 \div ROW)} :
                  at \in {at \in DOMAIN TILES : rectsOverlap(r, TILES[at].rect)}} : insideRect(r, d.x, d.z)}
ChannelDrops(channel) == UNION {busDrops(bus) : bus \in channelWires(channel)}
channelEndsIn(r) ==
  {d \in UNION {ChannelDrops(c) : c \in {c \in Range(CHANNEL_RECTS) : rectsOverlap(r, c.rect)}} : insideRect(r, d.x, d.z)}
RowBlock(column, row) == rect(column * BLOCK, row * ROW, (column + 1) * BLOCK, (row + 1) * ROW)

\* A wire's place on the pulse path.  A plain wire's path is its position;
\* one with an arc starts at that path length at its entry end, and counts
\* each length `stretch` times.
seg(lo, hi, glow, arc, entry, stretch) ==
  [lo |-> lo, stretch |-> stretch,
   glow |-> IF entry = "none" THEN glow ELSE IF entry = "min" THEN 1 ELSE -1,
   start |-> CASE entry = "none" -> lo [] entry = "min" -> arc [] entry = "max" -> -(arc + (hi - lo) * stretch)]
PathAt(piece, at) ==
  LET path == piece.start + (at - piece.lo) * piece.stretch IN IF piece.glow > 0 THEN path ELSE -path
STACK == [v3 |-> <<um(306) \div 1000, um(800) \div 1000>>, mx1 |-> um(800) \div 1000,
          sysH |-> um(3700) \div 1000, sysV |-> um(4150) \div 1000, chanH |-> um(7050) \div 1000, chanV |-> um(7320) \div 1000]
ViaStretch == 16

\* emitBus: a line, and under each of its drops a wide stack through Mx4-Mx1
\* and a thin one onto M3.
LineSeg(bus, lo) == seg(lo, bus.to, bus.dir, 0, "none", 1)
HeightOf(bus) ==
  IF bus.part = "channel-bus" THEN IF bus.axis = "x" THEN STACK.chanH ELSE STACK.chanV
  ELSE IF bus.axis = "x" THEN STACK.sysH ELSE STACK.sysV
DropSegs(bus, drop) ==
  LET at == bus.dir * drop.at
      wide == (HeightOf(bus) - STACK.mx1) * ViaStretch
      thin == (STACK.v3[2] - STACK.v3[1]) * ViaStretch
  IN  IF drop.up
      THEN [wide |-> seg(STACK.mx1, HeightOf(bus), 1, at - wide, "min", ViaStretch),
            thin |-> seg(STACK.v3[1], STACK.v3[2], 1, at - wide - thin, "min", ViaStretch)]
      ELSE [wide |-> seg(STACK.mx1, HeightOf(bus), 1, at, "max", ViaStretch),
            thin |-> seg(STACK.v3[1], STACK.v3[2], 1, at + wide, "max", ViaStretch)]

\* What the view says of a point: the region, and what stands in it.
describeLocation(x, z) ==
  LET leaf == leafAt(x, z)
      held(macros) == IF Holding(macros, x, z) # {} THEN "macro" ELSE "none"
      inTile(tile) ==
        CASE Holding(Range(tile.sram), x, z) # {} -> "macro"
          [] insideRect(tile.peArray, x, z) ->
               <<(x - tile.peArray.x0) \div tile.pePitchX, (z - tile.peArray.z0) \div tile.pePitchZ>>
          [] insideRect(tile.router, x, z) -> "router"
          [] insideRect(tile.vector, x, z) -> "vector"
          [] OTHER -> "none"
  IN  CASE leaf = "outside" -> <<"package", "none">>
        [] leaf # "outside" /\ PhyAt(x, z) # {} -> <<"phy", "none">>
        [] PhyAt(x, z) = {} /\ BlockAt(x, z) # {} -> <<"block", "none">>
        [] OTHER ->
             IF insideRect(SRAM_STRIP.rect, x, z) THEN <<"strip", held(SRAM_STRIP.macros)>>
             ELSE IF tileAt(x, z) # {} THEN <<"tile", inTile(TILES[CHOOSE at \in tileAt(x, z) : TRUE])>>
             ELSE IF leaf \in {"seal", "io"} THEN <<"edge", "none">>
             ELSE IF leaf = "decap" THEN <<"power", "none">> ELSE <<"fabric", "none">>
----------------------------------------------------------------------------
FloorInit == camera \in Visits /\ floor = LoadedTables
Fly == (\E place \in Visits : camera' = place) /\ UNCHANGED floor
FloorNext == Fly
FloorSpec == FloorInit /\ [][FloorNext]_floorVars

AtTile == camera < T.columns * T.rows
Here == TILES[<<camera % T.columns, camera \div T.columns>>]
Phy == PHYS[camera - T.columns * T.rows + 1]
----------------------------------------------------------------------------
\* Two lines of PE column 2 that run down between the router and the vector
\* unit of a tile: the bus is sent to the router, whose columns end before.
Stray(d) == /\ d.bus = "result-bus" /\ ~d.up /\ d.wide < Here.vector.x0 /\ d.wide >= Here.router.x1
            /\ Distance(d.wide, Here.vector.x0) < um(3)

Reaches(d) ==
  \/ insideRect(Here.peArray, d.wide, d.z) /\ LeafCache(1, d.wide, d.z) \notin {"channel"}
  \/ insideRect(Here.router, d.wide, d.z) \/ insideRect(Here.vector, d.wide, d.z)
  \/ Holding(Range(Here.sram), d.wide, d.z) # {}
OnLattice(d) == d.z % um(3) = 0 /\ d.wide % um(1) = 0
OnGrids(d) == OnLattice(d) /\ ~NearStrap(d.wide, MX4, um(1))

\* Every bus line ends in stacks that stand on it, in the gaps of every layer
\* below, over the unit it connects, and in a row block the cell level draws,
\* so that they are wired to a pin; no two lines share a stack.
BusesReachTheirUnits ==
  LET buses == tileBuses(Here)
      all == UNION {busDrops(bus) : bus \in buses}
  IN  /\ \A bus \in buses : \A end \in bus.drops : bus.from <= end.at /\ end.at <= bus.to
      /\ \A d \in all : /\ OnGrids(d) /\ (Reaches(d) \/ Stray(d))
                        /\ rowBlockLeaf(d.z \div ROW, d.x \div BLOCK) \in ROW_LEAVES
      /\ Cardinality({<<d.wide, d.z>> : d \in all}) = Cardinality(all)

\* Buses of one direction run in one layer and never touch; the taps, cut for
\* themselves, lie on both the trunk's and the branch's line.
BusesStandApart ==
  LET buses == tileBuses(Here)
      covers(bus, at, across, line) == bus.across[line] = across /\ bus.from <= at /\ at <= bus.to
  IN  /\ \A axis \in {"x", "z"} : \A a, b \in {bus \in buses : bus.axis = axis} :
           a # b => ~rectsOverlap(ZoneOf(a), ZoneOf(b))
      /\ \A tap \in activationTaps(Here) :
           covers(Trunk(Here), tap.z, tap.x, tap.line) /\ covers(Branch(Here, tap.row), tap.x, tap.z, tap.line)

\* The row block a drop lands in finds it, and finds no other unit's.
DropsAreFound ==
  \A bus \in {Trunk(Here), ReturnBus(Here), Branch(Here, 5), ResultBus(Here, 2)} :
    \A d \in {d \in busDrops(bus) : d.line = 0} :
      LET ends == busEndsIn(RowBlock(d.x \div BLOCK, d.z \div ROW)) IN d \in ends /\ ~ \E e \in ends : e.bus = "channel-bus"

\* The pulse on a line runs on through both stacks of each of its drops.
PulseRunsOn ==
  \A bus \in tileBuses(Here) \cup UNION {channelWires(CHANNEL_RECTS[k]) : k \in {1}} : \A drop \in bus.drops :
    LET segs == DropSegs(bus, drop)
    IN  /\ PathAt(LineSeg(bus, bus.from), drop.at) = PathAt(segs.wide, HeightOf(bus))
        /\ PathAt(segs.wide, STACK.mx1) = PathAt(segs.thin, STACK.v3[2])

\* A tile's straps are cut by one cache and its stacks placed by another:
\* every stack still stands on straps of its supply, and clear of the buses.
StacksStandOnStraps ==
  LET r == Here.rect
      corner(x, z) == rect(x, z, x + um(300), z + um(300))
  IN  /\ \A at \in {corner(r.x0 - um(20), r.z0 + um(400)), corner(Here.peArray.x1 - um(200), Here.peArray.z1 - um(150))} :
           /\ \A stack \in strapStacksIn(Here, at) : Mx4Drawn(stack.x, stack.z) /\ My1Drawn(stack.x, stack.z)
           /\ \A via \in StrapVias(at) : My1Drawn(via.x, via.z) /\ My2Drawn(via.x, via.z)
      /\ \A stack \in RingStacks(Here) : OnRun(MeshRow(stack[2]), stack[1])
      /\ \A stack \in MeshStacks(Here) :
           LET x == StrapAt(MY, stack[1]) IN My2Drawn(x, GLOBAL_MESH.zs[stack[2]]) /\ OnRun(MeshRow(stack[2]), x)
\* Likewise the global mesh, near the tile.
MeshIsJoined ==
  \A i \in {i \in DOMAIN GLOBAL_MESH.xs : Distance(GLOBAL_MESH.xs[i], CenterX(Here.rect)) < um(1200)} :
    \A j \in MeshVias(i) : OnRun(MeshColumn(i), GLOBAL_MESH.zs[j]) /\ OnRun(MeshRow(j), GLOBAL_MESH.xs[i])

\* A router's link crosses every line of the lane it joins, and each of its
\* own lines stands over a wire of the crossbar; a lane is as long as the array.
RouterIsJoined ==
  LET route == routerLane(Here)
      lines == {route.lane + lineOffset(n, NOC.lines, NOC.pitch) : n \in 0 .. 3}
  IN  /\ \A z \in lines : route.from <= z - NOC.width \div 2 /\ z + NOC.width \div 2 <= route.to
      /\ NOC.span.x0 <= route.x /\ route.x <= NOC.span.x1
      /\ \A d \in NocDrops(Here) : /\ insideRect(Here.router, d.x, d.z) /\ route.from <= d.z + um(3) /\ d.z <= route.to
                                   /\ Distance(d.x, route.x + lineOffset(d.line, 4, um(24))) <= um(3)

\* The wires of the channels beside the tile keep clear of the power straps
\* along them, and drop clear of those across them and of the other channels,
\* on the lattice that keeps them off the stacks of routes (MacroRoutes).
ChannelsAreClear ==
  \A k \in {k \in DOMAIN CHANNEL_RECTS : rectsOverlap(Grown(Here.rect, um(10)), CHANNEL_RECTS[k].rect)} :
    LET channel == CHANNEL_RECTS[k]
        crossing == {c \in Range(CHANNEL_RECTS) : c.horizontal # channel.horizontal}
    IN  \A wire \in channelWires(channel) :
          /\ ~nearMyStrap(wire.across[0])
          /\ \A d \in busDrops(wire) : OnLattice(d) /\ \A c \in crossing : ~insideRect(c.rect, d.wide, d.z)
          /\ \A end \in wire.drops : /\ wire.from <= end.at /\ end.at <= wire.to /\ ~nearMyStrap(end.at)
                                     /\ channel.horizontal => ~nearMx4Strap(end.at)

\* What the view says of a point is what it draws there.
SaidAsDrawn ==
  LET r == Grown(Here.rect, um(200))
  IN  \A i, j \in 0 .. 15 :
        LET x == r.x0 + i * ((r.x1 - r.x0) \div 15)
            z == r.z0 + j * ((r.z1 - r.z0) \div 15)
            leaf == leafAt(x, z)
            said == describeLocation(x, z)
        IN  /\ (said[1] = "tile") = (tileAt(x, z) # {})
            /\ leaf = "router" <=> said = <<"tile", "router">>
            /\ leaf \in {"sram", "sram-periph"} =>
                 said[2] = "macro" \/ (said[1] = "tile" /\ said[2] \in PEs) \/ said[1] = "block"
            /\ said[1] = "tile" /\ insideRect(Here.peArray, x, z) => said[2] \in PEs

\* The bundles of a PHY end over its drivers, each line by a driver lane.
PhyIsDriven ==
  \A bundle \in phyBundles(Phy) : \A n \in 0 .. bundle.lines - 1 :
    LET own == bundle.across + lineOffset(n, bundle.lines, bundle.pitch)
        d == Phy.drivers
        along == IF bundle.horizontal THEN CenterX(d) ELSE CenterZ(d)
    IN  /\ bundle.from <= along /\ along <= bundle.to
        /\ laneAt(Phy, own) \in DriverLanes(Phy) /\ Distance(own, laneAt(Phy, own)) <= um(9)

DieHangsTogether ==
  /\ AtTile => /\ BusesReachTheirUnits /\ BusesStandApart /\ DropsAreFound /\ PulseRunsOn
               /\ StacksStandOnStraps /\ MeshIsJoined /\ RouterIsJoined /\ ChannelsAreClear /\ SaidAsDrawn
  /\ ~AtTile => PhyIsDriven
=============================================================================

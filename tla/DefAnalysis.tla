----------------------------- MODULE DefAnalysis -----------------------------
(***************************************************************************)
(* What the layout exporter works out of the routed DEF: the metal of a    *)
(* routing statement, and what each cell and clock driver is for.          *)
(*                                                                         *)
(* A routing statement becomes rectangles and vias (layout-export/         *)
(* parse-def.ts, walkWiring) in a walk over its tokens that keeps the      *)
(* layer, the width, what the wire is for and the last point.  A token is  *)
(* a record; layers are numbered from the bottom; a via joins the layers   *)
(* ViaLayers gives it, and its pads are taken to cover its point; what     *)
(* needs no width (MASK, STYLE, TAPERRULE) and unknown tokens are skipped  *)
(* alike.                                                                  *)
(*                                                                         *)
(* The connectivity analyses (layout-export/analyze.ts and the part of     *)
(* export-layout.ts that feeds it) find which dot unit and pipeline stage  *)
(* each cell serves, by walking backward from the registers, and the clock *)
(* tree.  A net is its driver; a register is the unit and the stage its    *)
(* name gives it (the bus layout of rtl/a1/a1_mma_tile.sv); the walk takes *)
(* the instances waiting in any order, where the code takes the last one   *)
(* pushed.                                                                 *)
(***************************************************************************)
EXTENDS Integers, FiniteSetsExt, SequencesExt

CONSTANTS
  Statements,   \* the statements that may be read
  DefaultWidth, \* layer -> width in the LEF
  RuleWidth,    \* layer -> width of the net's non-default rule
  ViaLayers     \* via -> the layers it joins

VARIABLES
  wiring,   \* the statement: special, and tokens
  k,        \* the next token
  layer, width, purpose, prev,
  rects,    \* emitted, each with the path it is of
  vias,
  path      \* how many paths have begun

wiringVars == <<wiring, k, layer, width, purpose, prev, rects, vias, path>>

NoPoint == [x |-> 0, y |-> 0, ext |-> 0, at |-> FALSE]
NoExt == 99
Star == 999

Token == wiring.tokens[k]
widthFor(l) == RuleWidth[l]

WiringInit ==
  /\ wiring \in Statements
  /\ k = 1 /\ layer = 0 /\ width = 0 /\ purpose = "wire" /\ prev = NoPoint
  /\ rects = <<>> /\ vias = <<>> /\ path = 0

Reads(type) == k <= Len(wiring.tokens) /\ Token.type = type /\ k' = k + 1

\* begin, at the start and at every NEW.
Begin ==
  /\ Reads("new")
  /\ layer' = Token.layer
  /\ width' = IF wiring.special THEN Token.width ELSE widthFor(Token.layer)
  /\ purpose' = "wire"
  /\ prev' = NoPoint
  /\ path' = path + 1
  /\ UNCHANGED <<wiring, rects, vias>>

Shape ==
  /\ Reads("shape")
  /\ purpose' = CASE Token.shape = "FOLLOWPIN" -> "rail"
                  [] Token.shape = "STRIPE" -> IF width > 0 THEN "stripe" ELSE "wire"
                  [] OTHER -> "patch"
  /\ UNCHANGED <<wiring, layer, width, prev, rects, vias, path>>

Taper ==
  /\ Reads("taper")
  /\ width' = DefaultWidth[layer]
  /\ UNCHANGED <<wiring, layer, purpose, prev, rects, vias, path>>

\* "A virtual point connects without metal: restart the path there"; only
\* the token is skipped.
Skip ==
  /\ Reads("virtual") \/ Reads("mask")
  /\ UNCHANGED <<wiring, layer, width, purpose, prev, rects, vias, path>>

Rect(use, x0, y0, x1, y1) ==
  [layer |-> layer, purpose |-> use, path |-> path,
   x0 |-> Min({x0, x1}), y0 |-> Min({y0, y1}), x1 |-> Max({x0, x1}), y1 |-> Max({y0, y1})]

\* The metal between two points: half the width to either side and, unless
\* an extension is given, past either end of regular wiring.  A diagonal is
\* ignored, a point that stays where it is makes a square.
segment(a, b) ==
  LET half == width \div 2
      past(p) == IF p.ext # NoExt THEN p.ext ELSE IF wiring.special THEN 0 ELSE half
      square == Max({half, past(a)})
      lo(u, v) == IF u < v THEN u - past(a) ELSE v - past(b)
      hi(u, v) == IF u < v THEN v + past(b) ELSE u + past(a)
  IN  IF a.y = b.y /\ a.x # b.x
        THEN <<Rect(purpose, lo(a.x, b.x), a.y - half, hi(a.x, b.x), a.y + half)>>
      ELSE IF a.x = b.x /\ a.y # b.y
        THEN <<Rect(purpose, a.x - half, lo(a.y, b.y), a.x + half, hi(a.y, b.y))>>
      ELSE IF a.x = b.x /\ width > 0
        THEN <<Rect(purpose, a.x - square, a.y - square, a.x + square, a.y + square)>>
      ELSE <<>>

\* A point; a * repeats the last one's coordinate.
Point ==
  /\ Reads("point")
  /\ LET p == [x |-> IF Token.x = Star THEN prev.x ELSE Token.x,
               y |-> IF Token.y = Star THEN prev.y ELSE Token.y,
               ext |-> Token.ext, at |-> TRUE]
     IN  /\ prev' = p
         /\ rects' = IF prev.at THEN rects \o segment(prev, p) ELSE rects
  /\ UNCHANGED <<wiring, layer, width, purpose, vias, path>>

\* RECT: a patch relative to the last point.
Patch ==
  /\ Reads("rect")
  /\ rects' = IF prev.at
                THEN Append(rects, Rect("patch", prev.x + Token.dx0, prev.y + Token.dy0, prev.x + Token.dx1, prev.y + Token.dy1))
                ELSE rects
  /\ UNCHANGED <<wiring, layer, width, purpose, prev, vias, path>>

\* Mistake: the path stays on the layer it came from.
ViaStays ==
  /\ Reads("via")
  /\ vias' = IF prev.at THEN Append(vias, [via |-> Token.name, path |-> path, x |-> prev.x, y |-> prev.y]) ELSE vias
  /\ UNCHANGED <<wiring, layer, width, purpose, prev, rects, path>>

\* A via at the last point, perhaps an array; a regular path continues on
\* the via's other layer, in that layer's width.
Via ==
  /\ Reads("via")
  /\ IF prev.at
       THEN LET at(c, r) == [via |-> Token.name, path |-> path, x |-> prev.x + c * Token.sx, y |-> prev.y + r * Token.sy]
                cells == [n \in 1 .. Token.columns * Token.rows |->
                            at((n - 1) \div Token.rows, (n - 1) % Token.rows)]
                pair == ViaLayers[Token.name]
                other == IF pair[1] = layer THEN pair[2] ELSE pair[1]
            IN  /\ vias' = vias \o cells
                /\ IF wiring.special THEN UNCHANGED <<layer, width>>
                   ELSE layer' = other /\ width' = IF other # layer THEN widthFor(other) ELSE width
       ELSE UNCHANGED <<vias, layer, width>>
  /\ UNCHANGED <<wiring, purpose, prev, rects, path>>

Ended == k > Len(wiring.tokens) /\ UNCHANGED wiringVars

WiringNext == Begin \/ Shape \/ Taper \/ Skip \/ Point \/ Patch \/ Via \/ Ended

WiringSpec == WiringInit /\ [][WiringNext]_wiringVars
----------------------------------------------------------------------------
WiringDone == k > Len(wiring.tokens)
Has(type) == \E t \in ToSet(wiring.tokens) : t.type = type

\* Metal is joined where rectangles of a layer touch and where a via sits on
\* a rectangle of one of its layers or on another via sharing a layer.
Covers(r, x, y) == r.x0 <= x /\ x <= r.x1 /\ r.y0 <= y /\ y <= r.y1
Joined(a, b) ==
  CASE "layer" \in DOMAIN a /\ "layer" \in DOMAIN b ->
         /\ a.layer = b.layer
         /\ a.x0 <= b.x1 /\ b.x0 <= a.x1 /\ a.y0 <= b.y1 /\ b.y0 <= a.y1
    [] "layer" \in DOMAIN a /\ "via" \in DOMAIN b -> a.layer \in ToSet(ViaLayers[b.via]) /\ Covers(a, b.x, b.y)
    [] "via" \in DOMAIN a /\ "layer" \in DOMAIN b -> b.layer \in ToSet(ViaLayers[a.via]) /\ Covers(b, a.x, a.y)
    [] OTHER -> /\ ToSet(ViaLayers[a.via]) \cap ToSet(ViaLayers[b.via]) # {}
                /\ a.x = b.x /\ a.y = b.y

OfPath(n) == {s \in ToSet(rects) \cup ToSet(vias) : s.path = n}
RECURSIVE Grow(_, _)
Grow(found, all) ==
  LET more == {s \in all \ found : \E f \in found : Joined(f, s)}
  IN  IF more = {} THEN found ELSE Grow(found \cup more, all)

\* A statement of a net's wiring, drawn in steps of a straight wire, a change
\* of layer through a via or an array, tapers and patches, comes out as one
\* connected piece of metal per path.
PathsAreConnected ==
  WiringDone /\ ~wiring.special /\ ~Has("virtual") =>
    \A n \in 1 .. path : LET all == OfPath(n)
                         IN  all # {} => Grow({CHOOSE s \in all : TRUE}, all) = all
-----------------------------------------------------------------------------
(* Connectivity *)

CONSTANTS
  Insts,    \* the instances, 1 .. n
  Units,    \* the dot units
  Stages,   \* the pipeline stages, numbered in order
  Netlists, \* the netlists that may be analysed
  DepthGuard \* clockTreeOf: how deep it follows parents

RolesAssumption == Stages \subseteq Nat /\ DepthGuard \in Nat

SHARED == 16
NONE == 255
NoInst == 0

VARIABLES
  netlist,   \* cls: instance -> class; of: register -> unit and stage;
             \* inputs: instance -> the drivers of its data inputs
  unitMask, stageMask, \* what each instance has been reached from
  passing,     \* reached and not yet passed on
  walked     \* has the walk begun?

rolesVars == <<netlist, unitMask, stageMask, passing, walked>>

class(i) == netlist.cls[i]
Registers == {i \in Insts : class(i) = "sequential"}
Nobody == [i \in Insts |-> {}]

RolesInit ==
  /\ netlist \in Netlists
  /\ unitMask = Nobody /\ stageMask = Nobody
  /\ passing = {} /\ walked = FALSE

\* Registers with a unit or a stage are where the walk begins.
Seed ==
  /\ ~walked
  /\ walked' = TRUE
  /\ unitMask' = [i \in Insts |-> IF i \in Registers THEN netlist.of[i].units ELSE {}]
  /\ stageMask' = [i \in Insts |-> IF i \in Registers THEN netlist.of[i].stages ELSE {}]
  /\ passing' = {i \in Registers : unitMask'[i] \cup stageMask'[i] # {}}
  /\ UNCHANGED netlist

\* Mistake: only a new unit is passed on.
PassUnits(i) ==
  /\ i \in passing
  /\ LET reached == {d \in netlist.inputs[i] : d # NoInst /\ class(d) # "sequential"}
         learns == {d \in reached : ~(unitMask[i] \subseteq unitMask[d])}
     IN  /\ unitMask' = [d \in Insts |-> IF d \in learns THEN unitMask[d] \cup unitMask[i] ELSE unitMask[d]]
         /\ stageMask' = [d \in Insts |-> IF d \in learns THEN stageMask[d] \cup stageMask[i] ELSE stageMask[d]]
         /\ passing' = (passing \ {i}) \cup learns
  /\ UNCHANGED <<netlist, walked>>

\* An instance passes what it was reached from to the combinational cells
\* that drive its data inputs; those that learn something are queued.
Pass(i) ==
  /\ i \in passing
  /\ LET reached == {d \in netlist.inputs[i] : d # NoInst /\ class(d) # "sequential"}
         learns == {d \in reached : \/ ~(unitMask[i] \subseteq unitMask[d])
                                    \/ ~(stageMask[i] \subseteq stageMask[d])}
     IN  /\ unitMask' = [d \in Insts |-> IF d \in learns THEN unitMask[d] \cup unitMask[i] ELSE unitMask[d]]
         /\ stageMask' = [d \in Insts |-> IF d \in learns THEN stageMask[d] \cup stageMask[i] ELSE stageMask[d]]
         /\ passing' = (passing \ {i}) \cup learns
  /\ UNCHANGED <<netlist, walked>>

Settled == walked /\ passing = {} /\ UNCHANGED rolesVars

RolesNext == Seed \/ (\E i \in Insts : Pass(i)) \/ Settled

RolesSpec == RolesInit /\ [][RolesNext]_rolesVars
----------------------------------------------------------------------------
RolesDone == walked /\ passing = {}

HasRole(i) == class(i) \in {"logic", "buffer"}

\* The unit a cell is said to serve, and its stage: the latest it feeds.
unit(i) ==
  IF class(i) = "sequential"
    THEN IF netlist.of[i].units = {} THEN NONE ELSE CHOOSE u \in netlist.of[i].units : TRUE
    ELSE IF ~HasRole(i) \/ unitMask[i] = {} THEN NONE
    ELSE IF Cardinality(unitMask[i]) = 1 THEN CHOOSE u \in unitMask[i] : TRUE ELSE SHARED
stage(i) == IF HasRole(i) /\ stageMask[i] # {} THEN Max(stageMask[i]) ELSE 0

counts ==
  LET logic == {i \in Insts : HasRole(i)}
  IN  [logic |-> Cardinality(logic),
       assigned |-> Cardinality({i \in logic : unit(i) \in Units}),
       shared |-> Cardinality({i \in logic : unit(i) = SHARED}),
       none |-> Cardinality({i \in logic : unit(i) = NONE})]

\* The clock tree: every driver of a clock net, the driver of its first data
\* input, and its depth.
ClockDrivers == {i \in Insts : i \in netlist.clockDrivers}
parent(i) ==
  LET up == netlist.firstInput[i]
  IN  IF up \in ClockDrivers THEN up ELSE NoInst
depth(i) ==
  LET d[j \in Insts, guard \in 0 .. DepthGuard + 1] ==
        IF parent(j) = NoInst \/ guard > DepthGuard THEN 0 ELSE 1 + d[parent(j), guard + 1]
  IN  d[i, 0]
----------------------------------------------------------------------------
\* Cell i feeds register r: a path of combinational cells leads from it to
\* a data input of r.
Comb == {i \in Insts : class(i) # "sequential"}
RECURSIVE FeedsWithin(_, _)
FeedsWithin(targets, steps) ==
  LET before == {i \in Comb : \E t \in targets : i \in netlist.inputs[t]}
  IN  IF steps = 0 THEN {} ELSE before \cup FeedsWithin(before, steps - 1)
Feeds(r) == FeedsWithin({r}, Cardinality(Insts))

\* However the walk is ordered, and around combinational loops, a cell ends
\* up with exactly the units and stages whose registers it feeds: its unit
\* if there is one, shared if there are several ("found by walking backward
\* from each register's data inputs ... never past another register",
\* analyze.ts, at assignRoles).
RolesAreReachability ==
  RolesDone =>
    \A i \in Comb :
      LET fed == {r \in Registers : i \in Feeds(r)}
          units == UNION {netlist.of[r].units : r \in fed}
          stages == UNION {netlist.of[r].stages : r \in fed}
      IN  /\ unitMask[i] = units /\ stageMask[i] = stages
          /\ HasRole(i) => /\ (unit(i) = NONE) = (units = {})
                           /\ (unit(i) = SHARED) = (Cardinality(units) > 1)
                           /\ stages # {} => stage(i) = Max(stages)

\* In a clock tree without loops each driver is one level below its parent.
Acyclic == \A i \in ClockDrivers : depth(i) <= Cardinality(Insts)
ClockLevels ==
  Acyclic => \A i \in ClockDrivers : parent(i) # NoInst => depth(i) = depth(parent(i)) + 1
=============================================================================

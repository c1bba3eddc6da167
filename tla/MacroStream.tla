---------------------------- MODULE MacroStream ----------------------------
(***************************************************************************)
(* What the macro view keeps on screen (engine.ts, inspector.ts,           *)
(* annotations.ts): the chunks it generates and evicts as the camera       *)
(* moves, the faces a section cuts through them, and the labels and the    *)
(* hover read-out that name them.                                          *)
(*                                                                         *)
(* Every frame works against budgets of a few milliseconds.  How much fits *)
(* in one is left open, except for what a frame does in any case: it       *)
(* generates one chunk that is missing, it cuts one chunk if it generated  *)
(* none, and it takes one step of the label plan.  Time is counted in      *)
(* frames.  The die is a strip one chunk deep.                             *)
(*                                                                         *)
(* How it zooms is the code's own (lib/silicon-macro.ts): the levels of    *)
(* detail and the square of chunks each one streams, the seven stops, and  *)
(* the grid a section snaps to.  The code's millimetres are counted in     *)
(* tenths of a micrometre, so that the thresholds of the streamed levels   *)
(* are integers.                                                           *)
(***************************************************************************)
EXTENDS Integers, Sequences, FiniteSets, FiniteSetsExt

CONSTANTS
  Streamed,      \* the levels of the strip that are streamed
  DieWidth,      \* the strip's length, in tenths of a micrometre
  MacroViews,    \* what the camera may look at: position, distance, and the
                 \* side of the cut it faces
  SnapPitch,     \* the pitch of the columns a section snaps to
  EvictAfter,    \* EVICT_AFTER_MS, in frames
  PlanFrames,    \* frames a label plan may take
  PointerStarts, \* where the pointer may be when the view opens
  MaxCameraMoves, MaxSwitches  \* bounds: camera moves; switches of the toolbar

VARIABLES
  camera,        \* one of MacroViews
  zoomStop,      \* stop
  ages,          \* resident: frames since each chunk was last wanted
  caps,          \* each resident chunk's capStamp
  cutOn, cut,    \* sectionOn, section
  capEps,
  staticCaps,    \* the cut the package's caps were built for, or Uncut
  lastCamera,    \* the camera of the last annotate
  hover,         \* the chunk the read-out names, or NoChunk
  hoverWait,     \* now <= hoverAt
  dirty,         \* pointer.dirty
  pointer,       \* "over", or "away" while it is outside or drags
  labelMode,     \* "all" or "off" ("key" shows fewer of the same)
  planner,       \* the label plan under way, or NoPlan
  planWait,      \* now <= planAt
  planStamp,
  label,         \* what one of the anchors names: a chunk, or NoChunk
  streamed,      \* a frame has updated the scene and has yet to annotate it
  cameraMoves, switches

----------------------------------------------------------------------------
(* Levels, chunks and stops.                                               *)

\* LEVELS without level 0, which is always there.
Level ==
  << [chunk |-> 5000, radius |-> 3, activateAt |-> 60000, fullAt |-> 44000],
     [chunk |-> 1000, radius |-> 2, activateAt |-> 4500,  fullAt |-> 3300],
     [chunk |-> 30,   radius |-> 2, activateAt |-> 140,   fullAt |-> 105],
     [chunk |-> 10,   radius |-> 2, activateAt |-> 46,    fullAt |-> 34] >>

\* levelFade > 0, and the fade from which a level can be picked and labelled.
Active(level, distance) == distance < Level[level].activateAt
Solid(level, distance) ==
  2 * (Level[level].activateAt - distance) >= Level[level].activateAt - Level[level].fullAt

\* A level far coarser than the view keeps only its inner ring.
Radius(level, distance) ==
  IF Level[level].activateAt > 60 * distance THEN Min({1, Level[level].radius}) ELSE Level[level].radius

\* The chunks to keep of one row of them, on a die from 0 to `width`.
windowChunks(level, x, distance, width) ==
  LET chunk == Level[level].chunk
      at == x \div chunk
      r == Radius(level, distance)
  IN  IF ~Active(level, distance) THEN {}
      ELSE {<<level, i>> : i \in {j \in at - r .. at + r : (j + 1) * chunk > 0 /\ j * chunk < width}}

AbsValue(n) == IF n < 0 THEN -n ELSE n

\* Nearest first; of the same ring, the finest level.
rank(key, x) == AbsValue(key[2] - x \div Level[key[1]].chunk) * 10 + (5 - key[1])
----------------------------------------------------------------------------
stopBelow == <<1000000000, 600000, 60000, 4500, 400, 120, 32>>
MacroStops == 1 .. 7

\* The last stop the distance is below, but the present one within 8 per cent
\* of the boundary to its neighbour.
focusStopFor(distance, current) ==
  LET chosen == Max({k \in MacroStops : k = 1 \/ distance < stopBelow[k]})
      boundary == stopBelow[Max({chosen, current})]
  IN  IF /\ AbsValue(chosen - current) = 1
         /\ 100 * Max({distance, boundary}) < 108 * Min({distance, boundary})
      THEN current ELSE chosen

\* Below 30 micrometres a section across x snaps to the column of nano-TSVs of
\* every eighth gate, `pitch` apart; farther off it goes where it is asked to.
snapSection(x, distance, pitch) ==
  IF distance < 300 THEN ((2 * x + pitch) \div (2 * pitch)) * pitch ELSE x
----------------------------------------------------------------------------
sectionVars == <<cutOn, cut, capEps, staticCaps>>
labelVars == <<labelMode, planner, planWait, planStamp, label>>
hoverVars == <<hover, hoverWait, dirty, pointer>>
macroVars == <<camera, zoomStop, ages, caps, sectionVars, lastCamera, hoverVars, labelVars, streamed, cameraMoves, switches>>

Uncut == <<>>
NoChunk == <<0, 0>>
NoPlan == [frames |-> 0, found |-> NoChunk]
Resident == DOMAIN ages
MacroChunks == UNION {{<<l, i>> : i \in 0 .. (DieWidth - 1) \div Level[l].chunk} : l \in Streamed}

WantedChunks(v) == UNION {windowChunks(l, v.x, v.distance, DieWidth) : l \in Streamed}

\* Solid enough to see: what a ray can hit.
Drawn(residents, v) == {c \in residents : Solid(c[1], v.distance)}

\* The stamp that a chunk's caps must carry.
Stamp(on, section, eps) == IF on THEN <<section.keep, section.value, eps>> ELSE Uncut

MacroInit ==
  /\ camera \in MacroViews /\ \A v \in MacroViews : v.distance <= camera.distance
  /\ zoomStop = focusStopFor(camera.distance, 1)
  /\ ages = <<>> /\ caps = <<>>
  /\ cutOn = FALSE /\ cut = [keep |-> 1, value |-> 0] /\ capEps = 0 /\ staticCaps = Uncut
  /\ lastCamera = camera
  /\ hover = NoChunk /\ hoverWait = FALSE /\ dirty = FALSE /\ pointer \in PointerStarts
  /\ labelMode = "all" /\ planner = NoPlan /\ planWait = FALSE /\ planStamp = <<>> /\ label = NoChunk
  /\ streamed = FALSE /\ cameraMoves = 0 /\ switches = 0
----------------------------------------------------------------------------
(* One frame.                                                              *)

\* updateSection: the cut follows the camera when it looks from the other side
\* or has left the plane; the caps' thickness follows a fourfold zoom.
Recut == cut.keep # camera.facing \/ 10 * AbsValue(camera.x - cut.value) > 3 * camera.distance
NextCut ==
  IF Recut THEN [keep |-> camera.facing, value |-> snapSection(camera.x, camera.distance, SnapPitch)]
           ELSE cut
NextEps(eps) ==
  IF Recut \/ eps = 0 \/ camera.distance > 4 * eps \/ 4 * camera.distance < eps
  THEN camera.distance ELSE eps

UpdateSection ==
  IF cutOn
  THEN /\ cut' = NextCut /\ capEps' = NextEps(capEps)
       /\ staticCaps' = Stamp(TRUE, cut', capEps')
  ELSE UNCHANGED <<cut, capEps, staticCaps>>

\* What a budget may let through of a set of chunks: none, one or all of it.
Shares(chunks) == {{}, chunks} \cup {{c} : c \in chunks}

\* stream: the nearest missing chunks, at least one; then the chunks nobody has
\* wanted for a while go; then caps, if the budget is not spent on generation.
Missing == WantedChunks(camera) \ Resident
Nearest(made) ==
  /\ made # {} \/ Missing = {}
  /\ \A c \in made, d \in Missing \ made : rank(c, camera.x) <= rank(d, camera.x)

Aged(made) ==
  [c \in {d \in Resident \cup made : d \in WantedChunks(camera) \cup made \/ ages[d] < EvictAfter} |->
    IF c \in WantedChunks(camera) THEN 0 ELSE ages[c] + 1]

CapsAfter(made, now, stamp, cutNow) ==
  [c \in now |-> IF c \in cutNow THEN stamp ELSE IF c \in made THEN Uncut ELSE caps[c]]

Stream ==
  \E made \in Shares(Missing) :
    /\ Nearest(made)
    /\ ages' = Aged(made)
    /\ LET stamp == Stamp(cutOn, cut', capEps')
           before == CapsAfter(made, DOMAIN ages', stamp, {})
           stale == {c \in DOMAIN ages' : before[c] # stamp}
       IN  \E cutNow \in Shares(stale) :
             /\ cutNow # {} \/ stale = {} \/ made # {}
             /\ caps' = CapsAfter(made, DOMAIN ages', stamp, cutNow)

\* annotate, the read-out: asked again when the pointer or the camera moved,
\* and not again within 60 ms; gone while dragging and outside.
Moved == lastCamera # camera
Hover ==
  IF pointer = "over"
  THEN \/ /\ (dirty \/ Moved) /\ ~hoverWait
          /\ hover' \in Drawn(Resident, camera) \cup {NoChunk}
          /\ dirty' = FALSE /\ hoverWait' = TRUE
       \/ /\ ~((dirty \/ Moved) /\ ~hoverWait)
          /\ hoverWait' = FALSE
          /\ UNCHANGED <<hover, dirty>>
  ELSE hover' = NoChunk /\ dirty' = FALSE /\ hoverWait' = FALSE

\* inspector.plan, resumed for some steps: it reads the chunks that are drawn
\* when it comes to them, and asks again, at the end, whether what it found is
\* hidden; nothing in front of it also passes for seen.
Planned(plan) ==
  \E found \in Drawn(Resident, camera) \cup {plan.found} :
    \/ /\ plan.frames < PlanFrames
       /\ planner' = [frames |-> plan.frames + 1, found |-> found]
       /\ UNCHANGED <<label, planWait>>
    \/ label' \in {found, NoChunk} /\ planner' = NoPlan /\ planWait' = TRUE

Labels ==
  LET stamp == <<zoomStop, cutOn>>
      kept == IF planner # NoPlan /\ stamp # planStamp THEN NoPlan ELSE planner
  IN  IF labelMode = "off" THEN UNCHANGED <<planner, planStamp, planWait, label>>
      ELSE \/ kept # NoPlan /\ Planned(kept) /\ UNCHANGED planStamp
           \/ /\ kept = NoPlan /\ (~planWait \/ stamp # planStamp)
              /\ planStamp' = stamp
              /\ Planned(NoPlan)
           \/ /\ kept = NoPlan /\ planWait /\ stamp = planStamp
              /\ planWait' = FALSE
              /\ UNCHANGED <<planner, planStamp, label>>

\* A frame runs to its end before anything else does.
UpdateScene ==
  /\ ~streamed /\ streamed' = TRUE
  /\ zoomStop' = focusStopFor(camera.distance, zoomStop)
  /\ UpdateSection
  /\ Stream
  /\ UNCHANGED <<camera, cutOn, lastCamera, hoverVars, labelVars, cameraMoves, switches>>

Annotate ==
  /\ streamed /\ streamed' = FALSE
  /\ Hover
  /\ Labels
  /\ lastCamera' = camera
  /\ UNCHANGED <<camera, zoomStop, ages, caps, sectionVars, pointer, labelMode, cameraMoves, switches>>
----------------------------------------------------------------------------
(* What happens between frames.                                            *)

Between == ~streamed /\ UNCHANGED streamed

MoveCamera ==
  /\ Between /\ cameraMoves < MaxCameraMoves /\ cameraMoves' = cameraMoves + 1
  /\ camera' \in MacroViews \ {camera}
  /\ UNCHANGED <<zoomStop, ages, caps, sectionVars, lastCamera, hoverVars, labelVars, switches>>

MovePointer ==
  /\ Between /\ cameraMoves < MaxCameraMoves /\ cameraMoves' = cameraMoves + 1
  /\ pointer' \in {"over", "away"} /\ dirty' = TRUE
  /\ UNCHANGED <<camera, zoomStop, ages, caps, sectionVars, lastCamera, hover, hoverWait, labelVars, switches>>

Switch == Between /\ switches < MaxSwitches /\ switches' = switches + 1

\* On: the cut and the package's caps at once, the chunks' caps as frames find
\* the time.  Off: every cap goes at once.
SetSection ==
  /\ Switch
  /\ cutOn' = ~cutOn /\ planWait' = FALSE
  /\ IF cutOn'
     THEN /\ cut' = NextCut /\ capEps' = NextEps(0)
          /\ staticCaps' = Stamp(TRUE, cut', capEps')
          /\ UNCHANGED caps
     ELSE /\ UNCHANGED cut /\ capEps' = 0 /\ staticCaps' = Uncut
          /\ caps' = [c \in Resident |-> Uncut]
  /\ UNCHANGED <<camera, zoomStop, ages, lastCamera, hoverVars, labelMode, planner, planStamp, label, cameraMoves>>

SetLabelMode ==
  /\ Switch
  /\ labelMode' \in {"all", "off"} \ {labelMode} /\ planWait' = FALSE
  /\ UNCHANGED <<camera, zoomStop, ages, caps, sectionVars, lastCamera, hoverVars, planner, planStamp, label, cameraMoves>>

MacroFrame == UpdateScene \/ Annotate
MacroNext == UpdateScene \/ Annotate \/ MoveCamera \/ MovePointer \/ SetSection \/ SetLabelMode

\* The browser asks for frames as long as the view is open.
MacroSpec == MacroInit /\ [][MacroNext]_macroVars /\ WF_macroVars(MacroFrame)
----------------------------------------------------------------------------
MacroTypeOK ==
  /\ camera \in MacroViews /\ lastCamera \in MacroViews /\ zoomStop \in MacroStops
  /\ Resident \subseteq MacroChunks /\ DOMAIN caps = Resident
  /\ \A c \in Resident : ages[c] \in 0 .. EvictAfter
  /\ hover \in MacroChunks \cup {NoChunk} /\ label \in MacroChunks \cup {NoChunk}
  /\ planner.frames \in 0 .. PlanFrames

\* What is cut is the chunk's own geometry at the present plane: no chunk shows
\* the caps of another plane than the package's once the frame's budget has
\* reached it, and none at all without a section.
NoCapsWithoutACut == ~cutOn => staticCaps = Uncut /\ \A c \in Resident : caps[c] = Uncut

\* What comes true and stays so once the camera rests.  Exactly the chunks of
\* its windows are loaded: the missing ones came, one a frame at least, and
\* the others went.
ResidencySettled == Resident = WantedChunks(camera)

\* Every one of them, with the package, is cut by the plane in use: the
\* budget that generation may spend whole does not starve the caps for ever.
CapsCaughtUp == /\ \A c \in Resident : caps[c] = Stamp(cutOn, cut, capEps)
                /\ staticCaps = Stamp(cutOn, cut, capEps)

\* The labels on screen name geometry that is drawn.
LabelsCaughtUp == labelMode = "off" \/ label \in Drawn(Resident, camera) \cup {NoChunk}
=============================================================================

---------------------------- MODULE LayoutPointer ----------------------------
(***************************************************************************)
(* The pointer and the labels of the layout view                           *)
(* (app/components/silicon/layout-engine.ts, annotations.ts): presses that *)
(* move the view, rotate it or select, the hover read-out, and the planner *)
(* that chooses the labels over several frames while the scene it looks at *)
(* goes on changing.                                                       *)
(*                                                                         *)
(* Abstractions: the world is a row of places, of which the camera shows   *)
(* Spots side by side; a camera is the first place it shows, and a drag or *)
(* a flight changes it.  A place holds a shape of a chunk, which may be    *)
(* evicted and built again, the bare surface, or nothing past the die.  A  *)
(* label's chip lies one to two spots to the right of what it names; the   *)
(* view's left edge stands for its bottom too, the right one for its top.  *)
(* The selection's panel stands for all that open and close over the view. *)
(* Times (a click's 600 ms, the hover's 60, the half second for which the  *)
(* panels' places are kept, the planner's pauses and its budget per frame) *)
(* run out in steps of their own.                                          *)
(***************************************************************************)
EXTENDS Naturals, Sequences

CONSTANTS
  WirePlaces, CellPlaces, \* what may be drawn, by the place it is at
  PointerSpots, \* where the pointers go
  MaxInputs,    \* bound: things the user does
  MaxChanges    \* bound: times a chunk is evicted or built

Spots == 0 .. 5
Cameras == 0 .. 1
Region == 10          \* a label of the map, of a dot unit or a block, at place 1
Surface == 50         \* the silicon itself
NothingHit == 99         \* null
Pointers == {"mouse", "touch"}
NotPressed == "none"
FlightFrames == 3     \* bound: frames a flight lasts
LeftEdge == {0, 1}    \* where a chip begins less than 4 px from the edge
SelectionPanel == {5} \* the spots under it

Shapes == WirePlaces \cup CellPlaces
PointerAssumption ==
  /\ Shapes \subseteq Spots /\ WirePlaces \cap CellPlaces = {} /\ PointerSpots \subseteq Spots
  /\ MaxInputs \in Nat /\ MaxChanges \in Nat

VARIABLES
  pose,        \* the camera
  flight,      \* frames left of a flight
  sectionOn,   \* stands for all that the planner's stamp is made of
  dragMode,    \* "rotate" or "pan"
  pan,         \* the drag that moves the view: its pointer, the place it grabbed, from where, and whether it moved
  down,        \* pointer.down: the spot, and whether 600 ms have passed
  held,        \* what each pointer is pressed with: "left", "other" button, or "none"
  press,       \* what each pointer's last press did: moved the view, selected
  spot, inside, dragging, dirty, \* pointer: x and y, inside, dragging, dirty
  hoverWait,   \* now <= hoverAt
  hover,       \* what hoverText tells
  lastPose,    \* lastCamera
  labelMode, planner, planWait, planStamp, labelled,
  anchors,     \* the slots' anchors, by priority
  boxes,       \* the spots of each slot's chip, none if it is hidden
  labelsStale,
  panel,       \* the selection's panel is on the page
  occluders,   \* the spots under panels, as last measured
  measured,    \* now < occludersAt
  placedUnder, \* history: the occluders the chips were placed by
  picked,
  drawn,       \* the shapes of the chunks that are built and shown
  inputs, changes

presses == <<dragMode, pan, down, held, press>>
pointer == <<spot, inside, dragging, dirty>>
hovering == <<hoverWait, hover, lastPose>>
planVars == <<planner, planWait, planStamp, labelled, anchors>>
panels == <<panel, occluders, measured, placedUnder>>
labels == <<labelMode, planVars, boxes, labelsStale, panels>>
pointerVars == <<pose, flight, sectionOn, presses, pointer, hovering, labels, picked, drawn, inputs, changes>>

NoPan == [pointer |-> "none", grab |-> 0, from |-> 0, moved |-> FALSE]
NoPress == [at |-> NothingHit, late |-> FALSE]
NoPlan == [stage |-> "none"]
Stamp == IF sectionOn THEN "cut" ELSE "whole"
Nameable == Shapes \cup {Region, Surface, NothingHit}

PointerTypeOK ==
  /\ pose \in Cameras /\ lastPose \in Cameras
  /\ flight \in 0 .. FlightFrames
  /\ {sectionOn, inside, dragging, dirty, hoverWait, planWait, labelsStale, panel, measured} \subseteq BOOLEAN
  /\ dragMode \in {"rotate", "pan"} /\ labelMode \in {"all", "key", "off"}
  /\ held \in [Pointers -> {"left", "other", NotPressed}]
  /\ press \in [Pointers -> [panned : BOOLEAN, clicks : 0 .. 2]]
  /\ {spot} \subseteq Spots /\ {hover, picked} \subseteq Nameable /\ drawn \subseteq Shapes
  /\ planner.stage \in {"none", "place"}
  /\ DOMAIN boxes = DOMAIN anchors /\ labelled \subseteq Nameable
  /\ {occluders, placedUnder} \subseteq SUBSET Spots

FreshPress == [panned |-> FALSE, clicks |-> 0]

PointerInit ==
  /\ pose = 0 /\ flight = 0 /\ sectionOn = FALSE
  /\ dragMode = "rotate" /\ pan = NoPan /\ down = NoPress
  /\ held = [p \in Pointers |-> NotPressed] /\ press = [p \in Pointers |-> FreshPress]
  /\ spot = 0 /\ inside = FALSE /\ dragging = FALSE /\ dirty = FALSE
  /\ hoverWait = FALSE /\ hover = NothingHit /\ lastPose = 0
  /\ labelMode = "all" /\ planner = NoPlan /\ planWait = FALSE /\ planStamp = "none"
  /\ labelled = {} /\ anchors = <<>> /\ boxes = <<>> /\ labelsStale = TRUE
  /\ panel = FALSE /\ occluders = {} /\ measured = FALSE /\ placedUnder = {}
  /\ picked = NothingHit /\ drawn = Shapes /\ inputs = 0 /\ changes = 0
----------------------------------------------------------------------------
\* What is where, to the camera c.

\* pick: what the ray through a spot hits.
pick(s, c) == LET place == c + s
              IN  IF place \in drawn THEN place ELSE IF place \in Spots THEN Surface ELSE NothingHit

PlaceOf(a) == IF a = Region THEN 1 ELSE a
OnScreen(a, c) == PlaceOf(a) >= c

\* boxAt: the spots a label's chip covers.
boxAt(a, c) == {PlaceOf(a) - c + 1, PlaceOf(a) - c + 2}

\* What update tests: the right edge, and the panels as last measured.
Hidden(box, covered) == ~(box \subseteq Spots \ covered)

\* blocked, for the planner only: the left edge besides.
blocked(box, covered) == Hidden(box, covered) \/ box \cap LeftEdge # {}

\* Where the panels really are.
Panels == IF panel THEN SelectionPanel ELSE {}

\* labelAt: the anchor of the first slot whose chip is under the spot.
labelAt(s) == LET hit == {i \in DOMAIN boxes : s \in boxes[i]}
              IN  IF hit = {} THEN NothingHit ELSE anchors[CHOOSE i \in hit : \A j \in hit : i <= j]

\* clickAt and the hover: the label under the spot, else what the ray hits.
under(s, c) == IF labelAt(s) # NothingHit THEN labelAt(s) ELSE pick(s, c)

Input == inputs < MaxInputs /\ inputs' = inputs + 1 /\ UNCHANGED <<drawn, changes>>
----------------------------------------------------------------------------
\* Presses.

wantsPan(p, button, modified) ==
  /\ p # "touch"
  /\ \/ button = 1
     \/ button = 0 /\ (dragMode = "pan") # modified
     \/ button = 2 /\ dragMode = "rotate"

\* The host sees a press first; one that begins a drag goes no further
\* (beginPan), any other reaches the canvas (onCanvasDown).
onPointerDown(p, button, modified, s) ==
  /\ Input
  /\ held[p] = NotPressed /\ held' = [held EXCEPT ![p] = IF button = 0 THEN "left" ELSE "other"]
  /\ press' = [press EXCEPT ![p] = FreshPress]
  /\ flight' = 0
  /\ IF pan = NoPan /\ wantsPan(p, button, modified)
       THEN /\ pan' = [pointer |-> p, grab |-> pose + s, from |-> s, moved |-> FALSE]
            /\ UNCHANGED down
       ELSE /\ down' = IF button = 0 THEN [at |-> s, late |-> FALSE] ELSE NoPress
            /\ UNCHANGED pan
  /\ UNCHANGED <<pose, sectionOn, dragMode, pointer, hovering, labels, picked>>

Captured(p) == pan # NoPan /\ pan.pointer = p

\* The host has captured a drag's pointer: the canvas is told that it left.
Left == inside' = FALSE /\ dirty' = TRUE

\* The view follows, so that the place grabbed stays under the pointer, as
\* far as the view goes; a move of less than 4 px is none.
onPanMove(p, s) ==
  /\ Input
  /\ Captured(p)
  /\ Left
  /\ IF ~pan.moved /\ s = pan.from THEN UNCHANGED <<pose, pan, press>>
       ELSE /\ pan' = [pan EXCEPT !.moved = TRUE]
            /\ press' = [press EXCEPT ![p].panned = TRUE]
            /\ pose' = IF pan.grab <= s THEN 0 ELSE 1
  /\ UNCHANGED <<flight, sectionOn, dragMode, down, held, spot, dragging, hovering, labels, picked>>

\* A pressed pointer that does not drag the view rotates it through the
\* orbit controls, unless a flight has disabled them.
onPointerMove(p, s) ==
  /\ Input
  /\ ~Captured(p)
  /\ spot' = s /\ inside' = TRUE /\ dirty' = TRUE
  /\ dragging' = (held[p] # NotPressed)
  /\ IF dragging' /\ flight = 0 THEN pose' \in Cameras ELSE UNCHANGED pose
  /\ UNCHANGED <<flight, sectionOn, presses, hovering, labels, picked>>

onPointerLeave ==
  /\ Input
  /\ inside /\ Left
  /\ UNCHANGED <<pose, flight, sectionOn, presses, spot, dragging, hovering, labels, picked>>

\* onCanvasUp: a click if it neither moved 5 px nor took 600 ms.
ClicksCanvas(p, s) == ~Captured(p) /\ down # NoPress /\ held[p] = "left" /\ s = down.at /\ ~down.late

\* Mistake: any release of the left button is a click.
ClicksPanMoved(p) == Captured(p) /\ held[p] = "left"

\* onPanEnd: an unmoved left press was a click after all.
ClicksPan(p) == Captured(p) /\ ~pan.moved /\ held[p] = "left"

\* The button is let go: at the document for a drag, else over the canvas.
onPointerUp(p, s) ==
  /\ held[p] # NotPressed /\ held' = [held EXCEPT ![p] = NotPressed]
  /\ IF Captured(p) THEN pan' = NoPan /\ Left /\ UNCHANGED down
                     ELSE down' = NoPress /\ UNCHANGED <<pan, inside, dirty>>
  /\ IF ClicksPan(p) \/ ClicksCanvas(p, s)
       THEN picked' = under(s, pose) /\ press' = [press EXCEPT ![p].clicks = @ + 1]
       ELSE UNCHANGED <<picked, press>>
  /\ UNCHANGED <<pose, flight, sectionOn, dragMode, spot, dragging, hovering, labels, drawn, inputs, changes>>

\* Mistake: a drag does not hear of it.
CancelUnheard(p) ==
  /\ held[p] # NotPressed /\ held' = [held EXCEPT ![p] = NotPressed]
  /\ UNCHANGED <<pose, flight, sectionOn, dragMode, pan, down, press, pointer, hovering, labels, picked, drawn, inputs, changes>>

\* The browser takes the pointer away (pointercancel); only drags listen.
onPointerCancel(p) ==
  /\ held[p] # NotPressed /\ held' = [held EXCEPT ![p] = NotPressed]
  /\ IF Captured(p) THEN pan' = NoPan /\ Left ELSE UNCHANGED <<pan, inside, dirty>>
  /\ UNCHANGED <<pose, flight, sectionOn, dragMode, down, press, spot, dragging, hovering, labels, picked, drawn, inputs, changes>>

\* 600 ms pass.
PressGrowsOld ==
  /\ down # NoPress /\ ~down.late
  /\ down' = [down EXCEPT !.late = TRUE]
  /\ UNCHANGED <<pose, flight, sectionOn, dragMode, pan, held, press, pointer, hovering, labels, picked, drawn, inputs, changes>>

\* A double click flies to the point under it.
onDoubleClick ==
  /\ Input
  /\ inside /\ flight' = FlightFrames
  /\ UNCHANGED <<pose, sectionOn, presses, pointer, hovering, labels, picked>>

\* Escape, and the panel's close button.
Escape ==
  /\ Input
  /\ picked # NothingHit /\ picked' = NothingHit
  /\ UNCHANGED <<pose, flight, sectionOn, presses, pointer, hovering, labels>>

setDragMode ==
  /\ Input
  /\ dragMode' = IF dragMode = "pan" THEN "rotate" ELSE "pan"
  /\ UNCHANGED <<pose, flight, sectionOn, pan, down, held, press, pointer, hovering, labels, picked>>

\* A plan under way stays as it is while labels are off.
setLabelMode ==
  /\ Input
  /\ labelMode' \in {"all", "key", "off"} \ {labelMode}
  /\ labelsStale' = TRUE /\ planWait' = FALSE
  /\ UNCHANGED <<pose, flight, sectionOn, presses, pointer, hovering, planner, planStamp, labelled, anchors, boxes, panels, picked>>

\* The cross-section turns the camera, and changes what labels may name.
setSection ==
  /\ Input
  /\ sectionOn' = ~sectionOn /\ planWait' = FALSE
  /\ flight' = IF sectionOn' THEN FlightFrames ELSE flight
  /\ UNCHANGED <<pose, presses, pointer, hovering, labelMode, planner, planStamp, labelled, anchors, boxes, labelsStale, panels, picked>>

\* stream: a chunk is evicted, or built.
Stream ==
  /\ changes < MaxChanges /\ changes' = changes + 1
  /\ \E x \in Shapes : drawn' = IF x \in drawn THEN drawn \ {x} ELSE drawn \cup {x}
  /\ UNCHANGED <<pose, flight, sectionOn, presses, pointer, hovering, labels, picked, inputs>>
\* The page renders what was selected, or that nothing is.
PanelRenders ==
  /\ panel # (picked # NothingHit) /\ panel' = ~panel
  /\ UNCHANGED <<pose, flight, sectionOn, presses, pointer, hovering, labelMode, planVars, boxes, labelsStale,
                 occluders, measured, placedUnder, picked, drawn, inputs, changes>>
----------------------------------------------------------------------------
\* The planner: a generator that first gathers what the stop shows and then
\* places it, yielding after the visibility check of a shape.

\* The dot units are labelled from above only.
Gathered(c) == [stage |-> "place", chosen |-> <<>>, accepted |-> {},
                todo |-> {a \in drawn \cup (IF sectionOn THEN {} ELSE {Region}) : OnScreen(a, c)}]

\* By priority, and of a kind first what had its label before.
LabelRank(a) == CASE a = Region -> 0 [] a \in CellPlaces -> 1 [] a \in labelled -> 2 [] OTHER -> 3
RanksBefore(a, b) == LabelRank(a) < LabelRank(b) \/ (LabelRank(a) = LabelRank(b) /\ a < b)
FirstOf(S) == CHOOSE a \in S : \A b \in S \ {a} : RanksBefore(a, b)

\* One example of each kind; every cell has its own name.
SameEntry(a, b) == a = b \/ {a, b} \subseteq WirePlaces

\* A candidate is projected by the camera of the moment and kept clear of the
\* chips accepted so far, where they were when accepted.
Acceptable(a, c, covered, accepted) ==
  /\ OnScreen(a, c) /\ ~blocked(boxAt(a, c), covered) /\ boxAt(a, c) \cap accepted = {}
  /\ a = Region \/ pick(PlaceOf(a) - c, c) = a      \* seen

PlaceNext(p, c, covered) ==
  CHOOSE q \in {IF Acceptable(a, c, covered, p.accepted)
                   THEN [p EXCEPT !.todo = {b \in @ : ~SameEntry(a, b)}, !.chosen = Append(@, a),
                                  !.accepted = @ \cup boxAt(a, c)]
                   ELSE [p EXCEPT !.todo = @ \ {a}] : a \in {FirstOf(p.todo)}} : TRUE

Finished(p) == p.stage = "place" /\ p.todo = {}

\* The label part of annotate: a plan is dropped when the stamp changes, one
\* is begun when it is due, and a finished one hands over its anchors.  The
\* frame's budget allows one step or more; more are as many frames with
\* nothing between them.
Kept == IF Stamp # planStamp THEN NoPlan ELSE planner
PlanStep(c, covered) == IF Kept = NoPlan THEN Gathered(c) ELSE PlaceNext(planner, c, covered)
Plans == labelMode # "off" /\ (Kept # NoPlan \/ ~planWait \/ Stamp # planStamp)
Resumed(p, done) ==
  /\ planStamp' = Stamp
  /\ done = Finished(p)
  /\ IF done
       THEN /\ anchors' = p.chosen
            /\ labelled' = {p.chosen[i] : i \in DOMAIN p.chosen}
            /\ planner' = NoPlan /\ planWait' = TRUE
       ELSE planner' = p /\ UNCHANGED <<anchors, labelled, planWait>>
Planned(c, covered, done) == IF Plans THEN \E p \in {PlanStep(c, covered)} : Resumed(p, done)
                                      ELSE ~done /\ UNCHANGED planVars
\* The planner asks whether a candidate is blocked.
Asks(c) == Plans /\ Kept # NoPlan /\ OnScreen(FirstOf(planner.todo), c)

\* refreshOccluders, at the first who asks.
refreshOccluders == IF measured THEN UNCHANGED <<occluders, measured>>
                                ELSE occluders' = Panels /\ measured' = TRUE

Shows(a, c, covered) == /\ labelMode # "off" /\ (labelMode = "key" => a \notin WirePlaces)
                        /\ OnScreen(a, c) /\ ~Hidden(boxAt(a, c), covered)

\* Mistake: what the planner accepted is not checked again.
UpdateAsPlanned(list, c, covered) ==
  [i \in DOMAIN list |-> IF Shows(list[i], c, covered) THEN boxAt(list[i], c) ELSE {}]

\* update: the anchors' chips as the camera sees them, the first of two that
\* overlap.
update(list, c, covered) ==
  LET shown[i \in DOMAIN list] ==
        /\ Shows(list[i], c, covered)
        /\ \A j \in 1 .. i - 1 : shown[j] => boxAt(list[j], c) \cap boxAt(list[i], c) = {}
  IN  [i \in DOMAIN list |-> IF shown[i] THEN boxAt(list[i], c) ELSE {}]

\* Mistake: new anchors wait for the camera to move.
RedrawnOnMove(moved, done) == moved \/ labelsStale

\* Labels are placed when the camera has moved or they are new.
Redrawn(moved, done) == moved \/ labelsStale \/ done

\* The hover part of annotate: what the pointer is over, at most every 60 ms.
Hovers(c, moved) ==
  IF inside /\ ~dragging /\ flight' = 0 /\ pan = NoPan
    THEN IF (dirty \/ moved) /\ ~hoverWait
           THEN hover' = under(spot, c) /\ dirty' = FALSE /\ hoverWait' = TRUE
           ELSE UNCHANGED <<hover, dirty, hoverWait>>
    ELSE hover' = NothingHit /\ dirty' = FALSE /\ UNCHANGED hoverWait

\* A frame: the flight moves the camera, then annotate.
PointerFrame ==
  \E c \in Cameras :
    /\ IF flight > 0 THEN flight' = flight - 1 ELSE c = pose /\ UNCHANGED flight
    /\ pose' = c /\ lastPose' = c
    /\ Hovers(c, c # lastPose)
    /\ \E done \in BOOLEAN :
         /\ IF Asks(c) \/ Redrawn(c # lastPose, done) THEN refreshOccluders ELSE UNCHANGED <<occluders, measured>>
         /\ Planned(c, occluders', done)
         /\ IF Redrawn(c # lastPose, done)
              THEN boxes' = update(anchors', c, occluders') /\ placedUnder' = occluders'
              ELSE /\ boxes' = [i \in DOMAIN anchors' |-> IF i \in DOMAIN boxes THEN boxes[i] ELSE {}]
                   /\ UNCHANGED placedUnder
         /\ labelsStale' = FALSE
    /\ UNCHANGED <<sectionOn, presses, spot, inside, dragging, labelMode, panel, picked, drawn, inputs, changes>>

\* 60 ms pass; half a second; the planner's pause ends.
HoverDue == /\ hoverWait /\ hoverWait' = FALSE
            /\ UNCHANGED <<pose, flight, sectionOn, presses, pointer, hover, lastPose, labels, picked, drawn, inputs, changes>>
MeasureDue == /\ measured /\ measured' = FALSE
              /\ UNCHANGED <<pose, flight, sectionOn, presses, pointer, hovering, labelMode, planVars, boxes, labelsStale,
                             panel, occluders, placedUnder, picked, drawn, inputs, changes>>
PlanDue == /\ planWait /\ planWait' = FALSE
           /\ UNCHANGED <<pose, flight, sectionOn, presses, pointer, hovering, labelMode, planner, planStamp, labelled, anchors, boxes, labelsStale, panels, picked, drawn, inputs, changes>>

PointerNext ==
  \/ \E p \in Pointers, s \in PointerSpots :
       \/ \E button \in (IF p = "touch" THEN {0} ELSE 0 .. 2), modified \in BOOLEAN : onPointerDown(p, button, modified, s)
       \/ onPanMove(p, s) \/ onPointerMove(p, s) \/ onPointerUp(p, s)
  \/ \E p \in Pointers : onPointerCancel(p)
  \/ onPointerLeave \/ PressGrowsOld \/ onDoubleClick \/ Escape
  \/ setDragMode \/ setLabelMode \/ setSection \/ Stream
  \/ PanelRenders \/ PointerFrame \/ HoverDue \/ MeasureDue \/ PlanDue

PointerFairness ==
  /\ WF_pointerVars(PanelRenders) /\ WF_pointerVars(PointerFrame)
  /\ WF_pointerVars(HoverDue) /\ WF_pointerVars(MeasureDue) /\ WF_pointerVars(PlanDue)

PointerSpec == PointerInit /\ [][PointerNext]_pointerVars /\ PointerFairness
----------------------------------------------------------------------------
\* A press does one thing: one that moved the view selects nothing when it
\* ends, and none selects twice, though the host and the canvas both listen.
OnePressOneDeed == \A p \in Pointers : press[p].clicks <= 1 /\ (press[p].panned => press[p].clicks = 0)

\* The view is dragged by a pointer that is still pressed.
PanIsHeld == pan # NoPan => held[pan.pointer] # NotPressed

\* "Project, cull, de-overlap, and place the labels" (annotations.ts): no two
\* labels on the screen overlap, though the planner may have accepted them
\* under different cameras and panels, none passes the view's right edge, and
\* each was clear of the panels as they were measured when it was placed.  (The
\* left edge is the planner's alone, and a panel may open over a label.)
LabelsStandApart ==
  \A i, j \in DOMAIN boxes : /\ (i # j => boxes[i] \cap boxes[j] = {})
                              /\ ~Hidden(boxes[i], placedUnder)

\* onPanEnd, onCanvasUp and update together: whatever is pressed, dragged,
\* cancelled and planned, a press does one thing, a drag ends with its press,
\* and the chips stand apart.
PointerIsSound == PointerTypeOK /\ OnePressOneDeed /\ PanIsHeld /\ LabelsStandApart

\* A candidate that a plan of the present would accept.
Labellable(a) == OnScreen(a, pose) /\ ~blocked(boxAt(a, pose), Panels) /\ (a = Region => ~sectionOn)

\* Left alone, the labels are of what is drawn, the planner's are all on the
\* screen, none at its edge or under the panels that are really there, and
\* none is missing where everything could be labelled; with labels off there
\* are none.
LabelsRest ==
  /\ \A i \in DOMAIN boxes : boxes[i] \cap Panels = {}
  /\ \A i \in DOMAIN anchors : labelMode # "off" => (anchors[i] \in drawn \cup {Region} /\ Labellable(anchors[i]))
  /\ labelMode = "all" => \A i \in DOMAIN boxes : boxes[i] # {}
  /\ labelMode = "off" => \A i \in DOMAIN boxes : boxes[i] = {}
  /\ (labelMode # "off" /\ anchors = <<>>) => \A a \in drawn \cup {Region} : ~Labellable(a)

\* A pointer that is away, pressed or dragging leaves no read-out behind.
HoverRests == (~inside \/ dragging \/ pan # NoPan) => hover = NothingHit
=============================================================================

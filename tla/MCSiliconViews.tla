---------------------------- MODULE MCSiliconViews ----------------------------
(***************************************************************************)
(* The two silicon viewers' engines, small: the layout's tile streaming    *)
(* (part "stream"), the model's chunks, section and labels ("strip"), the  *)
(* camera of both ("camera"), the layout's pointer and labels ("pointer"), *)
(* and the life of the engines behind the page that shows them ("views").  *)
(* The parts share no state, so a behaviour is of one of them and the      *)
(* others stay as they began.                                              *)
(***************************************************************************)
EXTENDS LayoutStream, SiliconViews, LayoutPointer

CONSTANTS n1, c1

VARIABLES
  part,
  camera, zoomStop, ages, caps, cutOn, cut, capEps, staticCaps, lastCamera,
  readOut, readOutWait, pointed, mouse, shownMode, labelPlan, pause, labelStamp,
  label, streamed, cameraMoves, switches,
  engine, cameraFlight, enabled, impulse, anchor, cameraPan, cameraCut, focusY, freeY, stop,
  orbitY, craterOn, sideways, unreported, cameraInputs

stripVars ==
  <<camera, zoomStop, ages, caps, cutOn, cut, capEps, staticCaps, lastCamera,
    readOut, readOutWait, pointed, mouse, shownMode, labelPlan, pause, labelStamp,
    label, streamed, cameraMoves, switches>>
flightVars ==
  <<engine, cameraFlight, enabled, impulse, anchor, cameraPan, cameraCut, focusY, freeY,
    stop, orbitY, craterOn, sideways, unreported, cameraInputs>>
partsVars == <<part, vars, stripVars, flightVars, viewsVars, pointerVars>>

\* Two tiles 0.2 mm wide, with something in both, looked at close up from
\* over either of them: the full chunk and the cells of the tile below the
\* camera, the coarse chunk of the one beside it.  One net over both, one cell
\* in the second.
AllTiles == 0 .. 1
TwoViews == {<<1000, 500>>, <<3000, 500>>}
FirstTile == {0}
OneNet == {n1}
BothTiles == n1 :> <<0, 1>>
OneCell == {c1}
TheSecond == c1 :> 1

\* Two levels of a strip, looked at from over one end, from afar and close
\* up, and from the other end and side.
Strip == INSTANCE MacroStream WITH
  Streamed <- {3, 4}, DieWidth <- 30,
  MacroViews <- {[x |-> 5, distance |-> 200, facing |-> 1],
                 [x |-> 5, distance |-> 40, facing |-> 1],
                 [x |-> 25, distance |-> 30, facing |-> -1]},
  SnapPitch <- 4, EvictAfter <- 1, PlanFrames <- 1, PointerStarts <- {"away"},
  MaxCameraMoves <- 2, MaxSwitches <- 1,
  hover <- readOut, hoverWait <- readOutWait, dirty <- pointed, pointer <- mouse, labelMode <- shownMode,
  planner <- labelPlan, planWait <- pause, planStamp <- labelStamp

Camera == INSTANCE ViewCamera WITH
  FlightFrames <- 2, MaxInputs <- 3,
  flight <- cameraFlight, pan <- cameraPan, sectionOn <- cameraCut, inputs <- cameraInputs

\* The pointer's row: a cell and two wires, of which the last is named past the
\* right edge of the first camera's view, and the spots the pointers go to.
RowOfWires == {3, 4}
CellBefore == {2}
TwoSpots == {1, 3}

ASSUME Camera!CameraAssumption /\ ViewsAssumption /\ PointerAssumption

Parts == {"stream", "strip", "camera", "views", "pointer"}

PartsInit == /\ part \in Parts
             /\ Init /\ Strip!MacroInit /\ Camera!CameraInit /\ ViewsInit /\ PointerInit
             /\ part # "stream" => view = <<1000, 500>>
             /\ part # "camera" => engine = "model"

Only(p) == /\ part = p /\ UNCHANGED part
           /\ IF p = "stream" THEN TRUE ELSE UNCHANGED vars
           /\ IF p = "strip" THEN TRUE ELSE UNCHANGED stripVars
           /\ IF p = "camera" THEN TRUE ELSE UNCHANGED flightVars
           /\ IF p = "views" THEN TRUE ELSE UNCHANGED viewsVars
           /\ IF p = "pointer" THEN TRUE ELSE UNCHANGED pointerVars

PartsNext == \/ Only("stream") /\ Next
             \/ Only("strip") /\ Strip!MacroNext
             \/ Only("camera") /\ Camera!CameraNext
             \/ Only("views") /\ ViewsNext
             \/ Only("pointer") /\ PointerNext

\* The fairness of each part's own specification.
PartsFairness ==
  /\ WF_vars(part = "stream" /\ stream)
  /\ \A k \in Keys : WF_vars(part = "stream" /\ \E came \in BOOLEAN : Settle(k, came))
  /\ \A x \in Chunks : WF_vars(part = "stream" /\ \E came \in BOOLEAN : ChunkSettles(x, came))
  /\ \A t \in 1 .. MaxSelections : WF_vars(part = "stream" /\ Task(t))
  /\ WF_stripVars(part = "strip" /\ Strip!MacroFrame)
  /\ WF_flightVars(part = "camera" /\ Camera!CameraFrame)
  /\ WF_flightVars(part = "camera" /\ Camera!Report)
  /\ WF_viewsVars(part = "views" /\ ReadyRender)
  /\ \A m \in 1 .. 2 : WF_viewsVars(part = "views" /\ Loading(m))
  /\ WF_pointerVars(part = "pointer" /\ PanelRenders)
  /\ WF_pointerVars(part = "pointer" /\ PointerFrame)
  /\ WF_pointerVars(part = "pointer" /\ HoverDue)
  /\ WF_pointerVars(part = "pointer" /\ MeasureDue)
  /\ WF_pointerVars(part = "pointer" /\ PlanDue)

PartsSpec == PartsInit /\ [][PartsNext]_partsVars /\ PartsFairness
-----------------------------------------------------------------------------
\* The model shows no cut face without a section.  Once the camera rests, the
\* scene is complete: every tile or chunk of the windows is built, cut by the
\* plane in use, the labels name what is drawn, and every selection that stays
\* is answered in full.
SceneCatchesUp ==
  /\ [](TypeOK /\ Strip!MacroTypeOK /\ Strip!NoCapsWithoutACut)
  /\ <>[](part = "stream" => WindowFilled /\ SelectionsAnswered)
  /\ <>[](part = "strip" => Strip!ResidencySettled /\ Strip!CapsCaughtUp /\ Strip!LabelsCaughtUp)
  /\ <>[](part = "pointer" => LabelsRest /\ HoverRests)

\* Dragging and rotating work exactly while no flight runs.  Left alone, the
\* camera comes to rest where there is something to see, and a view becomes
\* ready or says why it does not.
ViewsComeToRest ==
  /\ [](ViewsTypeOK /\ Camera!CameraTypeOK /\ Camera!ControlsFollowFlights)
  /\ <>[](part = "camera" => Camera!Rested)
  /\ <>[](part = "views" => ViewIsReady)
=============================================================================

----------------------------- MODULE ViewCamera -----------------------------
(***************************************************************************)
(* The camera of the two silicon engines (silicon/engine.ts, the model,    *)
(* and silicon/layout-engine.ts, the layout): flights, wheel zooms about   *)
(* the cursor, drags that move the view, the cross-section, and the rule   *)
(* that settles the orbit target on the layer in view.                     *)
(*                                                                         *)
(* Abstractions: a distance is the stop it falls in, far (1) or near (2);  *)
(* a height is one of three, the far stop's layer above the crater's floor *)
(* above the near stop's layer; easing goes one height per frame; a flight *)
(* lasts FlightFrames frames and a wheel step's impulse one; horizontal    *)
(* positions and angles are left out but for whether the camera looks      *)
(* along the layers (sideways) or across them.                             *)
(***************************************************************************)
EXTENDS Naturals

CONSTANTS
  FlightFrames, \* frames a flight lasts
  MaxInputs     \* bound: things the user does

CameraAssumption == FlightFrames \in Nat \ {0} /\ MaxInputs \in Nat

Stops == {1, 2}
Heights == 0 .. 2
None == 99
layer == [s \in Stops |-> IF s = 1 THEN 2 ELSE 0]  \* stop.targetY
CraterFloor == 1                                   \* the near stop's crater

VARIABLES
  engine,      \* whose engine: "model" or "layout"
  flight,      \* frames left, the stop it ends at and the height it flies to
  enabled,     \* controls.enabled
  impulse,     \* zoomImpulse: the stop it takes the camera to, or None
  anchor,      \* zoomAnchor: the height of the point under the cursor
  pan,         \* a drag that moves the view: "none", "held" or "moved"
  sectionOn,
  focusY,      \* sectionFocusY
  freeY,       \* model: the user has set the height by hand
  stop, orbitY,
  craterOn,    \* what is above the layer in view is cut away
  sideways,    \* the camera looks along the layers
  unreported,  \* gestures since the last report, up to 2
  inputs

motion == <<flight, enabled, impulse, anchor, pan>>
place == <<sectionOn, focusY, freeY, stop, orbitY, craterOn, sideways>>
cameraVars == <<engine, motion, place, unreported, inputs>>

NoFlight == [left |-> 0, stop |-> 1, height |-> None]
Flying == flight # NoFlight

CameraTypeOK ==
  /\ engine \in {"model", "layout"}
  /\ flight \in [left : 0 .. FlightFrames, stop : Stops, height : Heights \cup {None}]
  /\ {enabled, sectionOn, freeY, craterOn, sideways} \subseteq BOOLEAN
  /\ impulse \in Stops \cup {None} /\ anchor \in Heights \cup {None}
  /\ pan \in {"none", "held", "moved"}
  /\ focusY \in Heights \cup {None} /\ orbitY \in Heights /\ stop \in Stops
  /\ unreported \in 0 .. 2 /\ inputs \in 0 .. MaxInputs

CameraInit ==
  /\ engine \in {"model", "layout"}
  /\ flight = NoFlight /\ enabled = TRUE /\ impulse = None /\ anchor = None
  /\ pan = "none" /\ sectionOn = FALSE /\ focusY = None /\ freeY = FALSE
  /\ stop = 1 /\ orbitY = layer[1] /\ craterOn = FALSE /\ sideways = FALSE
  /\ unreported = 0 /\ inputs = 0
----------------------------------------------------------------------------
\* flyTo: without a height, the layout flies to the layer of the stop it
\* ends at; the model leaves the height to the camera rules.
flyTo(s, height) ==
  LET h == IF height = None /\ engine = "layout" THEN layer[s] ELSE height
  IN  /\ flight' = [left |-> FlightFrames, stop |-> s, height |-> h]
      /\ freeY' = (engine = "model" /\ h # None)
      /\ impulse' = None /\ anchor' = None
      /\ enabled' = FALSE

\* Mistake: the controls stay disabled.
cancelFlightOnly == flight' = NoFlight /\ UNCHANGED enabled

cancelFlight ==
  /\ flight' = NoFlight
  /\ enabled' = IF Flying THEN TRUE ELSE enabled

Toward(a, b) == IF a < b THEN a + 1 ELSE IF a > b THEN a - 1 ELSE a

noteGesture == unreported' = IF unreported = 2 THEN 2 ELSE unreported + 1

Input == inputs < MaxInputs /\ inputs' = inputs + 1 /\ UNCHANGED engine
----------------------------------------------------------------------------
\* What the user does.

\* Heights of what may lie under the cursor: a hit on the geometry, or where
\* the ray meets a plane, which is there at any of them.
pointsUnder == Heights

\* A wheel step over the view, about the point under the cursor.
onWheel ==
  /\ Input
  /\ cancelFlight
  /\ impulse' \in Stops
  /\ anchor' \in pointsUnder
  /\ noteGesture
  /\ UNCHANGED <<pan, place>>

\* A double click dives to the point under the cursor (or, with Shift,
\* backs out).  The model keeps that point's height if seen from the side.
onDoubleClick ==
  /\ Input
  /\ \E point \in pointsUnder, s \in Stops :
       /\ flyTo(s, IF engine = "model" /\ sideways /\ ~sectionOn THEN point ELSE None)
       /\ focusY' = IF sectionOn THEN point ELSE focusY
  /\ noteGesture
  /\ UNCHANGED <<pan, sectionOn, stop, orbitY, craterOn, sideways>>

\* A press cancels the flight; one that wants to move the view begins a
\* drag, any other goes on to the orbit controls.
onPointerDown ==
  /\ Input
  /\ cancelFlight
  /\ \/ pan = "none" /\ pan' = "held" /\ anchor' = None
     \/ UNCHANGED <<pan, anchor>>
  /\ UNCHANGED <<impulse, place, unreported>>

\* onPanMove: the grabbed point stays under the cursor, at another height
\* where the drag runs parallel to the screen.
onPanMove ==
  /\ Input
  /\ pan # "none"
  /\ pan' = "moved"
  /\ \/ UNCHANGED <<orbitY, freeY>>
     \/ /\ sideways
        /\ orbitY' \in Heights \ {orbitY}
        /\ freeY' = (engine = "model")
  /\ UNCHANGED <<flight, enabled, impulse, anchor, sectionOn, focusY, stop, craterOn, sideways, unreported>>

\* The button is let go, or the pointer is cancelled.
onPanEnd ==
  /\ pan # "none"
  /\ pan' = "none"
  /\ noteGesture \/ (pan = "held" /\ UNCHANGED unreported) \* a click
  /\ UNCHANGED <<engine, flight, enabled, impulse, anchor, place, inputs>>

\* A drag of the orbit controls, which take none while they are disabled.
Rotate ==
  /\ Input
  /\ enabled
  /\ sideways' \in BOOLEAN
  /\ anchor' = None
  /\ noteGesture
  /\ UNCHANGED <<flight, enabled, impulse, pan, sectionOn, focusY, freeY, stop, orbitY, craterOn>>

\* + and -: a zoom at the centre.
onKeyDown ==
  /\ Input
  /\ cancelFlight
  /\ anchor' = None
  /\ impulse' \in Stops
  /\ noteGesture
  /\ UNCHANGED <<pan, place>>

\* The toolbar and the zoom ladder: fly to a scale.
FlyToPreset ==
  /\ Input
  /\ \E s \in Stops : /\ flyTo(s, None)
                      /\ focusY' = IF sectionOn THEN layer[s] ELSE focusY
  /\ UNCHANGED <<pan, sectionOn, stop, orbitY, craterOn, sideways, unreported>>

zoomToSelection ==
  /\ Input
  /\ \E s \in Stops, h \in Heights :
       flyTo(s, IF engine = "model" /\ sectionOn THEN None ELSE h)
  /\ UNCHANGED <<pan, sectionOn, focusY, stop, orbitY, craterOn, sideways, unreported>>

\* Switching the cross-section on turns the camera to face the cut, level
\* with the stack.
setSection ==
  /\ Input
  /\ sectionOn' = ~sectionOn
  /\ IF sectionOn
       THEN /\ focusY' = None
            /\ freeY' = FALSE
            /\ UNCHANGED <<flight, enabled, impulse, anchor>>
       ELSE /\ flyTo(stop, None)
            /\ focusY' = layer[stop]
  /\ UNCHANGED <<pan, stop, orbitY, craterOn, sideways, unreported>>

\* Gestures are reported once per burst.
Report ==
  /\ unreported > 0
  /\ unreported' = 0
  /\ UNCHANGED <<engine, motion, place, inputs>>
----------------------------------------------------------------------------
\* A frame: the flight or the wheel's impulse moves the camera, then the
\* camera rules.

Stranded == craterOn /\ orbitY > CraterFloor

\* The height the target eases to after the frame's move to y.  The model's
\* is left alone where the user has set it by hand, but for one above the
\* crater's cleared void; the layout's where the view looks along the layers.
modelFocus(y, free) ==
  IF sectionOn THEN focusY'
  ELSE IF free /\ ~(craterOn /\ y > CraterFloor) THEN None ELSE layer[stop']

layoutFocus ==
  IF sectionOn THEN focusY' ELSE IF sideways THEN None ELSE layer[stop']

\* constrain; a flight of the layout carries the target itself.
constrain(y, free) ==
  LET focus == IF engine = "model" THEN modelFocus(y, free) ELSE layoutFocus
  IN  /\ orbitY' = IF focus = None \/ (engine = "layout" /\ flight' # NoFlight)
                      THEN y ELSE Toward(y, focus)
      /\ craterOn' = (stop' = 2 /\ ~sectionOn)

\* stepFlight; its last step clears the section's focus.
FlightFrame ==
  /\ Flying
  /\ IF flight.left = 1
       THEN /\ cancelFlight
            /\ stop' = flight.stop
            /\ focusY' = None
            /\ constrain(IF flight.height = None THEN orbitY ELSE flight.height, freeY)
       ELSE /\ flight' = [flight EXCEPT !.left = @ - 1]
            /\ UNCHANGED <<enabled, stop, focusY>>
            /\ constrain(IF flight.height = None THEN orbitY ELSE Toward(orbitY, flight.height), freeY)
  /\ UNCHANGED <<engine, impulse, anchor, pan, sectionOn, freeY, sideways, unreported, inputs>>

\* zoomAbout: camera and target are scaled about the anchor, which moves the
\* target's height unless the anchor lies level with it.
FreeFrame ==
  /\ ~Flying
  /\ impulse' = None
  /\ UNCHANGED <<engine, flight, enabled, anchor, pan, sectionOn, focusY, sideways, unreported, inputs>>
  /\ IF impulse = None
       THEN /\ UNCHANGED <<freeY, stop>>
            /\ constrain(orbitY, freeY)
       ELSE LET level == anchor \in {None, orbitY}
            IN  /\ freeY' = (freeY \/ (engine = "model" /\ ~level))
                /\ stop' = impulse
                /\ \E y \in Heights : /\ y = orbitY \/ (~level /\ y \in {orbitY - 1, orbitY + 1})
                                      /\ constrain(y, freeY')
  /\ <<impulse, orbitY, craterOn>>' # <<impulse, orbitY, craterOn>>

CameraFrame == FlightFrame \/ FreeFrame

CameraNext == onWheel \/ onDoubleClick \/ onPointerDown \/ onPanMove \/ onPanEnd \/ Rotate
          \/ onKeyDown \/ FlyToPreset \/ zoomToSelection \/ setSection
          \/ Report \/ CameraFrame

CameraFairness == WF_cameraVars(CameraFrame) /\ WF_cameraVars(Report)

CameraSpec == CameraInit /\ [][CameraNext]_cameraVars /\ CameraFairness
----------------------------------------------------------------------------
\* Dragging and rotating work exactly while no flight runs, whichever event
\* started, replaced or cancelled it.
ControlsFollowFlights == enabled = ~Flying

\* Left alone, the camera comes to rest on the layer in view, at the height
\* the user set, or (the layout) as it is when seen from the side; in the
\* model "zooming deeper never gets stranded looking at empty space"
\* (engine.ts, in constrain).
Rested == /\ ~Flying /\ impulse = None
          /\ \/ sectionOn
             \/ orbitY = layer[stop]
             \/ engine = "model" /\ freeY /\ ~Stranded
             \/ engine = "layout" /\ sideways
=============================================================================

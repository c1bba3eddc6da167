---------------------------- MODULE SiliconViews ----------------------------
(***************************************************************************)
(* The Silicon macro view's two 3-D views and their engines, from mounting *)
(* to teardown: components/SiliconMacroView.tsx (the model),               *)
(* SiliconLayoutView.tsx (the A1 layout), silicon/engine.ts and            *)
(* silicon/layout-engine.ts.                                               *)
(*                                                                         *)
(* A view imports its engine, waits for a painted frame, and starts it in  *)
(* a task of its own.  The engine builds in stages, one task or one answer *)
(* of the network after another; a view that is left in between must stop  *)
(* it at its next stage and give back every GPU object it made.  Tearing a *)
(* WebGL context down is slow, so it too runs in a task of its own.        *)
(*                                                                         *)
(* Abstractions: a mount is one opening of a view; the GPU objects are     *)
(* named by the part of the code that makes and owns them; the page's      *)
(* settings (flows, bloom, section, spin, labels, drag mode, overlays) are *)
(* one on/off setting.  setTimeout(_, 0) tasks of a click and of a painted *)
(* frame run in the order they were set; the build's own, which browsers   *)
(* clamp, in any order.                                                    *)
(***************************************************************************)
EXTENDS Naturals, FiniteSets, SequencesExt

CONSTANTS
  MaxMounts,     \* bound: views opened
  MaxFailures,   \* bound: imports, constructors, stages and answers that fail
  MaxToggles     \* bound: changes of the page's setting

ViewsAssumption ==
  MaxMounts \in Nat \ {0} /\ MaxFailures \in Nat /\ MaxToggles \in Nat

Mounts == 1 .. MaxMounts
Kinds == {"model", "layout"}

VARIABLES
  shown,     \* the mount on the page, 0 if another view is
  used,      \* mounts opened so far
  kind,      \* what each mount shows
  phase,     \* how far its mount effect is
  stage,     \* its engine's build: the stage to run next
  waits,     \* what the build awaits before it
  disposed,  \* the engine's flag
  torn,      \* its GPU teardown has run
  live,      \* GPU objects made and not freed
  overlay,   \* layout: the optional overlay's load
  lost,      \* its WebGL context was lost
  sent,      \* onReady was called
  ready,     \* the shown view's state of that name
  error,     \* it shows an error
  setting,   \* its setting
  applied,   \* each engine's copy of it
  timers,    \* the zero timers set, oldest first
  failures, toggles

build == <<stage, waits, live, overlay, lost, sent>>
viewState == <<ready, error, setting, applied>>
viewsVars == <<shown, used, kind, phase, disposed, torn, build, viewState, timers, failures, toggles>>
----------------------------------------------------------------------------
\* What the builds are made of: each stage makes its objects, then awaits.

\* Before build(): the renderer, and what needs no task of its own.
Created == [k \in Kinds |->
              {"renderer", "backdrop", "materials", "unit meshes"} \cup
              (IF k = "layout" THEN {"outlines"} ELSE {"inspector"})]

Stage(makes, awaits) == [makes |-> makes, awaits |-> awaits]

LayoutStages == <<
  Stage({"environment"}, "fetch"),     \* the manifest
  Stage({}, "task"),                   \* its stops and presets
  Stage({}, "fetch"),                  \* the tile-wide routing and the library
  Stage({}, "task"),                   \* decoded
  Stage({"global chunks"}, "fetch"),   \* the overview textures
  Stage({"textures", "substrate", "io bars"}, "task"),
  Stage({"post"}, "task"),             \* every program queued
  Stage({}, "programs") >>

SiliconStages == <<
  Stage({"environment"}, "task"),
  Stage({"die", "package", "textures"}, "task"),
  Stage({}, "task"),                   \* the textures uploaded, one per task
  Stage({"global chunks", "package wiring"}, "task"),
  Stage({"post"}, "task"),
  Stage({}, "programs") >>

BuildStages == [k \in Kinds |-> IF k = "layout" THEN LayoutStages ELSE SiliconStages]

Objects == UNION {Created[k] : k \in Kinds} \cup {"overlay", "caps"}
             \cup UNION {BuildStages[k][i].makes : k \in Kinds, i \in 1 .. 6} \cup {"post"}

Awaits == {"nothing", "task", "fetch", "programs", "frames", "over"}
Phases == {"none", "importing", "frame", "timer", "engine", "failed"}
Timer(task, m) == [task |-> task, mount |-> m]

ViewsTypeOK ==
  /\ shown \in 0 .. MaxMounts /\ used \in 0 .. MaxMounts
  /\ kind \in [Mounts -> Kinds] /\ phase \in [Mounts -> Phases]
  /\ stage \in [Mounts -> 0 .. 9] /\ waits \in [Mounts -> Awaits]
  /\ live \in [Mounts -> SUBSET Objects]
  /\ overlay \in [Mounts -> {"none", "loading", "shown"}]
  /\ {disposed, torn, lost, sent, applied} \subseteq [Mounts -> BOOLEAN]
  /\ {ready, error, setting} \subseteq BOOLEAN
  /\ ToSet(timers) \subseteq [task : {"start", "dispose", "teardown"}, mount : Mounts]
  /\ failures \in 0 .. MaxFailures /\ toggles \in 0 .. MaxToggles

ViewsInit ==
  /\ shown = 0 /\ used = 0 /\ timers = <<>> /\ failures = 0 /\ toggles = 0
  /\ kind = [m \in Mounts |-> "model"]
  /\ phase = [m \in Mounts |-> "none"]
  /\ stage = [m \in Mounts |-> 0]
  /\ waits = [m \in Mounts |-> "nothing"]
  /\ live = [m \in Mounts |-> {}]
  /\ overlay = [m \in Mounts |-> "none"]
  /\ disposed = [m \in Mounts |-> FALSE] /\ torn = disposed /\ lost = disposed
  /\ sent = disposed /\ applied = disposed
  /\ ready = FALSE /\ error = FALSE /\ setting = FALSE

Fails == failures < MaxFailures /\ failures' = failures + 1
\* Setting the state of a view that has been unmounted changes nothing.
ShowsError(m) == error' = (error \/ m = shown)
----------------------------------------------------------------------------
\* The page.

\* The mount effect's clean-up: the flag, the pending frame and timer, then
\* the engine.  The layout's dispose() stops it at once and defers the GPU
\* teardown; the model's is deferred whole.
CleanUp(m) ==
  IF phase[m] = "engine"
    THEN /\ disposed' = [disposed EXCEPT ![m] = kind[m] = "layout"]
         /\ timers' = Append(timers, Timer(IF kind[m] = "layout" THEN "teardown" ELSE "dispose", m))
    ELSE /\ timers' = RemoveFirst(timers, Timer("start", m))
         /\ UNCHANGED disposed

LeftPhase(m) == IF phase[m] \in {"frame", "timer"} THEN "none" ELSE phase[m]

\* The page opens another of its views: the Silicon one is left.
Leave ==
  /\ shown # 0
  /\ CleanUp(shown)
  /\ phase' = [phase EXCEPT ![shown] = LeftPhase(shown)]
  /\ shown' = 0
  /\ UNCHANGED <<used, kind, torn, build, viewState, failures, toggles>>

Mount(k) == \* with its mount effect: the engine's module is imported
  /\ used < MaxMounts
  /\ used' = used + 1
  /\ shown' = used + 1
  /\ kind' = [kind EXCEPT ![used + 1] = k]
  /\ ready' = FALSE /\ error' = FALSE /\ setting' = FALSE

\* It opens the Silicon view, which starts with the model.
Open ==
  /\ shown = 0
  /\ Mount("model")
  /\ phase' = [phase EXCEPT ![used + 1] = "importing"]
  /\ UNCHANGED <<disposed, torn, build, applied, timers, failures, toggles>>

\* SourceSwitch: the other view replaces this one in one commit, the old
\* one's clean-up before the new one's effect.
SwitchSource ==
  /\ shown # 0
  /\ \E k \in Kinds \ {kind[shown]} : Mount(k)
  /\ CleanUp(shown)
  /\ phase' = [phase EXCEPT ![shown] = LeftPhase(shown), ![used + 1] = "importing"]
  /\ UNCHANGED <<torn, build, applied, failures, toggles>>

\* A control of the view's toolbar; its effect reaches the engine if there is one.
Toggle ==
  /\ shown # 0 /\ toggles < MaxToggles
  /\ toggles' = toggles + 1
  /\ setting' = ~setting
  /\ applied' = IF phase[shown] = "engine"
                  THEN [applied EXCEPT ![shown] = setting'] ELSE applied
  /\ UNCHANGED <<shown, used, kind, phase, disposed, torn, build, ready, error, timers, failures>>

\* setReady has been called: the next render runs every setting's effect again.
ReadyRender ==
  /\ shown # 0 /\ sent[shown] /\ ~ready
  /\ ready' = TRUE
  /\ applied' = [applied EXCEPT ![shown] = setting]
  /\ UNCHANGED <<shown, used, kind, phase, disposed, torn, build, error, setting, timers, failures, toggles>>
----------------------------------------------------------------------------
\* The mount effect, after the import.

Imported(m) ==
  /\ phase[m] = "importing"
  /\ phase' = [phase EXCEPT ![m] = IF m = shown THEN "frame" ELSE "none"]
  /\ UNCHANGED <<shown, used, kind, disposed, torn, build, viewState, timers, failures, toggles>>

ImportFails(m) ==
  /\ phase[m] = "importing" /\ Fails
  /\ phase' = [phase EXCEPT ![m] = "failed"]
  /\ ShowsError(m)
  /\ UNCHANGED <<shown, used, kind, disposed, torn, build, ready, setting, applied, timers, toggles>>

Painted(m) ==
  /\ phase[m] = "frame"
  /\ phase' = [phase EXCEPT ![m] = "timer"]
  /\ timers' = Append(timers, Timer("start", m))
  /\ UNCHANGED <<shown, used, kind, disposed, torn, build, viewState, failures, toggles>>

IsNext(task, m) == timers # <<>> /\ Head(timers) = Timer(task, m) /\ timers' = Tail(timers)

\* createSiliconEngine, createLayoutEngine: the engine, its build under way.
Start(m) ==
  /\ IsNext("start", m)
  /\ phase' = [phase EXCEPT ![m] = "engine"]
  /\ live' = [live EXCEPT ![m] = Created[kind[m]]]
  /\ stage' = [stage EXCEPT ![m] = 1]
  /\ waits' = [waits EXCEPT ![m] = "task"]
  /\ UNCHANGED <<shown, used, kind, disposed, torn, overlay, lost, sent, viewState, failures, toggles>>

\* No WebGL 2: the constructor throws into the timer's handler.
StartFails(m) ==
  /\ IsNext("start", m) /\ Fails
  /\ phase' = [phase EXCEPT ![m] = "failed"]
  /\ ShowsError(m)
  /\ UNCHANGED <<shown, used, kind, disposed, torn, build, ready, setting, applied, toggles>>
----------------------------------------------------------------------------
\* The engine.

Running(m) == phase[m] = "engine" /\ ~lost[m]

\* Mistake: the build does not look whether the engine was disposed.
AdvanceDisposed(m) ==
  /\ LET s == BuildStages[kind[m]][stage[m]]
     IN  /\ live' = [live EXCEPT ![m] = @ \cup s.makes]
         /\ waits' = [waits EXCEPT ![m] = s.awaits]
         /\ stage' = [stage EXCEPT ![m] = @ + 1]
  /\ UNCHANGED <<shown, used, kind, phase, disposed, torn, overlay, lost, sent, viewState, timers, failures, toggles>>

\* A build that goes on: the next stage, unless the engine was disposed
\* while it waited.
Advance(m) ==
  /\ \/ /\ disposed[m]
        /\ waits' = [waits EXCEPT ![m] = "over"]
        /\ stage' = [stage EXCEPT ![m] = 0]
        /\ UNCHANGED live
     \/ /\ ~disposed[m]
        /\ LET s == BuildStages[kind[m]][stage[m]]
           IN  /\ live' = [live EXCEPT ![m] = @ \cup s.makes]
               /\ waits' = [waits EXCEPT ![m] = s.awaits]
               /\ stage' = [stage EXCEPT ![m] = @ + 1]
  /\ UNCHANGED <<shown, used, kind, phase, disposed, torn, overlay, lost, sent, viewState, timers, failures, toggles>>

NextTask(m) == waits[m] = "task" /\ Advance(m)
FetchAnswers(m) == waits[m] = "fetch" /\ Advance(m)

\* Mistake: a build that fails tells nobody.
BuildFailsSilently(m) ==
  /\ waits[m] \in {"task", "fetch"} /\ Fails
  /\ waits' = [waits EXCEPT ![m] = "over"]
  /\ stage' = [stage EXCEPT ![m] = 0]
  /\ UNCHANGED <<shown, used, kind, phase, disposed, torn, live, overlay, lost, sent, ready, error, setting, applied, timers, toggles>>

\* A fetch is refused, or a stage throws: the page hears of it, unless
\* the engine was disposed.
BuildFails(m) ==
  /\ waits[m] \in {"task", "fetch"} /\ Fails
  /\ waits' = [waits EXCEPT ![m] = "over"]
  /\ stage' = [stage EXCEPT ![m] = 0]
  /\ error' = (error \/ (m = shown /\ ~disposed[m]))
  /\ UNCHANGED <<shown, used, kind, phase, disposed, torn, live, overlay, lost, sent, ready, setting, applied, timers, toggles>>

\* The programs have linked, one task each, or the wait for them timed out:
\* the first frame is asked for.
ProgramsLinked(m) ==
  /\ waits[m] = "programs"
  /\ waits' = [waits EXCEPT ![m] = IF disposed[m] THEN "over" ELSE "frames"]
  /\ UNCHANGED <<shown, used, kind, phase, disposed, torn, stage, live, overlay, lost, sent, viewState, timers, failures, toggles>>

\* One frame: what is drawn, the section's caps with it, and the first
\* frame tells the page.  Nothing is drawn after the context is lost, and
\* dispose() cancels the next frame.
Frame(m) ==
  /\ waits[m] = "frames" /\ Running(m) /\ ~disposed[m]
  /\ sent' = [sent EXCEPT ![m] = TRUE]
  /\ live' = [live EXCEPT ![m] = IF applied[m] THEN @ \cup {"caps"} ELSE @ \ {"caps"}]
  /\ overlay' = [overlay EXCEPT ![m] = IF kind[m] = "layout" /\ applied[m] /\ @ = "none"
                                         THEN "loading" ELSE @]
  /\ <<sent, live, overlay>>' # <<sent, live, overlay>>
  /\ UNCHANGED <<shown, used, kind, phase, disposed, torn, stage, waits, lost, viewState, timers, failures, toggles>>

\* ensureClockTree, ensurePath: an optional overlay arrives, into the scene
\* unless the engine was disposed meanwhile.
OverlayArrives(m) ==
  /\ overlay[m] = "loading"
  /\ overlay' = [overlay EXCEPT ![m] = IF disposed[m] THEN "none" ELSE "shown"]
  /\ live' = [live EXCEPT ![m] = IF disposed[m] THEN @ ELSE @ \cup {"overlay"}]
  /\ UNCHANGED <<shown, used, kind, phase, disposed, torn, stage, waits, lost, sent, viewState, timers, failures, toggles>>

\* It does not: the next frame asks again, and the slowest path's failure
\* is shown to the page.
OverlayFails(m) ==
  /\ overlay[m] = "loading" /\ Fails
  /\ overlay' = [overlay EXCEPT ![m] = "none"]
  /\ ShowsError(m) \/ UNCHANGED error
  /\ UNCHANGED <<shown, used, kind, phase, disposed, torn, stage, waits, live, lost, sent, ready, setting, applied, timers, toggles>>

LoseContext(m) ==
  /\ Running(m) /\ ~disposed[m] /\ Fails
  /\ lost' = [lost EXCEPT ![m] = TRUE]
  /\ ShowsError(m)
  /\ UNCHANGED <<shown, used, kind, phase, disposed, torn, stage, waits, live, overlay, sent, ready, setting, applied, timers, toggles>>

Freed(m) == /\ live' = [live EXCEPT ![m] = {}]
            /\ torn' = [torn EXCEPT ![m] = TRUE]

\* The model's dispose(), in its timer.
Dispose(m) ==
  /\ IsNext("dispose", m)
  /\ disposed' = [disposed EXCEPT ![m] = TRUE]
  /\ Freed(m)
  /\ UNCHANGED <<shown, used, kind, phase, stage, waits, overlay, lost, sent, viewState, failures, toggles>>

\* The timer of the layout's dispose().
TearDown(m) ==
  /\ IsNext("teardown", m)
  /\ Freed(m)
  /\ UNCHANGED <<shown, used, kind, phase, disposed, stage, waits, overlay, lost, sent, viewState, failures, toggles>>
----------------------------------------------------------------------------
Page == Open \/ Leave \/ SwitchSource \/ Toggle

Loading(m) == Imported(m) \/ Painted(m) \/ Start(m) \/ NextTask(m) \/ FetchAnswers(m)
                \/ ProgramsLinked(m) \/ Frame(m) \/ OverlayArrives(m)
                \/ Dispose(m) \/ TearDown(m)

Breaking(m) == ImportFails(m) \/ StartFails(m) \/ BuildFails(m) \/ OverlayFails(m) \/ LoseContext(m)

ViewsNext == Page \/ ReadyRender \/ \E m \in Mounts : Loading(m) \/ Breaking(m)

\* The browser runs its timers and paints a visible tab, and a fetch is
\* answered; nothing makes anyone click.
ViewsFairness == /\ WF_viewsVars(ReadyRender)
                 /\ \A m \in Mounts : WF_viewsVars(Loading(m))

ViewsSpec == ViewsInit /\ [][ViewsNext]_viewsVars /\ ViewsFairness
----------------------------------------------------------------------------
\* "Only one engine (and one WebGL context) lives at a time"
\* (SiliconMacroView.tsx, over its return): however fast a user goes back
\* and forth, the old engine's deferred teardown runs before the new
\* engine starts.
OneContext == \A m, n \in Mounts : "renderer" \in live[m] \cap live[n] => m = n

\* A torn-down engine holds no GPU object and never makes another, wherever
\* its build or an overlay's load was when the view was left; and no engine
\* runs for a view that is not on the page unless its teardown is queued.
LeftIsFreed ==
  \A m \in Mounts :
    /\ torn[m] => live[m] = {}
    /\ live[m] # {} /\ m # shown => \E i \in DOMAIN timers : timers[i].mount = m

\* An engine that was left holds nothing of the GPU, and two never do at once.
NothingLeftBehind == OneContext /\ LeftIsFreed

\* Once the page is told that its view is ready, the engine works by the
\* settings the toolbar shows, those changed while it loaded included.
SettingsAgree == \A m \in Mounts : m = shown /\ ready => applied[m] = setting

\* The views' effects and dispose: one WebGL context lives at a time, an engine
\* that was left is freed, and a view that is ready works by the toolbar's
\* settings.
ViewsAreSound == NothingLeftBehind /\ SettingsAgree

\* A view that stays open becomes ready, or says why it does not.
ViewIsReady == shown # 0 => ready \/ error
=============================================================================

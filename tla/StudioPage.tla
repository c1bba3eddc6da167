----------------------------- MODULE StudioPage -----------------------------
(***************************************************************************)
(* The studio page (app/page.tsx): the architecture sweep and the agent    *)
(* replay, which one React component keeps running while the visitor moves *)
(* between its views and edits the T0 configuration.                       *)
(*                                                                         *)
(* The sweep and the replay are intervals that queue a functional update.  *)
(* React runs that update at once when the component has no update waiting *)
(* and otherwise while it renders, and the update itself stops the         *)
(* interval and ends the run; a click renders at once, so what it sets     *)
(* comes after the ticks waiting and before what their updates set while   *)
(* rendering.  The module keeps that order.                                *)
(*                                                                         *)
(* The other controls (the T1 and X1 configurations, the overlays and the  *)
(* build step of the twin, the review scopes) set one field or selection   *)
(* each; what the pages show is computed from the configurations.          *)
(*                                                                         *)
(* The percentage of a sweep is counted in ticks; views with the same      *)
(* controls are one panel.                                                 *)
(***************************************************************************)
EXTENDS DesignProgram

CONSTANTS
  T0Choices,   \* the T0 configurations the visitor tries; each is a record
  T0Default,   \* DEFAULT_T0_CONFIG
  SweepTicks,  \* ticks from the start of a sweep to its end
  QueueBound,  \* ticks that may wait for one rendering
  MaxPageClicks, \* bound: clicks on the controls of a run
  T1Default,   \* DEFAULT_T1_CONFIG
  T1Values,    \* field of a T1 configuration -> the values tried
  X1Default,   \* DEFAULT_X1_CONFIG
  X1Values,    \* field of an X1 configuration -> the values tried
  Steps,       \* the last build step of the twin
  MaxEdits     \* bound: clicks on the other controls

T0Configs ==
  [channels : Nat, channelWidthBits : Nat, pseudochannels : Nat, banks : Nat, laneRate : Nat,
   sram : Nat, rowSize : Nat, streaming : Nat, random : Nat, phyEnergy : Nat, length : Nat, sramHit : Nat]

\* What the controls of the T1 and X1 pages may be set to.
T1Ranges == [field \in {"capacity", "laneRate", "energy", "route", "pitch", "cooling", "activity"} |-> Nat]
X1Ranges ==
  [field \in {"state", "stacks", "demand", "efficiency", "fabric", "layers", "ports"} |->
     CASE field = "state" -> {"eco", "nominal", "performance", "turbo"}
       [] field = "stacks" -> 1 .. 8
       [] field \in {"demand", "efficiency", "fabric"} -> Nat
       [] OTHER -> Nat \ {0}]
Within(values, ranges) ==
  \A field \in DOMAIN values : field \in DOMAIN ranges /\ values[field] \subseteq ranges[field]
Of(c, ranges) ==
  /\ c = [field \in DOMAIN ranges |-> c[field]]
  /\ \A field \in DOMAIN ranges : c[field] \in ranges[field]

StudioAssumption ==
  /\ {SweepTicks, QueueBound, MaxPageClicks, Steps, MaxEdits} \subseteq Nat
  /\ T0Choices \subseteq T0Configs /\ T0Default \in T0Choices
  /\ Of(T1Default, T1Ranges) /\ Within(T1Values, T1Ranges)
  /\ Of(X1Default, X1Ranges) /\ Within(X1Values, X1Ranges)

VARIABLES
  panel,          \* which controls are on screen
  config,         \* the T0 configuration
  runStatus, runProgress,
  sweep,          \* the configuration whose sweep is listed, or NoSweep
  sweepTimer,     \* the sweep's interval: the configuration it will sweep, or NoTimer
  sweepEvent,     \* the audit event of the sweep that was started is waiting
  agentCompleted, agentRunStatus,
  agentTimer,     \* the replay's interval runs
  agentReplayEvent,
  pending,        \* the ticks React has queued: which interval, whether it ran at once
  pageClicks,
  t1Config, x1Config, twinOverlays, twinStepIndex, digitalScope, physicalScope, edits

sweepVars == <<runStatus, runProgress, sweep, sweepTimer, sweepEvent>>
replayVars == <<agentCompleted, agentRunStatus, agentTimer, agentReplayEvent>>
scopeVars == <<twinOverlays, twinStepIndex, digitalScope, physicalScope>>
editVars == <<t1Config, x1Config, scopeVars, edits>>
studioVars == <<panel, config, sweepVars, replayVars, pending, pageClicks, editVars>>

NoSweep == [sweep |-> "none"]
NoTimer == [timer |-> "none"]
Panels == {"t0", "agents", "other"}

StudioTypeOK ==
  /\ panel \in Panels
  /\ config \in T0Choices
  /\ runStatus \in {"idle", "running", "complete"} /\ runProgress \in 0 .. SweepTicks
  /\ sweep \in T0Choices \cup {NoSweep} /\ sweepTimer \in T0Choices \cup {NoTimer}
  /\ agentCompleted \in 0 .. safeCount
  /\ agentRunStatus \in {"idle", "running", "paused", "blocked"}
  /\ {sweepEvent, agentTimer, agentReplayEvent} \subseteq BOOLEAN
  /\ Len(pending) <= QueueBound
  /\ Range(pending) \subseteq [of : {"sweep", "agents"}, eager : BOOLEAN, swept : T0Choices \cup {NoSweep}]
  /\ pageClicks \in 0 .. MaxPageClicks

StudioInit ==
  /\ panel = "other" /\ config = T0Default
  /\ runStatus = "idle" /\ runProgress = 0 /\ sweep = NoSweep /\ sweepTimer = NoTimer /\ sweepEvent = FALSE
  /\ agentCompleted = 0 /\ agentRunStatus = "idle" /\ agentTimer = FALSE /\ agentReplayEvent = FALSE
  /\ pending = <<>> /\ pageClicks = 0
  /\ t1Config = T1Default /\ x1Config = X1Default /\ edits = 0
  /\ twinOverlays = {"circuitry"} /\ twinStepIndex = 0
  /\ digitalScope = "current" /\ physicalScope = "mapped"
----------------------------------------------------------------------------
\* A rendering: the ticks waiting, then what a click set, then what the
\* ticks that run only now set.

TicksOf(which) == {i \in DOMAIN pending : pending[i].of = which}

EndedAtOnce(which, from, last) ==
  /\ \E i \in TicksOf(which) : pending[i].eager
  /\ from + 1 >= last
EndedLate(which, from, last) ==
  /\ \E i \in TicksOf(which) : ~pending[i].eager
  /\ from + Cardinality(TicksOf(which)) >= last

\* What a click sets: a record with some of the fields, or none of them.
SetBy(set, field, otherwise) == IF field \in DOMAIN set THEN set[field] ELSE otherwise

\* The sweep after a rendering.  `swept` is the configuration the interval
\* that queued the ticks was started with.
RenderSweep(set, swept) ==
  LET late == EndedLate("sweep", runProgress, SweepTicks)
      ended == late \/ EndedAtOnce("sweep", runProgress, SweepTicks)
  IN  /\ runProgress' = SetBy(set, "progress", Min({SweepTicks, runProgress + Cardinality(TicksOf("sweep"))}))
      /\ runStatus' = IF late THEN "complete"
                      ELSE SetBy(set, "status", IF ended THEN "complete" ELSE runStatus)
      /\ sweep' = IF late THEN swept ELSE SetBy(set, "sweep", IF ended THEN swept ELSE sweep)
      /\ sweepTimer' = IF late THEN NoTimer ELSE SetBy(set, "sweepTimer", sweepTimer)
      \* the effect that reports a finished sweep
      /\ sweepEvent' = (SetBy(set, "event", sweepEvent) /\ runStatus' # "complete")

\* Mistake: a replay that ends while rendering stays shown as running.
RenderReplayRunning(set) ==
  LET late == EndedLate("agents", agentCompleted, safeCount)
      ended == EndedAtOnce("agents", agentCompleted, safeCount)
  IN  /\ agentCompleted' = SetBy(set, "completed", Min({safeCount, agentCompleted + Cardinality(TicksOf("agents"))}))
      /\ agentRunStatus' = SetBy(set, "agents", IF ended THEN "blocked" ELSE agentRunStatus)
      /\ agentTimer' = (~late /\ SetBy(set, "agentTimer", agentTimer))
      /\ agentReplayEvent' = (SetBy(set, "agentEvent", agentReplayEvent) /\ agentRunStatus' # "blocked")

RenderReplay(set) ==
  LET late == EndedLate("agents", agentCompleted, safeCount)
      ended == late \/ EndedAtOnce("agents", agentCompleted, safeCount)
  IN  /\ agentCompleted' = SetBy(set, "completed", Min({safeCount, agentCompleted + Cardinality(TicksOf("agents"))}))
      /\ agentRunStatus' = IF late THEN "blocked"
                           ELSE SetBy(set, "agents", IF ended THEN "blocked" ELSE agentRunStatus)
      /\ agentTimer' = (~late /\ SetBy(set, "agentTimer", agentTimer))
      /\ agentReplayEvent' = (SetBy(set, "agentEvent", agentReplayEvent) /\ agentRunStatus' # "blocked")

\* The configuration of the sweep that the ticks waiting belong to.
Swept == IF TicksOf("sweep") = {} THEN NoSweep ELSE pending[Min(TicksOf("sweep"))].swept

Render(set) ==
  /\ RenderSweep(set, Swept) /\ RenderReplay(set)
  /\ pending' = <<>>

\* A click on a control of panel p that sets `set`; every click renders.
StudioClick(p, set) ==
  /\ panel = p
  /\ pageClicks < MaxPageClicks /\ pageClicks' = pageClicks + 1
  /\ Render(set)
  /\ UNCHANGED editVars
----------------------------------------------------------------------------
\* An interval fires: its update is queued, and runs now only if nothing is
\* queued before it (React may run it late all the same).

Fires(which, live, swept, from, last) ==
  /\ live
  /\ Len(pending) < QueueBound
  /\ \E eager \in {pending = <<>>, FALSE} :
       /\ pending' = Append(pending, [of |-> which, eager |-> eager, swept |-> swept])
       /\ sweepTimer' = IF which = "sweep" /\ eager /\ from + 1 >= last THEN NoTimer ELSE sweepTimer
       /\ agentTimer' = (agentTimer /\ ~(which = "agents" /\ eager /\ from + 1 >= last))
  /\ UNCHANGED <<panel, runStatus, runProgress, sweep, sweepEvent, agentCompleted, agentRunStatus,
                 agentReplayEvent, config, pageClicks, editVars>>

SweepTick == Fires("sweep", sweepTimer # NoTimer, sweepTimer, runProgress, SweepTicks)
AgentTick == Fires("agents", agentTimer, NoSweep, agentCompleted, safeCount)

RenderTicks ==
  /\ pending # <<>>
  /\ Render(<<>>)
  /\ UNCHANGED <<panel, config, pageClicks, editVars>>
----------------------------------------------------------------------------
\* The T0 controls.

\* startSweep: the interval keeps the configuration of this rendering.
StartSweep ==
  /\ StudioClick("t0", [status |-> "running", progress |-> 0, sweep |-> NoSweep,
                       sweepTimer |-> config, event |-> TRUE])
  /\ UNCHANGED <<panel, config>>

\* updateConfig: the interval of a sweep under way is left running.
UpdateConfig ==
  /\ StudioClick("t0", [status |-> "idle", progress |-> 0])
  /\ config' \in T0Choices
  /\ UNCHANGED panel

\* The panel's Reset sets the configuration and nothing else.
ResetConfig ==
  /\ StudioClick("t0", <<>>)
  /\ config' = T0Default
  /\ UNCHANGED panel
----------------------------------------------------------------------------
\* The agent replay.

StartAgentReplay ==
  /\ agentRunStatus # "running"
  /\ StudioClick("agents", IF agentCompleted >= safeCount
                           THEN [agents |-> "running", agentTimer |-> TRUE, agentEvent |-> TRUE, completed |-> 0]
                           ELSE [agents |-> "running", agentTimer |-> TRUE, agentEvent |-> TRUE])
  /\ UNCHANGED <<panel, config>>

PauseAgentReplay ==
  /\ agentRunStatus = "running"
  /\ StudioClick("agents", [agents |-> "paused", agentTimer |-> FALSE, agentEvent |-> FALSE])
  /\ UNCHANGED <<panel, config>>

\* Reset, or another mission.
ResetAgentReplay ==
  /\ StudioClick("agents", [agents |-> "idle", agentTimer |-> FALSE, agentEvent |-> FALSE, completed |-> 0])
  /\ UNCHANGED <<panel, config>>
----------------------------------------------------------------------------
\* The other controls.

Edits(c, values) == UNION {{[c EXCEPT ![field] = value] : value \in values[field]} : field \in DOMAIN values}

\* A click on one of them renders like any other.
Edit ==
  /\ panel = "other"
  /\ edits < MaxEdits /\ edits' = edits + 1
  /\ Render(<<>>)
  /\ UNCHANGED <<panel, config, pageClicks>>

UpdateT1 ==
  /\ Edit
  /\ t1Config' \in Edits(t1Config, T1Values) \cup {T1Default}
  /\ UNCHANGED <<x1Config, scopeVars>>
UpdateX1 ==
  /\ Edit
  /\ x1Config' \in Edits(x1Config, X1Values) \cup {X1Default}
  /\ UNCHANGED <<t1Config, scopeVars>>

\* One overlay on or off, or all of them, or back from all to the first.
ToggleOverlay ==
  /\ Edit
  /\ twinOverlays' \in {toggleTwinOverlay(twinOverlays, id) : id \in Overlays}
                        \cup {IF twinOverlays = Overlays THEN {"circuitry"} ELSE Overlays}
  /\ UNCHANGED <<twinStepIndex, digitalScope, physicalScope, t1Config, x1Config>>
ChooseStep ==
  /\ Edit
  /\ twinStepIndex' \in {(twinStepIndex + 1) % (Steps + 1), Max({0, twinStepIndex - 1})}
  /\ UNCHANGED <<twinOverlays, digitalScope, physicalScope, t1Config, x1Config>>
AdvanceScope ==
  /\ Edit
  /\ \/ digitalScope' = nextScope(digitalScope) /\ UNCHANGED physicalScope
     \/ physicalScope' = nextScope(physicalScope) /\ UNCHANGED digitalScope
  /\ UNCHANGED <<twinOverlays, twinStepIndex, t1Config, x1Config>>
----------------------------------------------------------------------------
\* A tab, or a link from one view to another.
SetView ==
  /\ panel' \in Panels \ {panel}
  /\ Render(<<>>)
  /\ UNCHANGED <<config, pageClicks, editVars>>
----------------------------------------------------------------------------
StudioNext ==
  \/ SweepTick \/ AgentTick \/ RenderTicks \/ SetView
  \/ StartSweep \/ UpdateConfig \/ ResetConfig
  \/ StartAgentReplay \/ PauseAgentReplay \/ ResetAgentReplay
  \/ UpdateT1 \/ UpdateX1 \/ ToggleOverlay \/ ChooseStep \/ AdvanceScope

\* An interval fires while it is set, and React renders what is queued.
StudioFairness == WF_studioVars(SweepTick) /\ WF_studioVars(AgentTick) /\ WF_studioVars(RenderTicks)
StudioSpec == StudioInit /\ [][StudioNext]_studioVars /\ StudioFairness
----------------------------------------------------------------------------
\* A sweep or a replay that is shown as running has an interval that will end
\* it, or the tick that ends it is already queued.  A late tick clears
\* whatever interval the reference holds, also one a click has just set.
RunningIsDriven ==
  /\ runStatus = "running" =>
       \/ sweepTimer # NoTimer
       \/ EndedAtOnce("sweep", runProgress, SweepTicks) \/ EndedLate("sweep", runProgress, SweepTicks)
  /\ agentRunStatus = "running" =>
       \/ agentTimer
       \/ EndedAtOnce("agents", agentCompleted, safeCount) \/ EndedLate("agents", agentCompleted, safeCount)

\* What is shown as running comes to an end unless the visitor goes on clicking.
RunsSettled == runStatus # "running" /\ agentRunStatus # "running"

\* Every agent shown as done or at work has the agents it depends on done,
\* and the one at work is the one the panel names.
AgentsWaitForTheirInputs ==
  LET status == nodeStatus(agentCompleted, agentRunStatus = "running")
  IN  \A node \in DOMAIN dependsOn : status[node] \in {"complete", "active"} =>
        /\ \A input \in dependsOn[node] : status[input] = "complete"
        /\ status[node] = "active" => node = currentNode(agentCompleted)

\* What the pages advise of a configuration, the one in the controls or a
\* candidate of its sweep, is what its gates say: a risk is named for exactly
\* the bounds it misses, whichever side of a bound rounding puts it.  And no
\* model result ever passes a gate: entry to T1 and fabrication stay on hold
\* until something is measured, whatever the inputs.
AdviceMatchesGates ==
  \A c \in {config} \cup runT0Sweep(config) :
    LET gates == T0Gates(c)
        advice == recommendations(c)
    IN  /\ \A id \in {"RAW", "STREAM", "RANDOM", "ENERGY"} : <<"risk", id>> \in advice <=> gates[id] = "fail"
        /\ entryDecision(gates) = "hold"
        /\ foundryDecision(gates, [id \in DOMAIN foundryInputs |-> "ready"]) = "hold"
        /\ foundryDecision(gates, foundryInputs) = "hold"

\* An overlay is always shown, whatever is switched off.
PanelsTypeOK ==
  /\ DOMAIN t1Config = DOMAIN T1Default /\ DOMAIN x1Config = DOMAIN X1Default
  /\ twinOverlays \in (SUBSET Overlays) \ {{}} /\ twinStepIndex \in 0 .. Steps

\* The X1 page and the twin count the same package; the bottleneck named is
\* the limit that binds, no other limit being below what is delivered, and
\* the gate that judges ingest says the same; and the cooling sweep of the
\* T1 page passes through the hotspot shown beside it.
PanelsAgree ==
  LET twin == topology(x1Config.stacks, X1Tiers)
      pins == connectorChain(x1Config.stacks, X1Tiers)
  IN  /\ twin.lanes = X1Lanes * x1Config.stacks
      /\ twin.protected = protectedConductors(x1Config)
      /\ twin.bundles = routeBundles(x1Config)
      /\ twin.bonds = pins.bonds
      /\ delivered(x1Config) = limitNamed(x1Config)
      /\ bottleneck(x1Config) = "fabric" <=> X1Gates(x1Config)["INGEST"] = "risk"
      /\ routingPressure(x1Config) > 100 => X1Gates(x1Config)["ROUTING"] = "risk"
      /\ t1Config.cooling \in DOMAIN coolingSweep(t1Config) =>
           coolingSweep(t1Config)[t1Config.cooling] = hotspot(t1Config)
=============================================================================

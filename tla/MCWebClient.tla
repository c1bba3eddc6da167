----------------------------- MODULE MCWebClient -----------------------------
(***************************************************************************)
(* The web workspace's own state machines, small: the audit client (part   *)
(* "audit"), the Runs tab's panel ("panel") and its list ("list"), the     *)
(* Activity tab ("activity"), the studio page's sweep and replay           *)
(* ("studio") and its other controls ("controls"); and the numeric         *)
(* models its pages show: the error code and lane repair ("code"), the     *)
(* workload campaign ("campaign") and the serving search ("serving").  The *)
(* parts share no state, so a behaviour is of one of them and the others   *)
(* stay as they began, the numeric models Off.  The audit client, the Runs *)
(* tab and the code are extended, the others are instances; the tab's list *)
(* is an instance on the same variables.                                   *)
(***************************************************************************)
EXTENDS UiAudit, RunsWorkspace, StudioPage, Secded, TLC

VARIABLES
  part,
  logged, signedIn, user, pageState, events, nextBefore, query, autoRefresh, tab,
  debounce, refreshes, olderAsked, selectedEvent, trace, traceAsked, busy, acts, activityFaults,
  spacing, served, bankReady, openRow, rowHits, refreshStalls, lastCompletion,
  latencies, queueDepths, number,
  workload, splits, low, high, best, readRows

activityVars ==
  <<logged, signedIn, user, pageState, events, nextBefore, query, autoRefresh, tab,
    debounce, refreshes, olderAsked, selectedEvent, trace, traceAsked, busy, acts, activityFaults>>
campaignVars ==
  <<spacing, number, bankReady, openRow, rowHits, refreshStalls, lastCompletion,
    latencies, queueDepths, served>>
servingVars == <<workload, splits, low, high, best, readRows>>
partsVars == <<part, vars, runsVars, activityVars, studioVars,
               secdedVars, campaignVars, servingVars>>

\* The list above the panel, which nobody clicks.
List == INSTANCE RunsWorkspace WITH
  LogPieces <- 1, ChunkPieces <- 1, KeptPieces <- 1, MaxClicks <- 0, MaxFaults <- 0,
  LoadSlots <- 2, MaxListFaults <- 1

Activity == INSTANCE ActivityWorkspace WITH
  PageRows <- 1, MaxLogged <- 2, RefreshSlots <- 2, MaxActs <- 3, MaxActivityFaults <- 1

\* Two T0 configurations: the default, and one on or beyond every bound.
BaseT0 == [channels |-> 16, channelWidthBits |-> 64, pseudochannels |-> 2, banks |-> 16, laneRate |-> 8, sram |-> 16,
           rowSize |-> 512, streaming |-> 8600, random |-> 6600, phyEnergy |-> 15, length |-> 8, sramHit |-> 92]

T1Base ==
  [capacity |-> 32, laneRate |-> 8, energy |-> 18, route |-> 12, pitch |-> 3, cooling |-> 65, activity |-> 75]
X1Base == [state |-> "nominal", stacks |-> 8, demand |-> 85, efficiency |-> 85, fabric |-> 48, layers |-> 12, ports |-> 32]
T1Tried ==
  [laneRate |-> {8, 12}, cooling |-> {35, 120}, activity |-> {40, 100}, pitch |-> {2, 3, 5},
   route |-> {5, 20}, energy |-> {10, 30}]
X1Tried ==
  [state |-> {"eco", "turbo"}, stacks |-> {1, 8}, demand |-> {20, 100}, efficiency |-> {50, 95}, fabric |-> {16, 100}]
T0Tried == {BaseT0, [BaseT0 EXCEPT !.laneRate = 4, !.streaming = 8500, !.random = 6500, !.phyEnergy = 20]}

\* The page again, with clicks on its other controls only.
Controls == INSTANCE StudioPage WITH MaxPageClicks <- 0, MaxEdits <- 3

\* The code of a 64-bit word, one and two bits wrong; four lanes with two
\* spares, of which none to all the spares and one more are needed.
NoneAndAll == {{}, 0 .. 63}
FailedLanes == {<<>>, <<0>>, <<1, 0, 1>>, <<2, 1, 0>>, <<3, 9>>}

\* Workloads with each limit on either side of what the splits can do, and
\* four measurements, two of them of a chip that is held out.
Work0 == [scenario |-> "Server", latency |-> 2, exchange |-> 8, gemmCompute |-> 8, gemmMemory |-> 40,
          attentionCompute |-> 8, attentionMemory |-> 16, prefill |-> 16, inputTokens |-> 1,
          outputTokens |-> 4, efficiency |-> 5, rhoMax |-> 40, tpot |-> 80, ttft |-> 60,
          capacity |-> 20, weights |-> 12, kvPerSequence |-> 4, accelerators |-> 8]
SmallWorkloads ==
  {[Work0 EXCEPT !.scenario = s, !.rhoMax = r, !.tpot = t, !.ttft = f, !.capacity = c, !.latency = l,
                 !.accelerators = a, !.prefill = p] :
     s \in {"Server", "Offline"}, r \in {7, 40, 100}, t \in {40, 80, 300, 1000}, f \in {10, 100},
     c \in {10, 120}, l \in {2, 20}, a \in {1, 8}, p \in {16, 64}}
Measured(id, chip, kind, ofFamily, value) ==
  [id |-> id, chip |-> chip, family |-> "hopper", kind |-> kind, use |-> "calibrate", ofFamily |-> ofFamily, value |-> value]

\* Four requests to two banks, every other one behind a refresh, close
\* together and far apart.
Models == INSTANCE WorkloadModels WITH
  request <- number,
  Banks <- 2, Rows <- 2, Requests <- 4, Spacings <- {1, 20}, RefreshEvery <- 2, RawBits <- 40,
  Loads <- {0, 50, 100}, Capacities <- {32, 48},
  Workloads <- SmallWorkloads,
  Measurements <-
    {Measured(1, "h100", "gemm", FALSE, 3), Measured(2, "h200", "memory", TRUE, 5),
     Measured(3, "h100", "memory", FALSE, 7), Measured(4, "h200", "serving", FALSE, 9)},
  HeldOut <- {"h200"}, CalibrationChips <- {"h100"}, Families <- {"hopper", "blackwell"}

ASSUME /\ RunsAssumption /\ List!RunsAssumption /\ StudioAssumption /\ Activity!ActivityAssumption
       /\ Models!WorkloadAssumption

Off == "off"
CodeOff == pattern = Off /\ received = Off /\ flipped = Off /\ failed = Off
CampaignOff == /\ spacing = Off /\ number = Off /\ bankReady = Off /\ openRow = Off /\ rowHits = Off
               /\ refreshStalls = Off /\ lastCompletion = Off /\ latencies = Off /\ queueDepths = Off
               /\ served = Off
ServingOff == workload = Off /\ splits = Off /\ low = Off /\ high = Off /\ best = Off /\ readRows = Off

Parts == {"audit", "panel", "list", "activity", "studio", "controls", "code", "campaign", "serving"}

PartsInit == /\ part \in Parts
             /\ Init /\ Activity!Init /\ StudioInit
             /\ IF part = "list" THEN List!RunsInit ELSE RunsInit
             /\ rowStatus["r1"] = "active"
             /\ part # "panel" => rowStatus["r2"] = "absent"
             /\ IF part = "code" THEN CodeInit ELSE CodeOff
             /\ IF part = "campaign" THEN Models!CampaignInit ELSE CampaignOff
             /\ IF part = "serving" THEN Models!ServingInit ELSE ServingOff

Only(p) == /\ part = p /\ UNCHANGED part
           /\ IF p = "audit" THEN TRUE ELSE UNCHANGED vars
           /\ IF p \in {"panel", "list"} THEN TRUE ELSE UNCHANGED runsVars
           /\ IF p = "activity" THEN TRUE ELSE UNCHANGED activityVars
           /\ IF p \in {"studio", "controls"} THEN TRUE ELSE UNCHANGED studioVars
           /\ IF p = "code" THEN TRUE ELSE UNCHANGED secdedVars
           /\ IF p = "campaign" THEN TRUE ELSE UNCHANGED campaignVars
           /\ IF p = "serving" THEN TRUE ELSE UNCHANGED servingVars

PartsNext == \/ Only("audit") /\ Next
             \/ Only("panel") /\ RunsNext
             \/ Only("list") /\ List!RunsNext
             \/ Only("activity") /\ Activity!Next
             \/ Only("studio") /\ StudioNext
             \/ Only("controls") /\ Controls!StudioNext
             \/ Only("code") /\ CodeNext
             \/ Only("campaign") /\ Models!Serve
             \/ Only("serving") /\ Models!ServingNext

\* The fairness of each part's own specification.
PartsFairness ==
  /\ WF_vars(part = "audit" /\ Timer)
  /\ WF_vars(part = "audit" /\ Unblock)
  /\ WF_vars(part = "audit" /\ (Answered \/ RefusalSeen))
  /\ WF_vars(part = "audit" /\ Ingest)
  /\ \A r \in {"r1", "r2"} : WF_runsVars(part = "panel" /\ RunEnds(r))
  /\ \A i \in 1 .. 2 : WF_runsVars(part = "panel" /\ i \in DOMAIN tails /\ TailSteps(i))
  /\ WF_runsVars(part = "panel" /\ Answers)
  /\ \A s \in 1 .. 2 : WF_runsVars(part = "list" /\ List!ListSteps(s))
  /\ \A r \in {"r1", "r2"} : WF_runsVars(part = "list" /\ List!RunEnds(r))
  /\ WF_activityVars(part = "activity" /\ Activity!Debounced)
  /\ WF_activityVars(part = "activity" /\ Activity!Interval)
  /\ WF_activityVars(part = "activity" /\ Activity!SignInAnswered)
  /\ WF_activityVars(part = "activity" /\ Activity!Verified)
  /\ WF_activityVars(part = "activity" /\ Activity!OlderAnswered)
  /\ WF_activityVars(part = "activity" /\ Activity!TraceAnswered)
  /\ \A s \in 1 .. 2 : WF_activityVars(part = "activity" /\ Activity!Answers(s))
  /\ WF_studioVars(part = "studio" /\ SweepTick)
  /\ WF_studioVars(part = "studio" /\ AgentTick)
  /\ WF_studioVars(part = "studio" /\ RenderTicks)

PartsSpec == PartsInit /\ [][PartsNext]_partsVars /\ PartsFairness
-----------------------------------------------------------------------------
\* What the pages show is of one piece: what the tabs hold is of its type, no
\* agent of the replay is ahead of those it depends on, and the panels agree
\* with one another.  The numeric models are sound: what a fault in a word or
\* in the lanes does, bandwidth and latencies that the simulated banks have
\* earned, and a serving point that nothing feasible beats and no held-out
\* chip has moved.
ModelsAreSound ==
  /\ RunsTypeOK /\ Activity!ActivityTypeOK /\ StudioTypeOK /\ AgentsWaitForTheirInputs
  /\ part = "controls" => PanelsTypeOK /\ PanelsAgree
  /\ part = "code" => SecdedHolds /\ RepairIsSound
  /\ part = "campaign" => /\ Models!BanksServeOneAtATime /\ Models!HitsAreEarned
                          /\ Models!TailIsReported /\ Models!RegionsShareTheLoad
  /\ part = "serving" => /\ Models!FoundTheBest /\ Models!SearchKeepsTheAnswer
                         /\ Models!HeldOutStaysOut

\* The audit client delivers, the tabs come to show the platform as it is, and
\* a sweep or a replay ends unless the visitor goes on clicking.
ClientCatchesUp ==
  /\ <>[](part = "audit" => Delivered)
  /\ <>[](part = "panel" => LogIsShownToItsEnd)
  /\ <>[](part = "list" => List!ListCaughtUp)
  /\ <>[](part = "activity" => Activity!RefreshCaughtUp)
  /\ <>[](part = "studio" => RunsSettled)
=============================================================================

---------------------------- MODULE DesignProgram ----------------------------
(***************************************************************************)
(* The numeric models behind the studio's pages: the T0 pathfinder and its *)
(* sweep, the T1 scale-up and its physical proxy, the X1 system, foundry   *)
(* readiness, the agent missions and the panels of the design twin.        *)
(*                                                                         *)
(* Numbers are integers in small units: percentages in hundredths, energy  *)
(* in hundredths of a pJ/bit, thermal resistance in hundredths of a K/W,   *)
(* power in microwatts or milliwatts, temperature in thousandths of a      *)
(* degree, bandwidth in GB/s.  Texts are left out.                         *)
(***************************************************************************)
EXTENDS Integers, FiniteSetsExt, SequencesExt

Clamped(n, low, high) == Min({high, Max({low, n})})
----------------------------------------------------------------------------
\* T0 (lib/t0-model.ts).

payloadLanes(c) == c.channels * c.channelWidthBits
banksOf(c) == c.channels * c.pseudochannels * c.banks
rawBandwidth(c) == (payloadLanes(c) * c.laneRate) \div 8
preferredLength(c) == IF c.laneRate >= 12 THEN 5 ELSE IF c.laneRate >= 10 THEN 7 ELSE 10
linkRisk(c) == IF 10 * c.length <= 8 * preferredLength(c) THEN "low"
               ELSE IF c.length <= preferredLength(c) THEN "watch" ELSE "high"

gate(passed) == IF passed THEN "provisional" ELSE "fail"

T0Gates(c) ==
  [id \in {"RAW", "STREAM", "RANDOM", "ENERGY", "LATENCY", "THERMAL", "BOND",
           "GATHER", "ECC", "REPAIR", "LIVENESS", "REFRESH"} |->
     CASE id = "RAW" -> gate(rawBandwidth(c) > 1000)
       [] id = "STREAM" -> gate(c.streaming >= 8500)
       [] id = "RANDOM" -> gate(c.random >= 6500)
       [] id = "ENERGY" -> gate(c.phyEnergy < 20)
       [] id = "LATENCY" -> gate(c.sramHit < 100)
       [] id \in {"THERMAL", "BOND"} -> "unverified"
       [] OTHER -> "provisional"]

Advice(level, id, applies) == IF applies THEN {<<level, id>>} ELSE {}

\* Mistake: a stream efficiency on the bound is called a risk.
RecommendationsOnBound(c) ==
  {<<IF rawBandwidth(c) <= 1000 THEN "risk" ELSE "good", "RAW">>}
  \cup Advice("risk", "STREAM", c.streaming <= 8500)
  \cup Advice("risk", "RANDOM", c.random < 6500)
  \cup Advice("risk", "LINK", linkRisk(c) = "high") \cup Advice("watch", "LINK", linkRisk(c) = "watch")
  \cup Advice("watch", "ROW", c.rowSize # 512)
  \cup Advice("watch", "SRAM", c.sram < 16)
  \cup Advice("risk", "ENERGY", c.phyEnergy >= 20)

recommendations(c) ==
  {<<IF rawBandwidth(c) <= 1000 THEN "risk" ELSE "good", "RAW">>}
  \cup Advice("risk", "STREAM", c.streaming < 8500)
  \cup Advice("risk", "RANDOM", c.random < 6500)
  \cup Advice("risk", "LINK", linkRisk(c) = "high") \cup Advice("watch", "LINK", linkRisk(c) = "watch")
  \cup Advice("watch", "ROW", c.rowSize # 512)
  \cup Advice("watch", "SRAM", c.sram < 16)
  \cup Advice("risk", "ENERGY", c.phyEnergy >= 20)

\* The twelve candidates of a sweep, rate by rate.
ratePenalty(rate) == CASE rate = 12 -> 400 [] rate = 10 -> 200 [] rate = 4 -> -100 [] OTHER -> 0
sramLift(sram) == CASE sram = 8 -> -150 [] sram = 32 -> 150 [] OTHER -> 0
Candidate(c, rate, sram) ==
  [c EXCEPT !.laneRate = rate, !.sram = sram,
            !.streaming = Clamped(@ - ratePenalty(rate) + sramLift(sram), 5000, 9600),
            !.random = Clamped(@ - (ratePenalty(rate) * 8) \div 10 + (sramLift(sram) * 13) \div 10, 3500, 8800)]
runT0Sweep(c) == {Candidate(c, rate, sram) : rate \in {4, 8, 10, 12}, sram \in {8, 16, 32}}
----------------------------------------------------------------------------
\* T1 (lib/t1-model.ts, lib/t1-physical.ts): a configuration is its
\* capacity, lane rate, energy, route length, bond pitch, cooling and activity.

T1Lanes == 4096
T1Channels == 64
T1Tiers == 8
T1Sram == 64
T1Raw(c) == (T1Lanes * c.laneRate) \div 8

CountOf(gates, status) == Cardinality({id \in DOMAIN gates : gates[id] = status})
entryDecision(gates) ==
  IF CountOf(gates, "pass") = Cardinality(DOMAIN gates) THEN "go" ELSE "hold"

interfaceWatts(c) == (T1Lanes * c.laneRate * c.energy * c.activity) \div 10
controllerWatts(c) == (82000 + T1Channels * 850 + T1Raw(c) * 8) * c.activity
sramWatts(c) == T1Sram * 1000 * c.activity
dramWatts(c) == (T1Tiers * 24000 + c.capacity * 500) * c.activity
totalMilliwatts(c) == (interfaceWatts(c) + controllerWatts(c) + sramWatts(c) + dramWatts(c)) \div 1000

Above(n, floor) == Max({0, n - floor})
Heating(milliwatts, resistance) == ((milliwatts * resistance) \div 10000) * 85
baseTemperature(c) ==
  35000 + Heating(totalMilliwatts(c), c.cooling) + (T1Tiers - 1) * 700 + Above(c.laneRate, 8) * 500
routingCongestion(c) == \* hundredths of a percent
  Clamped(3200 + (T1Lanes * 100) \div 128 + Above(c.laneRate, 8) * 250 + Above(c.route, 10) * 180 + (c.pitch - 2) * 500,
          0, 10000)
packageSkew(c) == c.route * (60 + Above(c.laneRate, 8) * 5) \* hundredths of a ps
irDrop(c) == (totalMilliwatts(c) * 42) \div 100 + (T1Lanes * 1000) \div 256 + (c.pitch - 2) * 2200 \* uV

regions == 0 .. 7
regionLoad(c, r) == Clamped(c.activity + ((r * 19 + c.capacity) % 17) - 8, 20, 98)
regionTemperature(c, r) ==
  baseTemperature(c) + (regionLoad(c, r) - c.activity) * 160 + IF r >= 4 THEN 1100 ELSE 0
hotspot(c) == Max({regionTemperature(c, r) : r \in regions})
coolingSweep(c) ==
  [resistance \in {45, 65, 85, 105} |->
     hotspot(c) + Heating(totalMilliwatts(c), resistance) - Heating(totalMilliwatts(c), c.cooling)]

Low == 0
Watch == 1
High == 2
routingRisk(c) == IF routingCongestion(c) < 6500 THEN Low ELSE IF routingCongestion(c) < 8200 THEN Watch ELSE High
thermalRisk(c) == IF 85000 - hotspot(c) >= 10000 THEN Low ELSE IF 85000 - hotspot(c) >= 0 THEN Watch ELSE High
packageRisk(c) == IF packageSkew(c) <= 800 /\ irDrop(c) <= 38000 THEN Low
                  ELSE IF packageSkew(c) <= 1300 /\ irDrop(c) <= 48000 THEN Watch ELSE High
----------------------------------------------------------------------------
\* X1 (lib/x1-model.ts).

X1Lanes == 8192
X1Tiers == 16
X1Channels == 128
LaneRateOf(state) == CASE state = "eco" -> 4 [] state = "nominal" -> 8 [] state = "performance" -> 10 [] state = "turbo" -> 12
EnvelopeOf(state) == CASE state = "eco" -> 28 [] state = "nominal" -> 45 [] state = "performance" -> 55 [] state = "turbo" -> 65

aggregateRaw(c) == ((X1Lanes * LaneRateOf(c.state)) \div 8) * c.stacks
usefulCeiling(c) == (aggregateRaw(c) * c.efficiency) \div 100
requested(c) == (aggregateRaw(c) * c.demand) \div 100
fabric(c) == c.fabric * 1000
delivered(c) == Min({usefulCeiling(c), requested(c), fabric(c)})
computeLimited(c) == fabric(c) < Min({usefulCeiling(c), requested(c)})
bottleneck(c) == IF computeLimited(c) THEN "fabric"
                 ELSE IF requested(c) < usefulCeiling(c) THEN "demand" ELSE "efficiency"
\* The limit the page names as the one that binds.
limitNamed(c) == CASE bottleneck(c) = "fabric" -> fabric(c)
                   [] bottleneck(c) = "demand" -> requested(c)
                   [] OTHER -> usefulCeiling(c)
protectedConductors(c) == X1Channels * (64 + 8 + 2) * c.stacks
routeBundles(c) == (X1Lanes * c.stacks + 255) \div 256
routingPressure(c) == Clamped((routeBundles(c) * 1000) \div (c.layers * c.ports * 9), 0, 160)
stackPower(c) == EnvelopeOf(c.state) * (5500 + c.demand * 45) \* tenths of a mW
X1Gates(c) ==
  [id \in {"CONTRACT", "SCALE", "INGEST", "ROUTING", "POWER", "T1", "BOND", "PRODUCTION"} |->
     CASE id \in {"CONTRACT", "SCALE"} -> "architected"
       [] id = "INGEST" -> IF computeLimited(c) THEN "risk" ELSE "proxy"
       [] id = "ROUTING" -> IF routeBundles(c) * 1000 > c.layers * c.ports * 900 THEN "risk" ELSE "proxy"
       [] id = "POWER" -> IF stackPower(c) <= 650000 THEN "proxy" ELSE "risk"
       [] OTHER -> "blocked"]

\* The twin's own counts (lib/interconnect-physics.ts, package-connectors.ts).
topology(stacks, tiers) ==
  [dies |-> stacks, channels |-> stacks * 128, pseudochannels |-> stacks * 256, banks |-> stacks * 4096,
   lanes |-> stacks * 8192, protected |-> stacks * 9472, bundles |-> stacks * 32, bonds |-> stacks * tiers]
connectorChain(stacks, tiers) ==
  LET n == Clamped(stacks, 1, 8)
  IN  [traces |-> n * 16, baseBumps |-> n * 49, baseTsv |-> n * 16, dramTsv |-> n * Max({0, tiers - 1}) * 16,
       bonds |-> n * tiers, bondSamples |-> n * tiers * 36]
----------------------------------------------------------------------------
\* Foundry readiness (lib/foundry-readiness.ts).

readyToFabricate(gates, inputs) ==
  /\ \A id \in DOMAIN inputs : inputs[id] = "ready"
  /\ DOMAIN gates # {} /\ \A id \in DOMAIN gates : gates[id] = "pass"
foundryDecision(gates, inputs) == IF readyToFabricate(gates, inputs) THEN "ready-for-review" ELSE "hold"
foundryInputs == [id \in {"control", "runner", "pdk", "sram", "phy", "bond", "signoff", "test"} |->
                    CASE id = "control" -> "ready" [] id = "runner" -> "planned" [] OTHER -> "absent"]
----------------------------------------------------------------------------
\* The agents of a mission and what each waits for (lib/agent-orchestration.ts).

OpenNodes == <<"contract", "architecture", "performance", "rtl", "formal", "physical", "multiphysics", "evidence">>
BoundaryNodes == <<"silicon", "foundry", "release">>
dependsOn ==
  [contract |-> {}, architecture |-> {"contract"}, performance |-> {"architecture"}, rtl |-> {"architecture"},
   formal |-> {"rtl"}, physical |-> {"rtl"}, multiphysics |-> {"performance", "physical"},
   evidence |-> {"performance", "formal", "multiphysics"},
   silicon |-> {"evidence"}, foundry |-> {"silicon"}, release |-> {"foundry"}]
safeCount == Len(OpenNodes)

nodeStatus(completed, running) ==
  [node \in DOMAIN dependsOn |->
     LET open == {i \in DOMAIN OpenNodes : OpenNodes[i] = node}
         index == Min(open) - 1
     IN  IF open = {} THEN "blocked"
         ELSE IF index < completed THEN "complete"
         ELSE IF running /\ index = completed THEN "active" ELSE "queued"]
currentNode(completed) == IF completed = safeCount THEN BoundaryNodes[1] ELSE OpenNodes[completed + 1]

\* The overlays of the twin (lib/design-twin.ts): never none.
Overlays == {"circuitry", "architecture", "bandwidth", "power", "thermal", "evidence"}
toggleTwinOverlay(active, id) ==
  LET next == IF id \in active THEN active \ {id} ELSE active \cup {id}
  IN  IF next = {} THEN active ELSE next

\* The scopes of the digital and physical pages, in turn.
nextScope(scope) ==
  CASE scope = "current" -> "regression" [] scope = "regression" -> "closure" [] scope = "closure" -> "current"
    [] scope = "mapped" -> "implementation" [] scope = "implementation" -> "signoff" [] scope = "signoff" -> "mapped"
=============================================================================

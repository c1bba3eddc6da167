-------------------------- MODULE WorkloadModels ---------------------------
(***************************************************************************)
(* The two performance models behind the pages.                            *)
(*                                                                         *)
(* The request-level workload campaign of T0 and T1 (lib/t0-campaign.ts,   *)
(* lib/t1-campaign.ts): requests arrive at a fixed spacing, each goes to a *)
(* bank and a row, and a bank serves them one after the other.  What the   *)
(* seeded generator decides (sequential or not, bank, row, reuse of the    *)
(* open row, write) is any choice the profile leaves it.  Times are        *)
(* cycles; bandwidths are bits a cycle and shares are of 100.              *)
(*                                                                         *)
(* The model of LLM serving (lib/perf-model.ts): the search, over the      *)
(* tensor-parallel splits of a replica, for the batch with the most tokens *)
(* per accelerator that keeps the latency limits, and the calibration that *)
(* may not look at held-out chips.  Work, traffic and times are integers   *)
(* in one abstract unit; what a GEMM, an attention or an all-reduce costs  *)
(* is a number of the workload, and the prefill utilization that the       *)
(* queueing tail leaves is given, as a share of 100.  An iteration is      *)
(* measured in parts of an output token, so that the prefill of batch /    *)
(* outputTokens requests stays whole.                                      *)
(***************************************************************************)
EXTENDS Integers, FiniteSetsExt, SequencesExt

CONSTANTS
  Banks,         \* bankCount: channels x pseudochannels x banks
  Rows,          \* rows a random access may hit; 4096 in the code
  Requests,      \* requestCount
  Spacings,      \* arrivalSpacingCycles of the profiles
  RefreshEvery,  \* a request in so many waits for a refresh; 512 in the code
  RawBits,       \* raw bandwidth in bits a cycle
  Loads,         \* utilizations a region load is computed from
  Capacities     \* capacityGib of the T1 configurations

WorkloadAssumption ==
  Banks \in Nat \ {0} /\ Rows \in Nat \ {0} /\ RefreshEvery \in Nat \ {0}

VARIABLES
  spacing, request, bankReady, openRow,
  rowHits, refreshStalls, lastCompletion,
  latencies, queueDepths, \* in order of arrival
  served                  \* bank -> cycles of service it has given
campaignVars == <<spacing, request, bankReady, openRow, rowHits, refreshStalls, lastCompletion,
                  latencies, queueDepths, served>>

BankIds == 0 .. Banks - 1

CampaignInit ==
  /\ spacing \in Spacings
  /\ request = 0
  /\ bankReady = [b \in BankIds |-> 0] /\ openRow = [b \in BankIds |-> -1]
  /\ rowHits = 0 /\ refreshStalls = 0 /\ lastCompletion = 0
  /\ latencies = <<>> /\ queueDepths = <<>>
  /\ served = [b \in BankIds |-> 0]
----------------------------------------------------------------------------
\* The bank and the row of a request: in order if it is sequential, any bank
\* and the open row or any row otherwise; a sequential request too may reuse
\* the open row of its bank.
Targets ==
  LET inOrder == request % Banks
      reuse(b) == {openRow[b]} \ {-1}
  IN  {<<inOrder, row>> : row \in {request \div Banks} \cup reuse(inOrder)}
        \cup UNION {{<<b, row>> : row \in (0 .. Rows - 1) \cup reuse(b)} : b \in BankIds}

serviceCycles(hit, write, refresh) ==
  (IF hit THEN 8 ELSE 27) + (IF write THEN 3 ELSE 0) + IF refresh THEN 18 ELSE 0
CeilDiv(a, b) == (a + b - 1) \div b

\* Mistake: a request does not wait for its bank.
ServeAtOnce ==
  /\ request < Requests
  /\ \E target \in Targets, write \in BOOLEAN :
       LET bank == target[1]
           hit == openRow[bank] = target[2]
           refresh == request > 0 /\ request % RefreshEvery = 0
           cycles == serviceCycles(hit, write, refresh)
           arrival == request * spacing
       IN  /\ rowHits' = rowHits + IF hit THEN 1 ELSE 0
           /\ refreshStalls' = refreshStalls + IF refresh THEN 1 ELSE 0
           /\ bankReady' = [bankReady EXCEPT ![bank] = arrival + cycles]
           /\ openRow' = [openRow EXCEPT ![bank] = target[2]]
           /\ lastCompletion' = Max({lastCompletion, arrival + cycles})
           /\ latencies' = Append(latencies, cycles)
           /\ queueDepths' = Append(queueDepths, 0)
           /\ served' = [served EXCEPT ![bank] = @ + cycles]
  /\ request' = request + 1
  /\ UNCHANGED spacing

Serve ==
  /\ request < Requests
  /\ \E target \in Targets, write \in BOOLEAN :
       LET bank == target[1]
           hit == openRow[bank] = target[2]
           refresh == request > 0 /\ request % RefreshEvery = 0
           cycles == serviceCycles(hit, write, refresh)
           arrival == request * spacing
           start == Max({arrival, bankReady[bank]})
       IN  /\ rowHits' = rowHits + IF hit THEN 1 ELSE 0
           /\ refreshStalls' = refreshStalls + IF refresh THEN 1 ELSE 0
           /\ bankReady' = [bankReady EXCEPT ![bank] = start + cycles]
           /\ openRow' = [openRow EXCEPT ![bank] = target[2]]
           /\ lastCompletion' = Max({lastCompletion, start + cycles})
           /\ latencies' = Append(latencies, start + cycles - arrival)
           /\ queueDepths' = Append(queueDepths, Max({0, CeilDiv(start - arrival, cycles)}))
           /\ served' = [served EXCEPT ![bank] = @ + cycles]
  /\ request' = request + 1
  /\ UNCHANGED spacing

CampaignSpec == CampaignInit /\ [][Serve]_campaignVars
----------------------------------------------------------------------------
\* The figures reported.

percentile(values, share) ==
  LET sorted == SortSeq(values, <)
  IN  sorted[Min({Len(sorted), (Len(sorted) * share) \div 100 + 1})]
deliveredBits == (request * 64 * 8) \div Max({1, lastCompletion})
utilizationPercent == Min({100, (Min({RawBits, deliveredBits}) * 100) \div RawBits})
\* The load a T1 region is given.
regionLoad(utilization, capacity, region) ==
  Max({20, Min({96, utilization + ((region * 17 + capacity) % 13) - 6})})
----------------------------------------------------------------------------
\* A bank gives no more service than time has passed for it, and is never
\* ready before what it was given to do; so the requests could not have been
\* served in less time than the campaign reports, and its bandwidth is earned.
BanksServeOneAtATime ==
  /\ \A b \in BankIds : served[b] <= bankReady[b] /\ bankReady[b] <= lastCompletion
  /\ FoldFunction(+, 0, served) <= Banks * lastCompletion

\* A first touch of a bank is a miss; a refresh stalls exactly the requests
\* that meet one.
HitsAreEarned ==
  /\ rowHits + Cardinality({b \in BankIds : openRow[b] >= 0}) <= request
  /\ refreshStalls = Max({0, request - 1}) \div RefreshEvery

\* At most one request in a hundred is slower than the p99 reported, and a
\* request that never queued waits for its own service alone.
TailIsReported ==
  request > 0 =>
    /\ 100 * Cardinality({i \in DOMAIN latencies : latencies[i] > percentile(latencies, 99)}) <= Len(latencies)
    /\ percentile(latencies, 99) >= percentile(latencies, 50)
    /\ \A i \in DOMAIN latencies : queueDepths[i] = 0 => latencies[i] \in 8 .. 48
    /\ utilizationPercent \in 0 .. 100

\* The loads of the eight regions stay within six of the utilization they
\* come from unless a bound stops them.
RegionsShareTheLoad ==
  \A load \in Loads, capacity \in Capacities, region \in 0 .. 7 :
    regionLoad(load, capacity, region) \in
      Min({Max({20, load - 6}), 96}) .. Max({20, Min({96, load + 6})})
-----------------------------------------------------------------------------
(* Serving *)

CONSTANTS
  Workloads,    \* records: what each part of an iteration costs, and the limits
  Measurements, \* measured rows: [id, chip, family, use, value]
  HeldOut, CalibrationChips, Families

VARIABLES workload, splits, low, high, best, readRows
servingVars == <<workload, splits, low, high, best, readRows>>

None == [batch |-> 0]
Searching == low < high
----------------------------------------------------------------------------
\* The costs of one replica of tp accelerators.

allReduce(tp, tokens) ==
  IF tp = 1 THEN 0 ELSE workload.latency + (tokens * workload.exchange * 2 * (tp - 1)) \div tp
decodeSeconds(tp, batch) ==
  Max({workload.gemmCompute * batch, workload.gemmMemory}) \div tp
    + Max({workload.attentionCompute * batch, workload.attentionMemory * batch}) \div tp
    + allReduce(tp, batch)
prefillSeconds(tp) == workload.prefill \div tp + allReduce(tp, workload.inputTokens)
\* Iteration time, times outputTokens; the serving efficiency is of 10.
iteration(tp, batch) ==
  ((decodeSeconds(tp, batch) * 10) \div workload.efficiency) * workload.outputTokens
    + prefillSeconds(tp) * batch
\* The utilization the limit on the first token leaves, of 100.
maxPrefillUtilization(tp) == IF prefillSeconds(tp) >= workload.ttft THEN 0 ELSE workload.rhoMax
queueHolds(tp, batch) ==
  batch * prefillSeconds(tp) * 100 <= maxPrefillUtilization(tp) * iteration(tp, batch)
tpotHolds(tp, batch) == iteration(tp, batch) <= workload.tpot * workload.outputTokens

kvBatch(tp) ==
  LET usable == tp * workload.capacity
  IN  IF workload.weights >= usable THEN 0
      ELSE (usable - workload.weights) \div workload.kvPerSequence

feasible(tp, batch) == tpotHolds(tp, batch) /\ queueHolds(tp, batch)
Admits(tp) == /\ tp <= workload.accelerators
              /\ kvBatch(tp) >= 1
              /\ workload.scenario = "Server" => feasible(tp, 1)

\* More tokens per accelerator than `other`.
Beats(option, other) ==
  option.batch * other.iteration * other.tp > other.batch * option.iteration * option.tp

Option(tp, batch, limitedBy) ==
  [tp |-> tp, batch |-> batch, iteration |-> iteration(tp, batch), limitedBy |-> limitedBy]
Better(option) == IF best = None \/ Beats(option, best) THEN option ELSE best
----------------------------------------------------------------------------
ServingInit ==
  /\ workload \in Workloads
  /\ splits = <<1, 2, 4, 8>>
  /\ low = 0 /\ high = 0
  /\ best = None
  /\ readRows = {}

split == Head(splits)

\* A split that does not fit, or not even a batch of one keeps the limits.
SkipSplit ==
  /\ splits # <<>> /\ high = 0 /\ ~Admits(split)
  /\ splits' = Tail(splits)
  /\ UNCHANGED <<workload, low, high, best, readRows>>

\* The whole capacity is usable: no search.
TakeCapacity ==
  /\ splits # <<>> /\ high = 0 /\ Admits(split)
  /\ workload.scenario = "Server" => feasible(split, kvBatch(split))
  /\ best' = Better(Option(split, kvBatch(split), "kv-capacity"))
  /\ splits' = Tail(splits)
  /\ UNCHANGED <<workload, low, high, readRows>>

StartSearch ==
  /\ splits # <<>> /\ high = 0 /\ Admits(split)
  /\ workload.scenario = "Server" /\ ~feasible(split, kvBatch(split))
  /\ low' = 1 /\ high' = kvBatch(split)
  /\ UNCHANGED <<workload, splits, best, readRows>>

\* Mistake: the answer may be just below a middle that does not fit.
HalveBelow ==
  /\ Searching
  /\ LET middle == (low + high + 1) \div 2
     IN  IF feasible(split, middle) THEN low' = middle /\ UNCHANGED high
                                 ELSE high' = middle - 2 /\ UNCHANGED low
  /\ UNCHANGED <<workload, splits, best, readRows>>

Halve ==
  /\ Searching
  /\ LET middle == (low + high + 1) \div 2
     IN  IF feasible(split, middle) THEN low' = middle /\ UNCHANGED high
                                 ELSE high' = middle - 1 /\ UNCHANGED low
  /\ UNCHANGED <<workload, splits, best, readRows>>

Settle ==
  /\ high > 0 /\ ~Searching
  /\ best' = Better(Option(split, low, IF tpotHolds(split, low + 1) THEN "ttft-queue" ELSE "tpot"))
  /\ splits' = Tail(splits)
  /\ low' = 0 /\ high' = 0
  /\ UNCHANGED <<workload, readRows>>
----------------------------------------------------------------------------
\* calibrate: what it reads of the measured rows, chosen here apart from the
\* search.  A bandwidth row of a whole family counts for a chip that is not a
\* calibration chip; no row of a held-out chip does.

allowed(row) == row.use = "calibrate" /\ row.chip \notin HeldOut
gemmRows(rows, family) ==
  {row \in rows : allowed(row) /\ row.kind = "gemm" /\ row.chip \in CalibrationChips /\ row.family = family}
memoryRows(rows, family) ==
  {row \in rows : allowed(row) /\ row.kind = "memory" /\ row.family = family
                  /\ (row.chip \in CalibrationChips \/ row.ofFamily)}
Total(rows) == MapThenSumSet(LAMBDA row : row.value, rows)
\* A family with rows of both kinds has its own means; the others take the
\* mean of those.  Means are kept as sum and count.
ownRows(rows) == {family \in Families : gemmRows(rows, family) # {} /\ memoryRows(rows, family) # {}}
calibrate(rows) ==
  [family \in Families |->
     IF family \in ownRows(rows)
     THEN [gemm |-> Total(gemmRows(rows, family)), gemms |-> Cardinality(gemmRows(rows, family)),
           memory |-> Total(memoryRows(rows, family)), memories |-> Cardinality(memoryRows(rows, family))]
     ELSE [of |-> ownRows(rows)]]
servingRows(rows) ==
  {row \in rows : allowed(row) /\ row.kind = "serving" /\ row.chip \in CalibrationChips}

\* Another measurement is added to the file.
Measure ==
  /\ splits = <<>>
  /\ \E row \in Measurements \ readRows : readRows' = readRows \cup {row}
  /\ UNCHANGED <<workload, splits, low, high, best>>

ServingNext == SkipSplit \/ TakeCapacity \/ StartSearch \/ Halve \/ Settle \/ Measure
ServingSpec == ServingInit /\ [][ServingNext]_servingVars
----------------------------------------------------------------------------
\* The batch found is the best there is: no split and no batch that fits the
\* memory and keeps the limits serves more tokens per accelerator; and the
\* limit reported is the one the next larger batch would break.
FoundTheBest ==
  splits = <<>> =>
    /\ \A t \in {1, 2, 4, 8} : t <= workload.accelerators =>
         \A batch \in 1 .. kvBatch(t) :
           (workload.scenario = "Server" => feasible(t, batch)) =>
             best # None /\ ~Beats(Option(t, batch, ""), best)
    /\ best # None =>
         /\ workload.scenario = "Server" => feasible(best.tp, best.batch)
         /\ best.batch <= kvBatch(best.tp)
         /\ best.limitedBy = "tpot" => ~tpotHolds(best.tp, best.batch + 1)
         /\ best.limitedBy = "ttft-queue" => ~queueHolds(best.tp, best.batch + 1)

\* What the search has not ruled out always holds the largest batch that
\* keeps the limits.
SearchKeepsTheAnswer ==
  Searching => feasible(split, low) /\ (high < kvBatch(split) => ~feasible(split, high + 1))

\* No measurement of a held-out chip moves any number the model is fitted to.
HeldOutStaysOut ==
  LET held == {row \in readRows : row.chip \in HeldOut}
  IN  /\ calibrate(readRows) = calibrate(readRows \ held)
      /\ servingRows(readRows) \cap held = {}
=============================================================================

# Verification of the AIMEM platform, its web workspace and its accelerator RTL

TLA+ models of the parts of this repository whose correctness depends on order,
failure, concurrency or on several pieces of code agreeing; TLC configurations
that check them on small instances; and theorems, checked by TLAPS, that hold for
every size of instance.

Contents: [inventory](#1-inventory), [modules and code](#2-modules-and-the-code-they-model),
[runs and bounds](#3-runs-what-they-show-and-their-bounds), [fairness](#4-fairness),
[proofs](#5-proofs), [what is only model-checked](#6-what-is-only-model-checked),
[disagreements found](#7-where-code-and-documentation-disagree),
[what is not modelled](#8-what-is-not-modelled), [plan](#9-plan).

`PROJECT.json` names the source lines of every definition, the runs and their
properties, for each property one or more mutations of the model that violate it
(the operators marked `Mistake:` in the modules), and the hazards with the
properties that watch over them.

To repeat a result, in this directory:

    tlc -workers 2 -config RunSafety.cfg MCRunLifecycle.tla     # any row of section 3
    tlapm RunLifecycle_proofs.tla                               # any module of section 5

## 1. Inventory

The repository holds a platform (Python, `platform/aimem_platform`: FastAPI
service, worker and CLI over Postgres), a web workspace (TypeScript, `app/`,
`lib/`), offline tools (`tools/`) and RTL (SystemVerilog, `rtl/`). They meet in a
few places: the browser and the CLI call the API; the API submits *runs*, which
workers execute in containers; agent *missions* submit runs of their own; whatever
any of them does is written, in the same transaction, to one hash-chained *audit
log*; the RTL is the subject of the runs; and the layout exporter turns the routed
RTL into the tiles that one of the two silicon viewers streams.

### Platform and RTL

| Component | State | Operations | What is hard | What makes it correct |
|---|---|---|---|---|
| **Run lifecycle** `runs/service.py`, `runs/runners.py`, `runs/reproduce.py` | `runs` rows and their row locks, the run's events, containers, each worker's position | submit, claim, execute, finalize, fail, cancel, reap abandoned runs | workers, API and Docker interleave; processes die; commits succeed and their answers are lost | one executor; nothing runs unlogged; row and log agree; an ending is replaced only by the worker still executing; claimed runs end |
| **Audit log** `audit/writer.py`, `audit/guard.py`, `db.py` | `audit_events`, the append lock, each session's counters | append, append a browser batch, commit, roll back | concurrent appends under READ COMMITTED; retried batches | one gapless chain; no domain change without an event |
| **Verification** `audit/verifier.py`, `operations.py` | anchors file, position in the table | verify in batches, anchor the head | writers append meanwhile; tampering around the triggers | no false alarm; a passed verification means an intact anchored prefix; a break stays visible |
| **Browser audit client** `lib/ui-audit.ts`, ingestion `api/ui_events.py` | queue, in-flight request, backoff, timer, counters; the stored ids | record, flush, retry, beacon on page hide; validate and store | awaits, overflow, lost answers, late copies, restored pages | stored once and in order; shown as sent only if stored; losses counted; everything recorded is eventually settled |
| **Agent missions** `agents/mission.py`, `fsm.py`, `policy.py`, `gateway.py`, `roles.py` | mission and task rows, approvals, token usage, the session advisory lock | decide launch and reviews; validate, plan, run tools, check, gate; stop | two workers, lost lock, killed worker between a model call and its record, decisions racing halts | gates hold; the mission's status follows its tasks; tools start once; budgets; missions never idle |
| **A1 tile DMA** `rtl/a1/a1_tile_dma.sv` | descriptor, address walk, two fill buffers, issue buffer | one clock edge with any inputs | responses cannot be stalled; ping-pong pointers move on different events | a response always fits; no word lost; operands in order; descriptors finish |
| **A1 tensor tile and core** `rtl/a1/a1_mma_tile.sv`, `a1_tensor_core.sv` | accumulators, three pipeline stages, response register | one clock edge | read-after-write hazards, stalls, a shared command port | the pipeline is an atomic memory of accumulators; `done` means summed |
| Request middleware, fail-closed auditing, fallback log | request and operation events, fallback file | wrap a request or an operation in started/finished events | each of three writes can fail | no effect without a record somewhere |
| Users, sessions, roles, login rate limit | users, sessions, attempt windows | login, logout, revoke, expire | revocation against requests in flight | a revoked session authorizes nothing later |
| Artifact store | files by hash, `artifacts` rows | put, link, read | two writers of the same bytes | a row's file exists and has its hash |
| Run specifications, adapters, toolchains, normalization, reconstruction | none | parse, hash, compare | – | pure functions |
| Services, configuration, telemetry, CLI, features, migrations, read-only endpoints | none of their own | wiring, queries | – | – |
| Agent worktree writes and path policy | a git worktree | resolve, refuse, write | file-system links | writes stay inside |
| T0 memory channel (SECDED), lane repair, sparse gather, top (RTL) | controller, ECC flags, repair map, gather counters | one clock edge | pairing of flags and data, backpressure | data and ECC status belong together; gathers complete |
| A1 floating-point dot product | pipeline registers | arithmetic | rounding | bit-exact results |

### Web workspace and the layout's data

| Component | State | Operations | What is hard | What makes it correct |
|---|---|---|---|---|
| **Layout viewer: streaming and selection** `silicon/layout-engine.ts` | fetch queue, block cache, resident chunks, fades, selection and its tasks | frame, fetch settled, select, clear | the camera and the selection move on while tiles and details are under way | a tile is drawn once; what is pending is served; details are of the selection and whole; the window fills |
| **Layout viewer: pointer and labels** `layout-engine.ts`, `annotations.ts` | presses, pan, click timers, hover, label plan over frames | pointer down/move/up/cancel, hover, plan, place | two pointers, cancelled presses, evictions during a plan | one press, one deed; a pan is held; labels stand apart and come to rest |
| **Camera of both viewers** `engine.ts`, `layout-engine.ts` | flight, impulse, anchor, orbit height, controls | fly, wheel, drag, rotate, section | a flight cut short by any other input | controls are off exactly during flights; the camera comes to rest on its layer |
| **Model viewer: chunks, caps, labels** `engine.ts`, `inspector.ts` | resident chunks, cap cache and stamps, label plan, hover | frame, section on/off, flip, camera moves | work is spread over frames while what it was for changes | the window fills; caps are of the plane in use; labels name what is drawn |
| **Picking, identification, section** `silicon-parts.ts`, `inspector.ts`, `layout-engine.ts` | section plane, its stamp, caps per chunk and of the statics | cast a ray, cap a chunk, flip the section, name a piece | four pieces of code decide what is visible: chunks, statics, crater, section | what is pointed at is what is drawn there; caps cover what the plane cuts; a piece is named as what it was drawn for |
| **Silicon pages** `SiliconMacroView.tsx`, `SiliconLayoutView.tsx` | React mount, the engine's stages, GPU objects, settings | mount, build in stages, lose the context, fail, unmount | the page leaves between two stages; teardown is a task of its own | nothing of the GPU left behind; one context; settings agree; a view gets ready or says why not |
| **Procedural silicon model** `silicon-macro.ts`, `silicon-trace.ts`, `reference-microchip.ts` | nothing stored; chunks loaded | generate a chunk at any level; trace a net | each window works the same wires out again from its own point of view | every window finds the same routes; nets are whole and never short; stacks meet wires; a trace is the net |
| **Layout export and format** `tools/physical/layout-export/*`, `a1-layout-format.ts`, `a1-layout-scene.ts` | a routed design, tiles, files written | read DEF and GDS, tile, strip what can be rebuilt, check, clear, write | what the exporter leaves out the viewer must rebuild exactly | exactly the sound designs are published, manifest last; the viewer draws the design |
| **Runs tab** `RunsWorkspace.tsx` | selected run, log and its tails, list of runs | poll, select, start, cancel, rebuild | answers of an earlier selection or an overtaken poll | the log is of the selected run and shown to its end; the list catches up |
| **Activity tab** `ActivityWorkspace.tsx` | filters, pages, trace, sign-in | debounce, refresh, older, trace, verify, sign in and out | two filters' answers overlap; a load outlives a sign-out | the page comes to show the log for its filters |
| **Studio page** `app/page.tsx` | sweep and replay timers, React's queue of updates, configurations | start, pause, reset, tick, edit, navigate | updates that end their own interval, run at once or while rendering | what runs is driven; advice matches gates |
| **Design models** `t0-model.ts`, `t1-model.ts`, `x1-model.ts`, `foundry-readiness.ts`, `agent-orchestration.ts`, … | none | compute gates, recommendations, counts | two pages derive the same thing apart | pages agree |
| **Reliability, campaign and serving models** `t0-reliability.ts`, `t0-campaign.ts`, `t1-campaign.ts`, `perf-model.ts` | bank state, search interval | inject and correct, serve requests, search for a batch | double faults, refresh collisions, monotone search | one fault is corrected and two are detected; banks serve one at a time; the search finds the best |
| Chip explorer, part texts, evidence strip, implementation pages | none that another part reads | rendering | – | – |
| Physical flow, correlation and evidence tools | none shared | batch computation | – | – |

The hazards this code is exposed to are in `PROJECT.json`, each at its line.
They fall into six groups: steps of two processes in an order nobody tests
(claim/cancel/reap, lost mission lock, host and DMA on one command port);
answers lost or late after the effect (commits, browser requests, model calls,
polls that overtake each other); state read before an await, an unlock or a frame
and used after it (the sweep's probe, the flush's batch, the verifier's anchors,
a selection's tiles, a label plan); processes and pages that end between two
steps; counters, caches and buffers at their limits; and geometry that two pieces
of code work out apart and that has to agree.

## 2. Modules and the code they model

    RunContract  <--implements--  RunLifecycle  <--  MCRunLifecycle, RunLifecycle_proofs
                                  RunLifecycle, Missions  <--  MCWorkers
    EventLog     <--implements--  AuditLog      <--  MCAuditLog, AuditLog_proofs
                                  Missions      <--  MCMissions, Missions_proofs
    AccumulatorMemory <--implements-- MmaTile
    TileDma, MmaTile  <-  TensorCore  <--  MCTensorCore, TensorCore_proofs

    UiAudit, RunsWorkspace, ActivityWorkspace,
    StudioPage (over DesignProgram),
    Secded, WorkloadModels                                        <--  MCWebClient
                              UiAudit, RunsWorkspace, StudioPage  <--  WebClient_proofs

    LayoutStream, MacroStream, ViewCamera,
    LayoutPointer, SiliconViews                                   <--  MCSiliconViews
             LayoutStream, MacroStream, ViewCamera  <--  LayoutStream_proofs
                       SiliconViews, LayoutPointer  <--  SiliconViews_proofs

    LayoutFormat <- LayoutExport <- LayoutScene, with Orientations
    DefAnalysis, MacroFloorplan, MacroCells, MacroRoutes,
    SectionPick                                                   <--  MCSiliconData

In `PROJECT.json` a definition is mapped to the lines it stands for; a helper whose
lines lie within those of a mapped definition that uses it has no entry of its own.

The MC modules give a specification's constants small values. Five of them hold
several *parts*: a variable `part` says which specification a behaviour is of, the
variables of the others stay as they began. A part is an ordinary specification of
its own module; putting parts that share a question into one run changes neither
their state graphs nor their fairness, and a property of such a run is the
conjunction of what each part's module states, named for the question.

### RunLifecycle and RunContract

`RunContract` is what a reader of the `runs` table may rely on: submitted,
claimed once, ended once. The one exception is explicit: a run that was ended
while its worker was still executing it (by the abandoned-run sweep) is
*contested*, and only that worker may replace the ending.

`RunLifecycle` has a row's `status`, `cancel_requested`, queue position and age
(`pastGrace`), its row lock, its `run.lifecycle` events, its container, and for
every worker its place in `execute_run` or `reap_abandoned` and its local
variables. A transaction that holds the row lock throughout is one step; the
claim and the cancel request, whose open transactions other processes can
observe through `SKIP LOCKED`, are two. What happens outside transactions
(copying inputs, `docker run`, polling, `docker rm -f`, summarizing) are steps
of their own. Failure is modelled where the code meets it: a transaction that
fails, a commit whose answer is lost (the code sees an exception, the effect is
there), Docker that cannot answer or cannot start, the runner raising, a process
killed anywhere (`Crash`: the transaction rolls back, the container lives on).
`FinalizeError` is the error path; when it fails too, the fallback log is
written and the process ends. `run_inline` is a claim of a specific run.
`_final_status` is `FinalStatuses`: every status the runner's verdict may become,
the content of the tool's output being left open.

### AuditLog and EventLog

`EventLog` is the promise: an event list that grows only at its end, no id
twice, and every visible domain change comes with at least one new event in the
same step; that is what is promised until a row is altered around the triggers.
`AuditLog` has transactions at Postgres's READ COMMITTED level, every
statement a step: begin, a domain write, an append call that takes the advisory
lock, filters stored ids (browser batches only), reads the head, chains and
inserts, then commit or rollback. The write guard is the guard of `Commit`. An
insert waits for a conflicting uncommitted row and fails against a committed one,
as a unique index does. Hashes are modelled by what they are computed from, so
two different rows never collide. Verifications read `BatchRows` rows per
statement, compare with the anchors loaded at the start, and append their head to
the anchors; changes around the append-only triggers (those of
`tests/test_tamper.py`) edit a row, with or without recomputing its hash, relink
it, or delete it.

### Missions

One mission: its status, its tasks' states, requests to a person, the results of
tool runs and of the self-check, recorded usage, and the tokens really used.
Workers advance it (`advance`): take the session advisory lock, pick the first
runnable task, and take one step of its state machine. `seen` is the task as the
worker read it; `Holding` is `fsm.check` under the row lock. The mission's status
is recomputed by `_settle` in the transactions that call it, and in those only.
A model call is four steps: budget check, call, answer, record. The lock can be
lost with its connection while the worker goes on; a worker can be killed
anywhere. People decide the launch and the reviews at any time.

### TileDma, MmaTile, TensorCore, AccumulatorMemory

A step is a clock edge: the inputs of the cycle are parameters, wires are state
functions, and every register gets its next value. Memory is external; the word
at an address is the address itself, so that the operands of an MMA show where
they came from. `MmaTile` has the pipeline's control exactly and its arithmetic
as the constant operator `Mac`. `AccumulatorMemory` is the promise of the tile:
commands take effect one after the other in the order of acceptance, and READs
are answered in that order. `TensorCore` extends the two and connects DMA, tile and
host through the shared port; its history variable `expected` remembers what the accumulator held
when the descriptor started.

### The web workspace's clients

`UiAudit` is the client of `lib/ui-audit.ts`: `flush` up to its `await` is one
step and the code after it another, so everything can happen in between; `Record`
includes the overflow and the flush it may start; `PageHide` is the end-of-session
event and the beacons, of which the browser may accept a part. A request can be
refused, its answer lost, and it can arrive after the client gave up on it
(`strays`). The server is `_prepare` and `_ingest`: rejected events are left out,
stored ones skipped. The page may be restored from the back/forward cache, since
nothing in the client stops it.

`RunsWorkspace` is the Runs tab: in the detail panel every selection starts a log
tail of its own, whose answers outlive it; the polls of the list above it overtake
each other (the platform reads its rows in one step and the answer travels in
another). `ActivityWorkspace` has the filters' debounce and interval,
overlapping refreshes, older pages, traces, verification, sign-in and sign-out.
In all of these a `fetch` is two or three steps and every handler of an answer is
a whole action, with the staleness checks the code makes and no others.

`StudioPage` keeps React's order of updates exactly: a tick's functional update
runs at once if the component has none waiting and otherwise while it renders, and
the update itself stops the interval. The controls that only set a field are the
steps under `Edit`. What the pages compute from their configurations is `DesignProgram`, in
scaled integers. `Secded` (the error code and lane repair) and `WorkloadModels` (the
banked memory and the search for a batch) are the numeric models with a structure
worth checking.

### The silicon viewers' engines

`LayoutStream` is what the layout view streams: `stream()` is one frame (windows of
three levels, dropping queued fetches of a view that has moved on, building,
fading, evicting), `Settle` an answered or failed fetch, and `Task` the awaits of a
selection, whose tiles go through the same queue. The zoom arithmetic of
`lib/a1-layout-view.ts` is at its top, in integers. What one task asks
for, tile by tile without an interruption, is one step over a set of requests, which
`Before` orders as the code makes them: it decides which start at once and in which
order the cache is touched. Of the waiting jobs any of the lowest priority may be
next. `MacroStream` is the same question for the model viewer: chunk windows,
caps and their stamps, the label plan over frames, the hover; what fits in a frame's
milliseconds is left open except for the minimum the code always does.
`LayoutPointer` has presses of two pointers, click timers, the throttled hover and
the label planner, which accepts labels under one camera and places them under
another. The panels that labels avoid are where they were measured last
(`refreshOccluders`, twice a second at most and only when someone asks), while the
page opens and closes them: the selection's panel stands for all of these. The
planner's `blocked` tests every edge of the view, `update` the right one and the top
alone (`Hidden`), as `annotations.ts:171` and `:223` do. `ViewCamera` has flights, wheel impulses and the constraint that settles
the orbit's height, for both engines. `SiliconViews` is the React pages' side:
mounting, staged building with an await after each stage, context loss, failure,
settings sent before there is an engine, and a deferred dispose.

### What the silicon viewers draw

`LayoutExport` runs the exporter in the order of its file: place the cells tile by
tile, find what the viewer can rebuild, cut the rest at tile edges, check the
rebuilds, clear old files, write, manifest last. `LayoutFormat` is the encoding and
the rebuilds both sides share, `LayoutScene` the viewer's side; `DrawsTheDesign` is
then a statement about the whole way from the DEF to the screen. `Orientations` has
the three tables of rotations (placement, DEF pins, GDS references). `DefAnalysis`
walks the tokens of a routing statement, and backward from the registers and the
clock tree for the roles of instances.

The procedural model stores nothing: `MacroFloorplan` (tiles, buses, channels,
mesh, straps), `MacroCells` (rows of cells, their pins, local nets) and
`MacroRoutes` (the maze on the intermediate layers) are rebuilt by every chunk from
its own window, and the properties compare what different windows find. What the
hash decides is chosen freely among what it can produce. The second half of
`MacroRoutes` is the trace of a net through the chunks that happen to be loaded.
`SectionPick` casts the
pointer's ray through chunks, statics, crater and section in both engines, draws
the caps, and names a piece from its material and place (`identifyPrimitive`); its
properties compare that with the picture cut by the plane in a brute-force way and
with what the generator drew the piece for.

## 3. Runs, what they show, and their bounds

All runs are exhaustive within their bounds. "Mishap" stands for a failed
transaction, a lost answer, a killed process or a lost lock.

| Run | Instance | Distinct states | Shows |
|---|---|---|---|
| `RunSafety` | 2 runs, 2 workers, 1 fault, 1 process killed or ended by an exception | 2,345,897 (symmetry) | `OneExecutor`, `ToolOnlyAfterStarted`, `RowAgreesWithLog`, `ResultsStand`, and that the code implements `RunContract` (`KeepsContract`) |
| `WorkerProgress` | 1 run, 2 workers restarted, 2 faults, 1 kill; or a mission of 3 joined tasks, 2 workers, 1 mishap | 729,737 | `RunningEnds`: a claimed run ends, whatever failed or died; `MissionMoves`: a running mission completes, stops, or waits for a person |
| `RunAbandonGone` | 1 run, 2 workers, no fault | – | refutes `AbandonedOnlyWhenGone` (section 7) |
| `AuditLog` | verify: 3 transactions of 1 append, 2 event ids, 2 verifications of 1 row per statement, 2 alterations; append: 3 transactions of up to 2 appends, 1 event id, 2 overlapping browser batches | 3,003,622 (symmetry) | `GaplessChain`, `VerdictIsRight`, `BreakStays`, and the refinement of `EventLog` (`ImplementsLog`) |
| `UiRestored` | 5 events, batches of 2, queue of 5, 1 rejected event | – | refutes `NothingDroppedSilently` (section 7) |
| `MissionSafety` | 3 joined tasks, 2 workers, ceilings of 1 and 2 calls' estimates, calls that use up to twice theirs, 2 mishaps | 8,514,309 | `CompletedIsEarned`, `DoubtsNeedAPerson`, `AskedAndListed`, `ToolsRunOnce`, `BudgetHolds` |
| `MissionCeiling` | the same, 1 mishap, calls within their estimate | – | refutes `CeilingIsHard` (section 7) |
| `TensorCore` | dma: full-size operands (4 words), 3 descriptors of 3, 1 and 0 steps, addresses that wrap; core: 1 word per operand, a 2-step descriptor, host MMA/READ/LOAD/ZERO, 2 accumulators | 112,576 | core: `WordsAreSafe`, `TileIsSummed`, and that the pipeline implements `AccumulatorMemory` (`ImplementsMemory`); dma: `FullSizeIsFed`, `DescriptorsFinish` |
| `WebClient` | audit: 4 events, batches of 2, queue of 3, 2 failures; panel: 2 runs of 2 log pieces, 2 clicks, 1 fault; list: 2 runs, 2 loads at once, 1 fault; activity: 2 events, pages of 1, 2 refreshes at once, 3 acts, 1 fault; studio: 2 ticks, 3 clicks; controls: 3 edits; code: 64 data bits, up to 2 flips, 4 lanes with 2 spares; campaign: 4 requests, 2 banks; serving: 768 workloads | 571,337 | `EventsAreAccounted`, `LogIsOfTheSelection`, `RunningIsDriven`, `AdviceMatchesGates`, `ModelsAreSound`, `ClientCatchesUp` |
| `SiliconViews` | stream: 2 tiles, 3 levels, 1 fetch at a time, cache of 2, 1 move, 2 selections, 1 tile that may fail; strip: 2 levels, 3 views, 2 moves, 1 switch; camera: 3 inputs; pointer: 3 places, 2 gestures, 1 change, a panel; views: 2 mounts, 1 failure, 2 toggles | 402,634 | `SelectionIsItsOwn`, `SceneIsSound`, `ViewsAreSound`, `PointerIsSound`, `SceneCatchesUp`, `ViewsComeToRest` |
| `SiliconData` | scene: every row of 6 sites, and wires, vias and straps over 2 by 2 tiles; wiring: paths of up to 4 moves over 3 layers; roles: 5 instances; floor: the real floorplan; cells: every cell type in blocks of 3 rows; routes: up to 12 occupied sites; trace: 10 pieces in 2 levels; pick: 5 pictures, 4 cameras, 65 rays, and every piece the identification meets | 180,075 | `DrawsTheDesign`, `PinsAreFound`, `ExportIsSound`, `CellNetsAreSound`, `RoutesAreFound`, `PointedAtIsDrawn` |
| `CutFaces` | the part "pick" alone | – | refutes `CutIsHitOnItsFace` (section 7) |

What the properties that gather several statements stand for:

* `ResultsStand`: a cancel accepted in the queue is the run's last word, outputs
  are recorded once, and the runs left running in nobody's hands and unreported are
  at most as many as the processes that were killed or ended on an exception:
  whatever the handlers do see is recorded somewhere.
* `BudgetHolds`: recorded usage passes a ceiling by no more than one call used beyond
  its estimate (`Overrun`), however many calls follow; without the advisory lock, by
  one more call for every worker but one.
* `VerdictIsRight`: no false alarm, and a passed verification means that the prefix
  up to every anchor it held is as it was written.
* `AskedAndListed`: whoever is waited for has been asked, and a mission that is not
  over has a next move.
* `WordsAreSafe`, `FullSizeIsFed`: a response always finds room, and every word
  requested is accounted for; with operands of the real size also that they are
  presented in order.
* `TileIsSummed`: the DMA presents every step's operands in order, and when `done`
  is seen, every product of the descriptor is in the accumulator.
* `EventsAreAccounted`: stored once, in order, shown as sent only if stored, losses
  counted, no event left without something that will move it.
* `LogIsOfTheSelection`, `RunningIsDriven`, `AdviceMatchesGates`: the panel's log;
  the studio's intervals, whatever order React runs their updates in; the T0 page's
  advice and the gates behind it.
* `ModelsAreSound`: the types of the tabs and of the page, the order of the replayed
  agents, the panels that show the same package; SECDED and lane repair (`SecdedHolds`, `RepairIsSound`); banks
  that serve one request at a time, earned row hits, a p99 that at most one in a
  hundred passes, regions that share the load; a serving point nothing feasible
  beats, a search that never drops the answer, held-out chips that move nothing.
* `ClientCatchesUp`: events delivered, the log shown to its end, list and activity
  page up to date, sweep and replay at an end.
* `SelectionIsItsOwn`, `SceneIsSound`, `ViewsAreSound`, `PointerIsSound`: details of
  the present selection, and whole; each tile served by one job and drawn at one
  level; one WebGL context, no GPU object after a dispose, and settings that are the
  toolbar's; of each press one thing at most, no drag that outlasts its press, labels
  that neither overlap, nor pass the right edge, nor lie where a panel was measured
  when they were placed.
* `SceneCatchesUp`, `ViewsComeToRest`: windows filled, selections answered, caps and
  labels of the present plane, scene and panels, and never a cap without a cut; the camera at
  rest on its layer and its controls on exactly while no flight runs, a page ready or
  in error.
* `DrawsTheDesign`, `PinsAreFound`, `ExportIsSound`: the published design is drawn,
  its pins and nets are found from the tiles, exactly sound designs are published,
  the manifest last, wiring is connected metal, roles are reachability.
* `CellNetsAreSound`, `RoutesAreFound`, `PointedAtIsDrawn`: the procedural rows; the
  routes, traces and the die's upper layers as every window sees them (drops of
  routes stand apart from one another and from every place a bus or a channel may
  drop, which `MacroFloorplan` shows to lie on one lattice); what the
  pointer finds, what it is called, and what the section shows.

Why these bounds are enough to be interesting:

* *Runs.* Every race of this component is between two processes over one row,
  plus a second row for the claim order and `SKIP LOCKED`. One fault and one kill
  together reach every pairing of an error path with another worker's handler. A
  worker that can record its error in the fallback file alone may meet that at any
  time, at no cost to the bounds; one that an exception ends outside the handlers
  (`CannotPrepare`, `FinalizeUnsaid`, `FallbackFails`) counts like a kill. The
  progress run allows two faults besides.
* *Audit.* Two appenders race and a third finds what they left. A batch and the
  retry of its second event, repeated within the batch, reach every case of the
  de-duplication. One row per statement is the finest interleaving of a reading
  verifier; two alterations allow one before and one after an anchor.
* *Browser.* A queue of three with batches of two overflows while a batch is in
  flight. Two failures allow a retry to fail. The rejected event is in the middle
  of a batch. Two loads at once overtake each other; a third would do nothing new,
  since only the last answer and the last request are told apart.
* *Missions.* Two branches that join are the smallest graph with an order and a
  choice; one branch runs tools with a verdict. The ceilings are tight enough to
  be hit by the task and by the mission, and a call may use twice what it was
  estimated at. What was really used is counted no further than past the ceiling.
* *Hardware.* The DMA part keeps the real operand size (8 words per step, credit
  of 16) and has more steps than buffers; memory and tile may accept and answer
  in any cycle. The core part shrinks operands to one word, because what varies
  there is the pipeline; the DMA's own behaviour does not depend on the size
  (section 5).
* *Viewers.* Two tiles with one fetch at a time and a cache of two reach the
  dropped fetch, the evicted block that is asked for again, and a selection whose
  tiles wait behind the frame's. The row of the labels has one that only the second
  camera's view has room for, one at that view's left edge, and one where the
  selection's panel opens. Two mounts are one view left and another opened
  while the first is still building or being torn down.
* *Geometry.* Distances, pitches and thresholds are the code's own numbers, in
  integers of a suitable unit, wherever a rounding or a boundary matters
  (`MacroFloorplan`, `MacroCells`, `MacroRoutes`, `MacroStream`, `LayoutStream`).
  Dies, rows and pictures are small but hold every shape that is treated apart:
  pieces across an edge, on it, and beside it.

Bounds are named constants in the modules: `MaxFaults`, `MaxCrashes`,
`MaxAppends`, `MaxAlterations`, `MaxEvents`, `MaxFailures`, `MaxMishaps`,
`MaxClicks`, `MaxListFaults`, `MaxActs`, `MaxActivityFaults`, `MaxEdits`,
`MaxMoves`, `MaxSelections`, `MaxCameraMoves`, `MaxSwitches`, `MaxInputs`,
`MaxChanges`, `MaxMounts`, `MaxToggles`, `MaxLogged`,
`MaxFlips`. Symmetry is used in safety
runs only. Deadlock is checked in the run and tensor-core runs; elsewhere a part
really comes to an end (all transactions finished, a mission over, a user who has
made the last click, a picture examined).

## 4. Fairness

* `RunLifecycle!Fairness`: a live worker keeps executing its code, and the
  transaction of a cancel request ends. Nothing is assumed about the tool: the
  time limit ends it. `RestartSpec`, used for `RunningEnds`, adds that workers
  are started again and again and exit on an empty queue (`worker --once`),
  because the sweep only runs at the start of a worker, that tools end, and
  that time passes. Crashes and faults are finitely many by their bounds, which
  `RunningEnds` needs: a worker killed for ever ends nothing.
* `Missions!Fairness`: `mission worker` advances running missions again and
  again, and each step of a worker ends (model calls by their timeout, tool runs
  by their time limit). Nothing is assumed about people: the property ends where a person
  is waited for.
* `TileDma!Fairness`: the clock runs; memory takes a pending request, answers
  outstanding ones, and the tile takes a presented MMA, eventually.
* The web clients: timers and intervals fire, the browser settles every request,
  and a request that is neither refused nor lost reaches the server. `fetch` has no
  timeout of its own, so this is an assumption about the browser; refusals, losses
  and faults are finitely many by their bounds. Nothing is assumed about clicks:
  whoever goes on clicking may keep a sweep from ending.
* The viewers: a visible tab gets its animation frames, timers and rendered React
  states, and every fetch settles, one way or the other. Nothing makes the camera
  rest or anyone leave: the liveness properties are of the form "in the end, and
  for good", which the bounded number of moves gives its meaning.

MC modules with parts restate each part's fairness, each conjunct limited to its part.

## 5. Proofs

Every theorem is checked to the last leaf; none rests on an unproved lemma, and the
only hypotheses are the assumptions on constants that the modules declare by name
and the runs evaluate. Induction over data is not available (the library's
induction theorems take an operator as parameter); where a proof needs one, it
argues on the least number that fails (`LeastNumber`, from the well-founded
minimum `WFMin`). Inductive invariants were checked by TLC, as invariants of the
component's run, before they were proved.

### Run lifecycle (`RunLifecycle_proofs`)

For any set of runs and workers and any fault and crash bounds, from the
assumptions of `RunLifecycle` (finitely many runs; `NoRun`, `Free` and `Api` are
names of their own; bounds are natural numbers):

* `TypeCorrect`: `Spec => []TypeOK`.
* `InvariantHolds`: `Spec => []IInv`, and from it `OneExecutorHolds`,
  `ToolOnlyAfterStartedHolds`, `RowAgreesWithLogHolds` and `ResultsStandHolds`.
* `ContractKept`: `Spec => KeepsContract`, the refinement of `RunContract`.

None of the properties is inductive. `OneExecutor` is preserved by
`CommitClaim` only because an open claim still has its row, locked and queued,
to itself (`ClaimsHoldTheirRow`), while whoever executes a run has a row that is
neither absent nor queued (`ExecutedRunsAreClaimed`), and no step makes a row
queued again. `ToolOnlyAfterStarted` needs `StartedBeforeLaunch` (a worker about
to launch has committed its event), and `RowAgreesWithLog` needs that a row has
ended exactly when its history has an ending (`EndedByAnEvent`), since a worker
may finalize a run the sweep has already ended. `ResultsStand` adds that a row in
the queue has the history of one (`WaitingIsFresh`: so a cancel in the queue comes
second and last) and that a worker with its ending still to write has a run whose
outputs nobody has recorded (`NotYetRecorded`). That at most `crashes` runs are
stranded is inductive by itself once every action is shown to strand no run but the
one whose process it ends. `IInv` is the conjunction of all
these. The proof goes action by action; lemmas state once what appending events
does to `Has` and `Endings`. For the refinement every action is either a step of
`RunContract` or leaves its rows and its contested runs alone; the contested ones
are those a worker still `Holds`, and `OneExecutor` is what makes the replacing
worker the one the contract allows.

### Audit log (`AuditLog_proofs`)

For any transactions, verifications, event ids and browser batches, any size of a
verifier's batch, and any number of appends and alterations. The assumptions:
`Nobody` is no transaction, batches are sequences, a verification reads at least
one row at a time.

* `TypeCorrect`, and `InvariantHolds`: `Spec => []IInv`, the writers' invariant.
* `GaplessChainHolds`: until a row is altered around the triggers, the committed
  rows are one chain from genesis, numbered without a gap.
* `LogImplemented`: `Spec => ImplementsLog`, the refinement of `EventLog`.
* `VerificationInvariant`: `Spec => []VInv`, and from it `VerdictIsRightHolds` (no
  false alarm; a pass means an intact prefix up to every anchor it loaded) and
  `BreakStaysHolds`.

`IInv` says that only the holder of the advisory lock is appending or has rows of
its own (`OneAppender`), that seqs and ids are unique in the table and in what each
transaction sees (`KeysAreUnique`), that what is being appended lies above the
table (`AppendsAbove`), and that, until a row is altered, the table and each
transaction's view of it are linked chains (`WritersSeeAChain`). The gap between
the lock's release and the end of a transaction is why the views have to be named:
a transaction's rows become visible in the step that releases the lock. For the
refinement the commit of a transaction's rows has to be *one* extension of the
sorted log at its end; `AppendsAbove` is what makes it one, and the write guard
what makes a domain change come with it.

`VInv` adds, for every verification, that what it remembers between its statements
is what the table has as long as no row was altered since it began (`Sane`,
`Current`), that before any alteration nothing fails (`UnalteredPasses`), that
hashes of the table name ended transactions (`HashesAreOld`: a new row never
repeats a hash an anchor holds), and that a break reported is still there
(`BreakIsThere`). Writers interleave freely with the reading; the proof shows that
they only add above the place a verification has reached.

### Missions (`Missions_proofs`)

For any graph of roles, any finite number of workers, and any estimate, ceilings,
use of a call and number of mishaps. The assumptions on the graph are what `agents/roles.py`
satisfies: the roles are listed once each and upstream first, and every task but
the evidence feeds another.

* `TypeCorrect`, and `InvariantHolds`: `Spec => []IInv`.
* `ToolsRunOnceHolds`, `DoubtsNeedAPersonHolds`, `CompletedIsEarnedHolds`,
  `AskedAndListedHolds`, `BudgetHoldsHolds`: the five safety properties of the run
  `MissionSafety`.

The invariant has a part for each thing that different handlers change and that has
to stay in step. `BeforeLaunch`: nothing has moved. `ToolsStartOnce`: tools are
started from a state that no task returns to. `ChecksAreMade`: what a state of a
task presupposes about its tool results and self-check. `UpstreamFirst`: a task
moves, and a worker advances it, only behind accepted tasks. `StatusFollows`: the
mission's status is what `_settle` would make it, whichever transaction ran last,
and a request to a person is open exactly for the tasks that wait for one.
`LockWorks`: without a lost connection one worker advances the mission, and one
task at most waits. `CallsFit`: recorded usage plus all that the open calls may use
stays within the ceilings and the slack of `BudgetHolds`. That a running mission always has a next move
(`AskedAndListed`) and that a completed one has every task accepted
(`CompletedIsEarned`) are arguments on the graph: the first unfinished role in the
list has its upstream accepted, and a last unaccepted task would feed one that was
accepted.

### Tensor tile and core (`TensorCore_proofs`)

Of the tile, for any accumulators, values and arithmetic `Mac`, and whoever drives
the command port, provided that commands are well formed (`CommandsAssumption`: their opcode is
one of four, their accumulator exists, loaded and computed values are values):

* `TileIsAtomic`: `TileSpec => ImplementsMemory`, the refinement of `AccumulatorMemory`:
  no command sees a stale accumulator, and every READ is answered once, in order,
  with what the commands before it left.
* `TileInvariantHolds`: `TileSpec => []TileInv`: nothing ahead of an MMA in the pipeline writes
  its accumulator, and what it was multiplied onto is what that accumulator holds.

The refinement maps a pipeline to the accumulators as they will be once its three
stages have committed. A stalled clock changes nothing (`StallKeeps`); any other
commits S3 and moves S2 and S1 up, which leaves that image where it was
(`ContentsMove`, and `AnswersMove` for the queue of answers), and a command accepted
acts on it last (`EdgeIsClock`). The invariant is where the hazard check counts: an
MMA is held back only while S1 or S2 writes its accumulator, because S3 commits in
the cycle in which S1 would read.

Of the core, for operands of any size and any descriptors besides, provided that
the host's commands and the MMAs that the DMA makes of a descriptor's accumulator
and of addresses are among the well-formed ones (`CoreAssumption`; the run evaluates
it):

* `CoreInvariantHolds`: `CoreSpec => []CoreInv`. DMA and tile keep their invariants
  while they share the command port, `done` is seen of an idle engine only, and
  `Summed`: unless the host wrote it since, the descriptor's accumulator holds the
  sum over the steps issued.
* `CoreSums`: `CoreSpec => []TileIsSummed`.
* `CoreIsAtomic`: `CoreSpec => ImplementsMemory`: the core presents the tile nothing
  but well-formed commands.
* `CoreFeeds`: `CoreSpec => []WordsAreSafe`: the tile's ready depends on the host's
  commands too, and the DMA's accounting does not mind.

The sum over a descriptor is a recursive function, which no induction theorem can be
applied to here. `Summed` therefore carries its values as a witness: some function
that starts at what the accumulator held and takes one `Mac` per step. A cycle in
which the DMA's command is taken extends the witness by one step, because the word
presented is that step's (`OrderInv` of the DMA) and the memory image takes
the MMA last (`EdgeIsClock`); any other cycle leaves the accumulator or is a write of
the host's. That the witness is *the* sum is a separate lemma (`SumsAreUnique`): two
solutions that differ would differ first at some step, and there they take the same
`Mac` of equal values.

### Tile DMA (`TensorCore_proofs`)

For operands of any size, any address range and any descriptors, and any timing
of memory and tile:

* `TypeCorrect`: `Spec => []TypeOK`; in particular addresses stay in range.
* `ResponsesFit`: `Spec => []CreditSuffices`. Responses cannot be stalled, so a
  word in flight must always find room in the buffer that receives.
* `WordsAccounted`: `Spec => []NoWordLost`. Requests, words held and MMAs issued
  balance, and a finished descriptor leaves nothing in flight or buffered.
* `OperandsOrdered`: `Spec => []OperandsInOrder`. The MMA presented has the rows and
  columns of the next step, each word from its address and in its place
  (a part of `TileIsSummed` and of `FullSizeIsFed`).
* `InvariantHolds`: `Spec => []IInv`, and `OrderHolds`: `Spec => []OrderInv`.

The credit bound says how much may be held in all, not where. `BuffersFit` adds
how the pointers relate to the buffers: when read and write pointer differ, the
read buffer is full and the other is filling; when they agree, the other buffer
is empty or both are full. Both full uses up the whole credit, so nothing is then
in flight: that is why a response never lands in a full buffer. The end of a
descriptor needs the accounting equation
`(reqStep - issued) * Words + reqWord = Held + Len(ready)`: with the last MMA
presented it leaves zero for `Held`. `HeldNext` and `AccountNext` follow the two
sides of it through an edge, `BuffersNext` the pointers.

`OrderInv` numbers the words of a descriptor over all its steps. The issue buffer,
the buffer to be read, the other one and the memory's queue then hold consecutive
stretches of that numbering, beginning at `issued * Words` (`InOrder`), and the
address registers are those of the word that comes next (`RequestsNext`). A request
appends the next word because of the accounting equation; handing a buffer over, or
swapping the two, moves the stretches without breaking them up. The modular
arithmetic of the address walk (`RestOfSums`, `RestOfWalk`) and the division of a
word's number into step and place (`StepAndPlace`) are lemmas of their own.

### Browser audit client (`WebClient_proofs`)

For any number of events and failures, any batch and queue size (of at least one)
and any set of events the server rejects (`ClientBounds`):

* `InvariantHolds`: `Spec => []IInv`.
* `EventsAccounted`: `Spec => []EventsAreAccounted`: an event is stored once, and never
  if the server rejects it; what waits in the queue has a flush under way or a timer
  that will start one; and until the page is hidden, events are stored in the order
  of recording (unless the queue overflowed), those shown as sent are stored, and
  those that left the queue untold are counted as dropped.

Events are numbered as they are recorded. `Shape` says that the queue and every batch
(the one in flight, those of beacons, copies that outlive the client's patience) are
runs of consecutive numbers, and that the batch in flight starts no later than the
queue does. The overflow takes from the front of the queue while a batch cut from
that front is still under way, and the code after the `await` then cuts the batch's
length off what is left: `Counted` is the arithmetic that shows that this loses no
more events than the overflow counted. `InOrder` says that the log holds the events
up to some number, less the rejected ones, and that every batch on its way starts
with the next one or earlier; so what it adds continues the log. `AcceptedIsStored`
relates the answer a client will see to what the server has done. Once the page has
been hidden the last part of this fails, which is what the run `UiRestored` shows.

### Layout streaming and selection (`LayoutStream_proofs`)

For any number of tiles and views, any nets and cells, any cache size and limit on
fetches, and any number of moves and selections; the zoom's thresholds are the
code's. `StreamAssumption` gives the constants their types, asks for at least one
tile, one fetch at a time and one cached block, and keeps "none" from being a name:

* `InvariantHolds`: `Spec => []IInv`.
* `SelectionIsAnsweredAsItself`: `Spec => []SelectionIsItsOwn`: the details shown are
  of the present selection, however late the answers of earlier ones, and when its
  pins are shown, every tile they are read from has come or failed.
* `RequestsAreServedOnce`: `Spec => []SceneIsSound`: every pending promise has exactly
  one job that will settle it, and no tile is drawn at two levels at once.

The queue of fetches is shared between the camera's windows and the selections. A
frame drops from it what its windows no longer want; the proof rests on
`AwaitedIsServed`: a tile that a selection's task awaits is flying, or queued with a
priority no frame drops, also when a window had asked for it first and when the
window asks again. `PinsAreAccounted` says that every tile the pins are read from has
come, is awaited, or failed, so that a task with nothing left to await is complete.
`TaskIsOfTheSelection` is what the token is for: an overtaken task publishes nothing.
`PendingIsServed` is preserved because a settled fetch starts the next waiting ones while
fetches are free; the lemmas on `StartsNow`, on the least priority asked for and on
cardinalities are stated once and cited by the two kinds of steps that ask for tiles.

### Cameras and section of both viewers (`LayoutStream_proofs`)

* `ControlsAlwaysFollow`: `CameraSpec => []ControlsFollowFlights`, for flights of any
  length: dragging and rotating work exactly while no flight runs. `FlightInv` adds
  that a flight under way has frames left, so that its last frame is the one that ends
  it and gives the controls back.
* `CapsNeedACut`: `MacroSpec => []NoCapsWithoutACut`, for any levels, windows, budgets
  and views: without a section there is no cut face, also on a chunk that was kept
  from before or came while the caps were being rebuilt. It is inductive as it stands.

### Log panel of the Runs tab (`WebClient_proofs`)

For any runs, any length of a log, of an answer and of what the page keeps, and any
number of clicks and failures (`RunsAssumption` gives the constants their types):

* `LogStaysOfTheSelection`: `RunsSpec => []LogIsOfTheSelection`: the log shown under a
  selected run is that run's, piece after piece from the oldest kept, unless an answer
  was not a log at all; then its mark is in what is shown.

Every selection starts a tail whose answers may come after the next selection.
`LogInv` says two things of the tails. `BufferFits` and `ChunkFits`: what a tail has
gathered ends exactly at the offset from which it will ask, and an answer that is on
its way begins there, so that appending one to the other leaves no gap and no
repetition (`GoesOn`), and keeping the end of it neither (`LastKeptEnds`); an answer
without an offset leaves a mark that no later answer removes (`MarkStays`). `OneTail`:
a tail that is not cancelled is the selected run's, so what is shown is. The selection
of the same run once more clears the log and keeps the tail, whose next answer brings
back what it had gathered.

### Studio page (`WebClient_proofs`)

For any T0 configurations, any length of a sweep, any number of ticks that wait for a
rendering and of clicks (`StudioAssumption` gives the constants their types; a T0
configuration is a record of natural numbers):

* `RunsAreDriven`: `StudioSpec => []RunningIsDriven`: a sweep or a replay that is shown
  as running has an interval set, or the tick that ends it is among those waiting.
* `AdviceIsWhatTheGatesSay`: `StudioSpec => []AdviceMatchesGates`: for the configuration
  and every candidate of its sweep, a risk is named for exactly the bounds it misses;
  and entry to T1 and fabrication stay on hold.

`StudioInv` is `RunningIsDriven` with the shape of what it speaks of. A tick that ends
the run at once clears the interval before the status changes, and a late
one clears whatever interval the reference holds, also one that a click has just set;
so "running has an interval" is not inductive, and not true. `Rendered` is the lemma all
but the ticks rest on: a rendering that works off the queue preserves the invariant
whatever the click sets, provided the click sets an interval with every "running"
(`Sound`). `TickQueued` says that a tick that is queued leaves what was ending a run
ending it. For the gates, `ClampedIsAnInteger` and `CandidatesAreMeasured` say that a
sweep's candidates are again numbers, so that a bound is missed or met.

### Silicon pages (`SiliconViews_proofs`)

For any number of views opened, of failures and of toggles (`ViewsAssumption`):

* `ViewsInvariantHolds`: `ViewsSpec => []ViewsInv`.
* `NothingIsLeftBehind`: `ViewsSpec => []NothingLeftBehind`: one WebGL context lives at
  a time, and an engine that was left holds nothing once its teardown has run.
* `SettingsAlwaysAgree`: `ViewsSpec => []SettingsAgree`: a view that is ready works by
  the toolbar's settings, those changed while it loaded included.
* `ViewsStaySound`: the two together, `ViewsSpec => []ViewsAreSound`.

The pages order their work by zero timers: the build starts in one, the teardown of
the engine before it in another, and leaving a page clears the start it had set.
`TimersFit` is the order that results: a start is the last timer there is and of the
view on the page, a teardown is the first and of one that was left. So when a start
fires, every earlier engine has been torn down, although the new page was mounted
while the old one's context still lived. `PhasesFit` says that whatever works, draws or
waits belongs to an engine, and that one torn down has nothing left, also if its build
was waiting for the GPU or its overlay was still being fetched. Clearing a timer
removes the last element of the list (`ClearLast`), wherever the view was left
(`CleanUpTimers`).

### Layout pointer and labels (`SiliconViews_proofs`)

For any wires and cells in the row of places, any number of inputs and of chunks built
or evicted (`PointerAssumption`):

* `PointerStaysSound`: `PointerSpec => []PointerIsSound`: a press moves the view, or
  selects, once, or does nothing; the view is dragged only by a pointer that is still
  pressed; and the chips on the screen neither overlap, nor pass the view's right
  edge, nor lie where a panel was measured when they were placed. A panel that opened
  since may cover one; that none stays there is `SceneCatchesUp`'s, and only checked.

What a press may still do depends on what it did before, so `PressesFit` relates the
two for both pointers at once: one that is held has selected nothing yet, and has moved
the view only if it is the pointer the drag captured; then `ClicksPan` selects with a
release only where nothing moved. A cancellation ends the drag without a click. For the
labels, `LabelShape` says that the planner's list and the chips shown have the same
slots wherever the planner was interrupted, also with anchors chosen under another
camera. `update` decides slot after slot whether it is free, a recursive function whose
value is a `CHOOSE`; `DecidedExists` shows by the least number for which there would be
none that there always is one, and `UpdateStandsApart` that whatever is decided so
stands apart.

### Orientations (`Orientations`)

For cells of any size and points anywhere in them, without assumptions:

* `PlaceStaysInBox`, `PlaceRectFits`: a placed point, and a placed pin's rectangle
  reordered by its corners, lie in the placed box, in all eight orientations.
* `TurnIsPlace`: the DEF parser's turn followed by a shift is the exporter's
  closed form of the placement.
* `RefIsTurn`, `RefsAreAllOrients`: the GDS reader's mirror-and-rotate of a
  reference is the turn of the orientation it is read as, and every orientation is
  one of some reference.

The three tables live in three files and are used on the same cells; a run could
only compare them at a few points. Each proof is a case per orientation, with the
linear arithmetic left to SMT.

## 6. What is only model-checked

* Liveness: `RunningEnds`, `MissionMoves`, `DescriptorsFinish`, `ClientCatchesUp`,
  `SceneCatchesUp`, `ViewsComeToRest`. The prover does not handle fairness and
  ENABLED.
* The parts that `SceneCatchesUp` and `ViewsComeToRest` say of every state besides
  `ControlsFollowFlights` and `NoCapsWithoutACut`: the type invariants of
  `LayoutStream`, `MacroStream`, `ViewCamera` and `SiliconViews`, as far as the
  inductive invariants do not contain them.
* `ModelsAreSound` and the properties of the silicon data (`DrawsTheDesign`,
  `PinsAreFound`, `ExportIsSound`, `CellNetsAreSound`, `RoutesAreFound`,
  `PointedAtIsDrawn`): folds, breadth-first searches and route geometry, whose
  values for every input need inductions over data, or the code's own numbers,
  with no parameter to generalize over.

## 7. Where code and documentation disagree

* **A run can be marked abandoned while its container runs** (`RunAbandonGone`).
  `reap_abandoned` probes the container before it locks the row. A worker that is
  slow to launch can start the container in between. `runs/service.py:10` says a
  run is abandoned "only when its container is provably gone". The damage is
  limited: the worker finalizes the run and replaces the ending, as `RunContract`
  states.
* **A restored page can lose events that no counter shows** (`UiRestored`).
  After its `await`, `flush` cuts the length of its batch off a queue that the
  beacons have emptied meanwhile; events recorded after the page is restored go
  with it. `lib/ui-audit.ts:5`: "Nothing is dropped silently".
* **The mission's token ceiling is not hard** (`MissionCeiling`). Usage is
  recorded after the answer; a worker killed in between leaves tokens unrecorded
  and the next advance calls again. `agents/gateway.py` promises hard budgets.
  The same promise fails in a plainer way that needs no kill: `gateway.py:5-7`
  refuses "a call that could cross" a ceiling, but by an estimate that is a rule of
  thumb (`:199`), and what the provider reports is recorded as it is (`:228-231`).
  What does hold is `BudgetHolds`: recorded usage passes a ceiling by one call's
  excess over its estimate, and by one call per worker that advances without the lock.
* **A cut cylinder is not hit on its cut face** (`CutFaces`). `cylinderEnter`
  decides whether a ray starts inside the side wall from the ray's origin, not from
  its point at `tMin` (`lib/silicon-parts.ts:661`), so a via that the section plane
  cuts is found at its far wall, or behind the die's cut face.
  `lib/silicon-parts.ts:660`: "Starting inside the side wall (e.g. at a section
  plane) counts as a hit at tMin". `SectionIsSound`, checked by the passing run,
  excepts exactly these hits.

Narrower exceptions that the properties carry, named where they are defined:

* A run can be left running with nobody told although no process was killed. The
  handler of a failed finalization builds its message from `str(exc).splitlines()[0]`
  (`runs/service.py:292`), which raises `IndexError` when the exception has no
  message: `_finalize_error` is not reached, nothing is recorded, and the worker's
  process ends, against the comment at 290 ("Never leave a run stuck in `running`:
  record why finalization failed"). A run whose adapter or spec cannot be read
  (`:259-260`, before the `try`) stays running in the same way. `ResultsStand` counts
  such ends with the killed processes; a sweep finds the runs when it comes to run
  (`RunningEnds`).
* A coarse chunk of the layout view counts the cells stored in it, without the
  fillers and taps that its full tiles would rebuild (`a1-layout-scene.ts:457-467`,
  `:513-519`): `CountsAreRight` expects fillers and taps only where every tile in
  view is there in full.
* The planner keeps labels off the view's left edge and bottom, and `update`, which
  places them later under another camera, does not (`annotations.ts:171`, `:223`).
  `LabelsStandApart` claims the right edge only, `LabelsRest` both for labels planned
  under the camera at rest.
* The gates of a DECAP before its last column are drawn as dummies, and
  `identifyPrimitive` names them transistor gates (`NamedAsDrawn`).
* The outer bundles of the side PHYs run to the vertical edge lane beyond that
  lane's end and join nothing there (`lib/silicon-macro.ts:836`; the comment at
  829 says that links meet every line). `PhyIsDriven`, a part of
  `DieHangsTogether`, states the drivers' end only.
* The layout view may evict a tile's chunk after it has hidden the coarse chunk
  under it in the same frame (`layout-engine.ts:2030`): nothing of that place is
  drawn for one frame. `SceneCatchesUp` says that it does not last.

## 8. What is not modelled

* The content of tool outputs, prompts, plans, event metadata and prices: the
  models keep what control flow reads of them.
* Redaction and canonical JSON: data transformations without state.
* Postgres deadlock detection: `decide` and the gateway lock a task before the
  mission (`agents/mission.py:144`), other paths the mission first; Postgres aborts
  one transaction, which the model has as a transaction that fails.
* Two runs that produce the same bytes (`runs/service.py:350`): the failed insert
  appears as a failed finalization.
* A fetch that never settles (`lib/ui-audit.ts:249`), a batch the server refuses for
  ever (`:274`), and a beacon that the browser takes and never sends (`:296`): the
  liveness of `UiAudit` assumes none of them happens.
* Request middleware, fail-closed auditing and the fallback file (`middleware.py`,
  `audit/writer.py:206-319`), sessions and the login rate limit, and the artifact
  store: in the plan.
* The T0 memory channel, sparse gather and lane repair as RTL. Its ECC flags are
  registered a cycle before `rsp_valid` (`rtl/aimem_t0_channel.sv:81`;
  `docs/RSI_PLATFORM_PLAN.md:199` records this): in the plan. `Secded` has the web's reference
  model of the same code.
* Floating-point arithmetic: `Mac` is a constant operator; the repository checks
  the arithmetic against golden models (`verification/a1`).
* Counter widths in the RTL: 16-bit step counters cannot overflow, because the
  step count itself has 16 bits; the occupancy counters are bounded by
  `CreditSuffices`. Reset during operation is not modelled.
* Of the web workspace: React components that only render, CSS, shaders, materials,
  textures, glow and bloom, `Chip3DExplorer`, the evidence strip, the texts of
  `silicon-explain.ts` and of the part catalogue, die textures, the digital and
  physical implementation pages. They keep no state that another part reads; a
  property about them would be about wording or looks.
* Of the layout export: the bytes of tiles and pictures, LEF and Liberty parsing,
  names and statistics.
* Of the numeric models: currency, yields and costs; the regression that calibrates
  the serving model; the seeded random generators, whose results are chosen freely
  instead.
* The physical flow, correlation and evidence tools: offline batch programs, and
  the data they produce; run specifications, adapters, toolchains, services,
  configuration, telemetry, CLI, migrations and the agents' worktree: parsing,
  wiring and file systems without shared state of their own.

## 9. Plan

Modelled so far: the platform's core promises (runs, audit log, missions), the A1
core, the web workspace's clients and panels, both silicon viewers, and what they
are drawn from. In order, what follows:

1. **Proofs about the existing models.** The windows of `MacroStream` and the heights
   of `ViewCamera`, whose types are only checked so far.
2. **Request auditing** (`middleware.py`, `writer.audited_step`,
   `write_fallback`): a request's started and finished events around the domain
   transaction, each of which can fail; abstract promise: whatever took effect is
   in the log or in the fallback file.
3. **T0 memory channel** (`aimem_t0_channel.sv`, `aimem_sparse_gather.sv`,
   `aimem_lane_repair.sv`): request and response pairing under backpressure, the
   gather's counters, and the ECC flags.
4. **Artifact store and runs**: put, row and link, composed with two
   finalizations, replacing the abstract failure of `FinalizeFails`.
5. **Sessions and rate limit**: revocation and expiry against requests in flight.
6. **Compositions**: missions over runs (a tool step's outcome as the ending of
   a run), the browser client over the audit log's append, and the viewer pages
   over their streaming engines.

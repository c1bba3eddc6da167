---------------------------- MODULE RunsWorkspace ---------------------------
(***************************************************************************)
(* The Runs tab (components/RunsWorkspace.tsx) against the platform's run  *)
(* API (api/runs.py): the detail panel with the live log tail of the       *)
(* selected run, the buttons that start, cancel and rebuild runs, and the  *)
(* list of runs with its evidence cards.                                   *)
(*                                                                         *)
(* Every answer may come late: each selection starts a tail of its own     *)
(* whose answers outlive it, and the list is polled, so that an answer may *)
(* be overtaken by the next load's.                                        *)
(*                                                                         *)
(* Abstractions: a log is numbered pieces, of which an answer carries up   *)
(* to ChunkPieces and the page keeps the last KeptPieces; how long the     *)
(* timers wait is left out; the tab stays open.  /evidence and /runs are   *)
(* one answer; a load the user asks for (after starting or cancelling a    *)
(* run) is one the interval makes.                                         *)
(***************************************************************************)
EXTENDS Naturals, SequencesExt

CONSTANTS
  Runs,         \* the runs there may be
  LogPieces,    \* pieces of a run's whole log
  ChunkPieces,  \* run_log_chunk_bytes
  KeptPieces,   \* the 200 000 characters the page keeps
  MaxClicks,    \* bound: things the user does
  MaxFaults,    \* bound: answers that fail
  LoadSlots,    \* bound: loads of the list under way at once
  MaxListFaults \* bound: loads that fail

RunsAssumption ==
  /\ {LogPieces, ChunkPieces, KeptPieces} \subseteq Nat \ {0}
  /\ {MaxClicks, MaxFaults, LoadSlots, MaxListFaults} \subseteq Nat

NoRun == "no run"
Garbage == <<NoRun, 0>>      \* what an answer that is not a log adds to it
Undefined == LogPieces + 1   \* and the offset it leaves
Statuses == {"absent", "active", "ended"}

VARIABLES
  rowStatus, written,   \* the platform: each run's row and its log file
  selectedId,        \* the page: the selected run
  detail,            \* the run in the panel and its status, as answered
  log,
  tails,             \* one closure of the tail's effect per selection
  asked,             \* the click that awaits its answer, and its run
  reconstruction,    \* the run whose reconstruction is shown
  runClicks, faults,
  session,           \* the page's state, as the last load left it
  listed,            \* the runs it lists, and their statuses
  loads,             \* the loads under way, with what they have read
  listFaults

platform == <<rowStatus, written>>
logPanel == <<selectedId, detail, log, tails>>
listVars == <<session, listed, loads, listFaults>>
runsVars == <<platform, logPanel, asked, reconstruction, runClicks, faults, listVars>>
----------------------------------------------------------------------------
Answer == [pending |-> TRUE]
Nothing == [run |-> NoRun, status |-> "absent"]

NewTail(r) == [run |-> r, offset |-> 0, buffer |-> <<>>, cancelled |-> FALSE,
               at |-> "timer", row |-> "pending", chunk |-> Answer]

Idle == [doing |-> "nothing", run |-> NoRun]

NoRuns == [r \in Runs |-> "absent"]
Free == [at |-> "free", seen |-> NoRuns]

RunsInit ==
  /\ rowStatus \in [Runs -> {"absent", "active"}]
  /\ written = [r \in Runs |-> 0]
  /\ selectedId = NoRun /\ detail = Nothing /\ log = <<>> /\ tails = <<>>
  /\ asked = Idle /\ reconstruction = NoRun
  /\ runClicks = 0 /\ faults = 0
  /\ session = "idle" /\ listed = NoRuns /\ listFaults = 0
  /\ loads = [s \in 1 .. LoadSlots |-> Free]

Fault == faults < MaxFaults /\ faults' = faults + 1
----------------------------------------------------------------------------
\* The platform, and others who use it.

LogGrows(r) ==
  /\ rowStatus[r] = "active" /\ written[r] < LogPieces
  /\ written' = [written EXCEPT ![r] = @ + 1]
  /\ UNCHANGED <<rowStatus, logPanel, asked, reconstruction, runClicks, faults, listVars>>

RunEnds(r) ==
  /\ rowStatus[r] = "active"
  /\ rowStatus' = [rowStatus EXCEPT ![r] = "ended"]
  /\ UNCHANGED <<written, logPanel, asked, reconstruction, runClicks, faults, listVars>>

\* Someone else submits one.
RunSubmitted(r) ==
  /\ rowStatus[r] = "absent"
  /\ rowStatus' = [rowStatus EXCEPT ![r] = "active"]
  /\ UNCHANGED <<written, logPanel, asked, reconstruction, runClicks, faults, listVars>>

\* GET /api/runs/{id}/log: the row is read, then the file from the offset on.
getRunLog(r, offset) ==
  LET to == IF offset + ChunkPieces < written[r] THEN offset + ChunkPieces ELSE written[r]
  IN  [text |-> [i \in 1 .. to - offset |-> <<r, offset + i>>], next |-> to,
       complete |-> rowStatus[r] = "ended"]
----------------------------------------------------------------------------
\* The panel.

\* selectRun: the panel is cleared; the tail's effect runs again only if the
\* selection changes.
selectRun(r) ==
  /\ selectedId' = r
  /\ detail' = Nothing
  /\ log' = <<>>
  /\ reconstruction' = NoRun
  /\ tails' = IF r = selectedId THEN tails
              ELSE Append([i \in DOMAIN tails |-> [tails[i] EXCEPT !.cancelled = TRUE]], NewTail(r))

Click == runClicks < MaxClicks /\ runClicks' = runClicks + 1 /\ UNCHANGED <<faults, listVars>>

ClickRow(r) ==
  /\ Click
  /\ rowStatus[r] # "absent" \* it is in the list
  /\ selectRun(r)
  /\ UNCHANGED <<platform, asked>>

\* The panel's Close button.
ClickClose ==
  /\ Click
  /\ detail # Nothing
  /\ selectedId' = NoRun
  /\ tails' = [i \in DOMAIN tails |-> [tails[i] EXCEPT !.cancelled = TRUE]]
  /\ UNCHANGED <<platform, detail, log, asked, reconstruction>>

Ask(doing, r) == asked = Idle /\ asked' = [doing |-> doing, run |-> r]

\* startRun: the platform queues the run, its answer selects it.
startRun(r) ==
  /\ Click
  /\ rowStatus[r] = "absent"
  /\ Ask("start", r)
  /\ rowStatus' = [rowStatus EXCEPT ![r] = "active"]
  /\ UNCHANGED <<written, logPanel, reconstruction>>

StartAnswered ==
  /\ asked.doing = "start"
  /\ asked' = Idle
  /\ selectRun(asked.run)
  /\ UNCHANGED <<platform, runClicks, faults, listVars>>

StartFails ==
  /\ asked.doing = "start" /\ Fault
  /\ asked' = Idle
  /\ UNCHANGED <<platform, logPanel, reconstruction, runClicks, listVars>>

\* cancel: a queued run ends at once, a running one later, if at all.
cancel ==
  /\ Click
  /\ detail.status = "active"
  /\ Ask("cancel", detail.run)
  /\ \/ UNCHANGED rowStatus
     \/ rowStatus[detail.run] = "active" /\ rowStatus' = [rowStatus EXCEPT ![detail.run] = "ended"]
  /\ UNCHANGED <<written, logPanel, reconstruction>>

CancelAnswered ==
  /\ asked.doing = "cancel"
  /\ asked' = Idle
  /\ UNCHANGED <<platform, logPanel, reconstruction, runClicks, faults, listVars>>

reconstruct ==
  /\ Click
  /\ detail # Nothing
  /\ Ask("reconstruct", detail.run)
  /\ UNCHANGED <<platform, logPanel, reconstruction>>

\* Its answer is shown in whatever panel is open.
Reconstructed ==
  /\ asked.doing = "reconstruct"
  /\ asked' = Idle
  /\ reconstruction' = asked.run
  /\ UNCHANGED <<platform, logPanel, runClicks, faults, listVars>>

\* poll: the row and the log are asked for together...
Poll(i) ==
  /\ tails[i].at = "timer" /\ ~tails[i].cancelled \* the clean-up clears the timer
  /\ tails' = [tails EXCEPT ![i].at = "asked"]
  /\ UNCHANGED <<platform, selectedId, detail, log, asked, reconstruction, runClicks, faults, listVars>>

\* ...and answered one by one: "error" is an answer whose body is not what
\* was asked for, "empty" one that is not JSON.
RowRead(i) ==
  /\ tails[i].at = "asked" /\ tails[i].row = "pending"
  /\ \/ tails' = [tails EXCEPT ![i].row = rowStatus[tails[i].run]] /\ UNCHANGED faults
     \/ Fault /\ \E e \in {"error", "empty"} : tails' = [tails EXCEPT ![i].row = e]
  /\ UNCHANGED <<platform, selectedId, detail, log, asked, reconstruction, runClicks, listVars>>

Garbled == [text |-> <<Garbage>>, next |-> Undefined, complete |-> FALSE]
Empty == [empty |-> TRUE]

LogRead(i) ==
  /\ tails[i].at = "asked" /\ tails[i].chunk = Answer
  /\ LET good == getRunLog(tails[i].run, tails[i].offset)
     IN  IF tails[i].offset = Undefined
           THEN tails' = [tails EXCEPT ![i].chunk = Garbled] /\ UNCHANGED faults
           ELSE \/ tails' = [tails EXCEPT ![i].chunk = good] /\ UNCHANGED faults
                \/ Fault /\ \E c \in {Garbled, Empty} : tails' = [tails EXCEPT ![i].chunk = c]
  /\ UNCHANGED <<platform, selectedId, detail, log, asked, reconstruction, runClicks, listVars>>

LastOf(s) == SubSeq(s, IF Len(s) > KeptPieces THEN Len(s) - KeptPieces + 1 ELSE 1, Len(s))

Arrived(t) == t.at = "asked" /\ t.row # "pending" /\ t.chunk # Answer
NoAnswers(t) == [t EXCEPT !.row = "pending", !.chunk = Answer]
Over(i) == tails' = [tails EXCEPT ![i] = [NewTail(@.run) EXCEPT !.cancelled = tails[i].cancelled, !.at = "stopped"]]

\* Both answers have arrived: shown, and the next poll set unless the run is
\* complete or the log's answer was empty.
Shown(i) ==
  LET t == tails[i]
      buffer == LastOf(t.buffer \o t.chunk.text)
  IN  /\ detail' = CASE t.row = "empty" -> detail
                     [] t.row = "error" -> Nothing
                     [] OTHER -> [run |-> t.run, status |-> t.row]
      /\ IF t.chunk = Empty THEN Over(i) /\ UNCHANGED log
         ELSE /\ log' = buffer
              /\ IF t.chunk.complete THEN Over(i)
                 ELSE tails' = [tails EXCEPT ![i] = [NoAnswers(t) EXCEPT
                                  !.buffer = buffer, !.offset = t.chunk.next, !.at = "timer"]]

\* Mistake: a tail shows what it asked for before it was cancelled.
PollAnsweredAnyway(i) ==
  /\ Arrived(tails[i])
  /\ Shown(i)
  /\ UNCHANGED <<platform, selectedId, asked, reconstruction, runClicks, faults, listVars>>

PollAnswered(i) ==
  /\ Arrived(tails[i])
  /\ IF tails[i].cancelled THEN Over(i) /\ UNCHANGED <<detail, log>> ELSE Shown(i)
  /\ UNCHANGED <<platform, selectedId, asked, reconstruction, runClicks, faults, listVars>>

\* A request that gets no answer ends the tail.
PollFails(i) ==
  /\ tails[i].at = "asked" /\ Fault
  /\ Over(i)
  /\ UNCHANGED <<platform, selectedId, detail, log, asked, reconstruction, runClicks, listVars>>
----------------------------------------------------------------------------
\* The list.

panelVars == <<platform, logPanel, asked, reconstruction, runClicks, faults>>

\* Mistake: a platform that was unreachable is not asked again.
LoadWhileReachable(s) ==
  /\ loads[s].at = "free" /\ session # "unreachable"
  /\ loads' = [loads EXCEPT ![s].at = "asked"]
  /\ UNCHANGED <<panelVars, session, listed, listFaults>>

\* The interval's load, however many are still under way.
load(s) ==
  /\ loads[s].at = "free"
  /\ loads' = [loads EXCEPT ![s].at = "asked"]
  /\ UNCHANGED <<panelVars, session, listed, listFaults>>

\* The platform reads its rows; then its answer travels.
ListRead(s) ==
  /\ loads[s].at = "asked"
  /\ loads' = [loads EXCEPT ![s] = [at |-> "read", seen |-> rowStatus]]
  /\ UNCHANGED <<panelVars, session, listed, listFaults>>

Loaded(s) ==
  /\ loads[s].at = "read"
  /\ loads' = [loads EXCEPT ![s] = Free]
  /\ session' = "ready"
  /\ listed' = loads[s].seen
  /\ UNCHANGED <<panelVars, listFaults>>

LoadFails(s) ==
  /\ loads[s].at # "free"
  /\ loads' = [loads EXCEPT ![s] = Free]
  /\ listFaults < MaxListFaults /\ listFaults' = listFaults + 1
  /\ UNCHANGED panelVars

\* /api/auth/me refuses: the rest of the load is left out.
SignedOut(s) ==
  /\ LoadFails(s)
  /\ session' = "signed-out"
  /\ UNCHANGED listed

\* The list's answer is an error: an empty list.
ListRefused(s) ==
  /\ LoadFails(s)
  /\ session' = "ready"
  /\ listed' = NoRuns

Unreachable(s) ==
  /\ LoadFails(s)
  /\ session' = "unreachable"
  /\ UNCHANGED listed
----------------------------------------------------------------------------
TailSteps(i) == Poll(i) \/ RowRead(i) \/ LogRead(i) \/ PollAnswered(i)
Answers == StartAnswered \/ CancelAnswered \/ Reconstructed
ListSteps(s) == load(s) \/ ListRead(s) \/ Loaded(s)
User == ClickClose \/ cancel \/ reconstruct \/ \E r \in Runs : ClickRow(r) \/ startRun(r)

RunsNext ==
  \/ \E r \in Runs : LogGrows(r) \/ RunEnds(r) \/ RunSubmitted(r)
  \/ User \/ Answers \/ StartFails
  \/ \E i \in DOMAIN tails : TailSteps(i) \/ PollFails(i)
  \/ \E s \in DOMAIN loads :
       ListSteps(s) \/ SignedOut(s) \/ ListRefused(s) \/ Unreachable(s)

\* Timers fire, the platform answers and its runs end.
RunsFairness ==
  /\ \A r \in Runs : WF_runsVars(RunEnds(r))
  /\ \A i \in 1 .. MaxClicks : WF_runsVars(i \in DOMAIN tails /\ TailSteps(i))
  /\ WF_runsVars(Answers)
  /\ \A s \in 1 .. LoadSlots : WF_runsVars(ListSteps(s))

RunsSpec == RunsInit /\ [][RunsNext]_runsVars /\ RunsFairness
----------------------------------------------------------------------------
RunsTypeOK ==
  /\ rowStatus \in [Runs -> Statuses] /\ written \in [Runs -> 0 .. LogPieces]
  /\ {selectedId, reconstruction, detail.run, asked.run} \subseteq Runs \cup {NoRun}
  /\ detail.status \in Statuses
  /\ Len(tails) <= MaxClicks /\ Len(log) <= KeptPieces
  /\ runClicks \in 0 .. MaxClicks /\ faults \in 0 .. MaxFaults
  /\ session \in {"idle", "ready", "signed-out", "unreachable"} /\ listed \in [Runs -> Statuses]

\* The log under a selected run is that run's own, piece after piece from
\* the oldest kept, whatever tails of earlier selections are still waiting
\* for answers; only an answer that is not a log leaves its mark in it.
LogIsOfTheSelection ==
  selectedId # NoRun /\ Garbage \notin ToSet(log) =>
    \A i \in DOMAIN log : /\ log[i][1] = selectedId
                          /\ log[i][2] = log[1][2] + i - 1

\* In the end, a log that is shown, and that no failure has touched, is shown
\* to its end: the tail stops only after an answer of the finished run.  (One
\* answer must be able to carry what is left: "complete" says that the run
\* is over, not that the log is.)
Whole(r) == [i \in 1 .. written[r] |-> <<r, i>>]

LogIsShownToItsEnd ==
  selectedId # NoRun /\ log # <<>> /\ faults = 0 => log = LastOf(Whole(selectedId))

\* Whatever loads overlap, fail or overtake each other, the list comes to
\* show every run as the platform has it, and goes on to.
ListCaughtUp == session = "ready" /\ listed = rowStatus
=============================================================================

---------------------------- MODULE RunLifecycle ----------------------------
(***************************************************************************)
(* The run lifecycle of platform/aimem_platform/runs: submit, claim,       *)
(* execute, finalize, cancel and reap, as worker processes, the API and    *)
(* the Docker daemon interleave them.                                      *)
(*                                                                         *)
(* A database transaction is one step where the code holds the row lock    *)
(* for all of it, and two (lock, commit) where another process can tell    *)
(* the difference: SELECT ... FOR UPDATE SKIP LOCKED skips locked rows.    *)
(* What happens between transactions (copying inputs, docker, the          *)
(* summarizer) is a step of its own.                                       *)
(***************************************************************************)
EXTENDS Integers, Sequences, FiniteSets

CONSTANTS
  Runs,         \* run ids
  Workers,      \* worker process slots (hostname:pid)
  NoRun,        \* "no run" in a worker's local variables
  Free,         \* the row lock is not held
  Api,          \* the row lock is held by a cancel request
  Reaps,        \* TRUE: DockerRunner, run_worker reaps; FALSE: LocalRunner
  Once,         \* TRUE: `worker --once`, which exits on an empty queue
  MaxFaults,    \* bound: failed transactions, lost commit answers, docker errors
  MaxCrashes    \* bound: worker processes that end in silence

ASSUME RunsAssumption == NoRun \notin Runs /\ IsFiniteSet(Runs)
ASSUME HoldersAssumption == Free \notin Workers /\ Api \notin Workers /\ Api # Free
ASSUME BoundsAssumption ==
  /\ Reaps \in BOOLEAN /\ Once \in BOOLEAN
  /\ MaxFaults \in Nat /\ MaxCrashes \in Nat

VARIABLES
  \* the runs row, its row lock, and its run.lifecycle audit events
  status, cancelRequested, queuedAt, pastGrace, lock, log,
  \* the Docker daemon
  container,
  \* each worker process: where it is, the run in hand, the runner's verdict,
  \* reap candidates not yet examined, and whether it is the worker loop
  pc, run, execution, candidates, looping,
  \* runs reported in the fallback log, the faults used up, and the worker
  \* processes that ended without a word about the run in hand
  fallback, faults, crashes

rowVars == <<status, cancelRequested, queuedAt, pastGrace>>
workerVars == <<pc, run, execution, candidates, looping>>
faultVars == <<fallback, faults, crashes>>
vars == <<rowVars, lock, log, container, workerVars, faultVars>>

-----------------------------------------------------------------------------
(* Values *)

Terminal == {"succeeded", "failed", "errored", "timed_out", "cancelled"}
Status == Terminal \cup {"absent", "queued", "running"}

\* Execution.status of the runner
Executions == {"exited", "timed_out", "cancelled", "oom", "error"}

\* reconstruct.FINAL_ACTIONS
FinalActions == {"finished", "errored", "timed_out", "cancelled", "abandoned"}
Actions == FinalActions \cup {"queued", "claimed", "started", "outputs_recorded"}
Event == [action : Actions, status : Status]

\* "reading", "probing", "abandoning": reap_abandoned.  "claiming": the claim
\* transaction is open.  The rest is execute_run.
Executing == {"preparing", "starting", "supervising", "collected", "failing"}
Places == Executing \cup {"down", "reading", "probing", "abandoning", "idle", "claiming"}

\* _final_status: every status the runner's verdict can be recorded as
FinalStatuses(e) ==
  IF e \in {"timed_out", "cancelled"} THEN {e}
  ELSE IF e = "exited" THEN {"succeeded", "failed", "errored"}
  ELSE {"errored"}

\* Mistake: the action named after the status.
FinalActionUnmapped(s) == s

FinalAction(s) == IF s \in {"succeeded", "failed"} THEN "finished" ELSE s

Holds(w, r) == pc[w] \in Executing /\ run[w] = r

-----------------------------------------------------------------------------
(* Steps shared by the handlers *)

\* Append events to a run's history, in the transaction of the step.
Record(r, events) == log' = [log EXCEPT ![r] = @ \o events]
Ev(a, s) == [action |-> a, status |-> s]

SetStatus(r, s) ==
  /\ status' = [status EXCEPT ![r] = s]
  /\ UNCHANGED <<cancelRequested, queuedAt, pastGrace>>

Goto(w, place) ==
  /\ pc' = [pc EXCEPT ![w] = place]
  /\ UNCHANGED <<run, execution, candidates, looping>>

\* execute_run returned: the loop claims again, a direct caller is finished.
LetGo(w) ==
  /\ pc' = [pc EXCEPT ![w] = IF looping[w] THEN "idle" ELSE "down"]
  /\ run' = [run EXCEPT ![w] = NoRun]
  /\ execution' = [execution EXCEPT ![w] = "error"]
  /\ UNCHANGED <<candidates, looping>>

\* The process is gone, by a kill or by an exception nothing catches.
Exit(w) ==
  /\ pc' = [pc EXCEPT ![w] = "down"]
  /\ run' = [run EXCEPT ![w] = NoRun]
  /\ execution' = [execution EXCEPT ![w] = "error"]
  /\ candidates' = [candidates EXCEPT ![w] = {}]
  /\ UNCHANGED looping

Fault ==
  /\ faults < MaxFaults
  /\ faults' = faults + 1
  /\ UNCHANGED <<fallback, crashes>>

Init ==
  /\ status = [r \in Runs |-> "absent"]
  /\ cancelRequested = [r \in Runs |-> FALSE]
  /\ queuedAt = [r \in Runs |-> 0]
  /\ pastGrace = [r \in Runs |-> FALSE]
  /\ lock = [r \in Runs |-> Free]
  /\ log = [r \in Runs |-> <<>>]
  /\ container = [r \in Runs |-> "none"]
  /\ pc = [w \in Workers |-> "down"]
  /\ run = [w \in Workers |-> NoRun]
  /\ execution = [w \in Workers |-> "error"]
  /\ candidates = [w \in Workers |-> {}]
  /\ looping = [w \in Workers |-> FALSE]
  /\ fallback = {}
  /\ faults = 0
  /\ crashes = 0

-----------------------------------------------------------------------------
(* Submit: one transaction inserts the row and its queued event. *)

Submit(r) ==
  /\ status[r] = "absent"
  /\ status' = [status EXCEPT ![r] = "queued"]
  /\ queuedAt' = [queuedAt EXCEPT ![r] = Cardinality({q \in Runs : status[q] # "absent"}) + 1]
  /\ Record(r, <<Ev("queued", "queued")>>)
  /\ UNCHANGED <<cancelRequested, pastGrace, lock, container, workerVars, faultVars>>

-----------------------------------------------------------------------------
(* Worker start and stop. *)

Start(w) ==
  /\ pc[w] = "down"
  /\ pc' = [pc EXCEPT ![w] = IF Reaps THEN "reading" ELSE "idle"]
  /\ looping' = [looping EXCEPT ![w] = TRUE]
  /\ UNCHANGED <<rowVars, lock, log, container, run, execution, candidates, faultVars>>

\* Mistake: no SKIP LOCKED, so an open claim does not hide its row.
ClaimableLocked(r) == status[r] = "queued"

\* Row status queued and not locked: what the claim query can return.
Claimable(r) == status[r] = "queued" /\ lock[r] = Free

Stop(w) ==
  /\ Once
  /\ pc[w] = "idle"
  /\ \A r \in Runs : ~Claimable(r)
  /\ Goto(w, "down")
  /\ UNCHANGED <<rowVars, lock, log, container, faultVars>>

\* Postgres rolls the open transaction back; the container belongs to the
\* Docker daemon and lives on.
EndsInSilence(w) ==
  /\ crashes < MaxCrashes
  /\ crashes' = crashes + 1
  /\ lock' = [r \in Runs |-> IF lock[r] = w THEN Free ELSE lock[r]]
  /\ Exit(w)
  /\ UNCHANGED <<rowVars, log, container, fallback, faults>>

\* A kill at any moment.
Crash(w) == pc[w] # "down" /\ EndsInSilence(w)

-----------------------------------------------------------------------------
(* Claim: SELECT ... FOR UPDATE SKIP LOCKED, then update and commit. *)

OpenClaim(w, r) ==
  /\ lock' = [lock EXCEPT ![r] = w]
  /\ pc' = [pc EXCEPT ![w] = "claiming"]
  /\ run' = [run EXCEPT ![w] = r]
  /\ UNCHANGED <<rowVars, log, container, execution, candidates, faultVars>>

ClaimNext(w) ==
  /\ pc[w] = "idle"
  /\ \E r \in Runs :
       /\ Claimable(r)
       /\ \A q \in Runs : Claimable(q) => queuedAt[r] <= queuedAt[q]
       /\ OpenClaim(w, r)
  /\ UNCHANGED looping

\* run_inline: the submitting process claims its own run directly.
ClaimSpecific(w, r) ==
  /\ pc[w] = "down"
  /\ Claimable(r)
  /\ OpenClaim(w, r)
  /\ looping' = [looping EXCEPT ![w] = FALSE]

CommitClaim(w) ==
  /\ pc[w] = "claiming"
  /\ LET r == run[w] IN
       /\ status' = [status EXCEPT ![r] = "running"]
       /\ pastGrace' = [pastGrace EXCEPT ![r] = FALSE]
       /\ lock' = [lock EXCEPT ![r] = Free]
       /\ Record(r, <<Ev("claimed", "running")>>)
  /\ Goto(w, "preparing")
  /\ UNCHANGED <<cancelRequested, queuedAt, container, faultVars>>

\* The claim transaction fails; the exception ends the process.  A claim that
\* commits and whose answer is lost is CommitClaim followed by Crash.
ClaimFails(w) ==
  /\ pc[w] = "claiming"
  /\ Fault
  /\ lock' = [lock EXCEPT ![run[w]] = Free]
  /\ Exit(w)
  /\ UNCHANGED <<rowVars, log, container>>

-----------------------------------------------------------------------------
(* Execute. *)

\* The adapter is unknown or the spec cannot be read: that is outside any try,
\* and the exception ends the process.
CannotPrepare(w) == pc[w] = "preparing" /\ EndsInSilence(w)

\* Inputs are copied and checked, and `started` is committed.
LogStarted(w) ==
  /\ pc[w] = "preparing"
  /\ Record(run[w], <<Ev("started", "running")>>)
  /\ Goto(w, "starting")
  /\ UNCHANGED <<rowVars, lock, container, faultVars>>

\* Mistake: the failure is swallowed and the tool starts anyway.
CannotStartIgnored(w) ==
  /\ pc[w] = "preparing"
  /\ Fault
  /\ Goto(w, "starting")
  /\ UNCHANGED <<rowVars, lock, log, container>>

\* An input is gone or altered, or `started` cannot be committed.
CannotStart(w) ==
  /\ pc[w] = "preparing"
  /\ Fault
  /\ Goto(w, "failing")
  /\ UNCHANGED <<rowVars, lock, log, container>>

\* `started` is committed but its answer is lost: the code sees an exception.
StartedAnswerLost(w) ==
  /\ pc[w] = "preparing"
  /\ Fault
  /\ Record(run[w], <<Ev("started", "running")>>)
  /\ Goto(w, "failing")
  /\ UNCHANGED <<rowVars, lock, container>>

\* docker rm -f of a leftover, then docker run.
Launch(w) ==
  /\ pc[w] = "starting"
  /\ container' = [container EXCEPT ![run[w]] = "running"]
  /\ Goto(w, "supervising")
  /\ UNCHANGED <<rowVars, lock, log, faultVars>>

Collect(w, e) ==
  /\ execution' = [execution EXCEPT ![w] = e]
  /\ pc' = [pc EXCEPT ![w] = "collected"]
  /\ UNCHANGED <<run, candidates, looping>>

\* docker run exits 125-127 without a container, or cannot be started.
LaunchFails(w) ==
  /\ pc[w] = "starting"
  /\ Collect(w, "error")
  /\ container' = [container EXCEPT ![run[w]] = "none"]
  /\ UNCHANGED <<rowVars, lock, log, faultVars>>

\* The tool ends by itself or is killed by the memory limit.
ToolExit(r) ==
  /\ container[r] = "running"
  /\ container' = [container EXCEPT ![r] = "exited"]
  /\ UNCHANGED <<rowVars, lock, log, workerVars, faultVars>>

\* The poll loop ends; docker rm -f removes the container.
ObserveExit(w) ==
  /\ pc[w] = "supervising"
  /\ container[run[w]] = "exited"
  /\ \E e \in {"exited", "oom", "error"} : Collect(w, e)
  /\ container' = [container EXCEPT ![run[w]] = "none"]
  /\ UNCHANGED <<rowVars, lock, log, faultVars>>

\* Kill for the cancel flag or for the time limit.  The tool may have ended
\* between poll() and the kill: the reason is recorded all the same.
ObserveKill(w) ==
  /\ pc[w] = "supervising"
  /\ \/ cancelRequested[run[w]] /\ Collect(w, "cancelled")
     \/ Collect(w, "timed_out")
  /\ container' = [container EXCEPT ![run[w]] = "none"]
  /\ UNCHANGED <<rowVars, lock, log, faultVars>>

\* Reading the cancel flag or waiting for the kill raises: the runner gives up
\* and leaves the container as it is.
RunnerRaises(w) ==
  /\ pc[w] = "supervising"
  /\ Fault
  /\ Collect(w, "error")
  /\ UNCHANGED <<rowVars, lock, log, container>>

-----------------------------------------------------------------------------
(* Finalize.  Neither transaction looks at the status it replaces. *)

WriteEnding(r, s) ==
  /\ SetStatus(r, s)
  /\ Record(r, <<Ev("outputs_recorded", s), Ev(FinalAction(s), s)>>)

Finalize(w) ==
  /\ pc[w] = "collected"
  /\ lock[run[w]] = Free
  /\ \E s \in FinalStatuses(execution[w]) : WriteEnding(run[w], s)
  /\ LetGo(w)
  /\ UNCHANGED <<lock, container, faultVars>>

\* Mistake: the exception is swallowed and the worker moves on.
FinalizeFailsIgnored(w) ==
  /\ pc[w] = "collected"
  /\ Fault
  /\ LetGo(w)
  /\ UNCHANGED <<rowVars, lock, log, container>>

\* A summary outside the vocabulary, a duplicate artifact row, or a failed commit.
FinalizeFails(w) ==
  /\ pc[w] = "collected"
  /\ Fault
  /\ Goto(w, "failing")
  /\ UNCHANGED <<rowVars, lock, log, container>>

\* The exception has no message: taking its first line raises inside the
\* handler, before anything is recorded, and the process ends.
FinalizeUnsaid(w) == pc[w] = "collected" /\ EndsInSilence(w)

\* Mistake: finalize again whatever became of the first commit.
FinalizeAgain(w) ==
  /\ pc[w] = "collected"
  /\ lock[run[w]] = Free
  /\ Fault
  /\ \E s \in FinalStatuses(execution[w]) : WriteEnding(run[w], s)
  /\ Goto(w, "collected")
  /\ UNCHANGED <<lock, container>>

\* The commit succeeds and its answer is lost.
FinalizeAnswerLost(w) ==
  /\ pc[w] = "collected"
  /\ lock[run[w]] = Free
  /\ Fault
  /\ \E s \in FinalStatuses(execution[w]) : WriteEnding(run[w], s)
  /\ Goto(w, "failing")
  /\ UNCHANGED <<lock, container>>

\* Mistake: the row changes and its event is not written.
FinalizeErrorUnlogged(w) ==
  /\ pc[w] = "failing"
  /\ lock[run[w]] = Free
  /\ SetStatus(run[w], "errored")
  /\ LetGo(w)
  /\ UNCHANGED <<lock, log, container, faultVars>>

FinalizeError(w) ==
  /\ pc[w] = "failing"
  /\ lock[run[w]] = Free
  /\ SetStatus(run[w], "errored")
  /\ Record(run[w], <<Ev("errored", "errored")>>)
  /\ LetGo(w)
  /\ UNCHANGED <<lock, container, faultVars>>

\* Even the error cannot be recorded: fallback log, and the process ends.  It
\* needs no bound: a run is executed once, so it can fail here once.
FinalizeErrorFails(w) ==
  /\ pc[w] = "failing"
  /\ fallback' = fallback \cup {run[w]}
  /\ Exit(w)
  /\ UNCHANGED <<rowVars, lock, log, container, faults, crashes>>

\* Neither can the fallback log be written, or there is none.
FallbackFails(w) == pc[w] = "failing" /\ EndsInSilence(w)

-----------------------------------------------------------------------------
(* Cancel: lock the row, then decide on what it says. *)

\* Mistake: the row is read without FOR UPDATE.
ReadForCancel(r) ==
  /\ status[r] \in {"queued", "running"}
  /\ ~cancelRequested[r]
  /\ lock' = [lock EXCEPT ![r] = Api]
  /\ UNCHANGED <<rowVars, log, container, workerVars, faultVars>>

\* A repeated request and a request for an ended run change nothing.
LockForCancel(r) ==
  /\ status[r] \in {"queued", "running"}
  /\ ~cancelRequested[r]
  /\ lock[r] = Free
  /\ lock' = [lock EXCEPT ![r] = Api]
  /\ UNCHANGED <<rowVars, log, container, workerVars, faultVars>>

CommitCancel(r) ==
  /\ lock[r] = Api
  /\ lock' = [lock EXCEPT ![r] = Free]
  /\ cancelRequested' = [cancelRequested EXCEPT ![r] = TRUE]
  /\ \/ /\ status[r] = "queued"
        /\ status' = [status EXCEPT ![r] = "cancelled"]
        /\ Record(r, <<Ev("cancelled", "cancelled")>>)
     \/ /\ status[r] # "queued"
        /\ UNCHANGED <<status, log>>
  /\ UNCHANGED <<queuedAt, pastGrace, container, workerVars, faultVars>>

\* The request's transaction rolls back.
CancelFails(r) ==
  /\ lock[r] = Api
  /\ Fault
  /\ lock' = [lock EXCEPT ![r] = Free]
  /\ UNCHANGED <<rowVars, log, container, workerVars>>

-----------------------------------------------------------------------------
(* Reap: read the candidates, ask Docker, then lock and re-check the row. *)

\* started_at falls behind the grace period.
Age(r) ==
  /\ status[r] = "running"
  /\ ~pastGrace[r]
  /\ pastGrace' = [pastGrace EXCEPT ![r] = TRUE]
  /\ UNCHANGED <<status, cancelRequested, queuedAt, lock, log, container, workerVars, faultVars>>

\* Mistake: the cutoff compared the wrong way round.
ReadCandidatesYoung(w) ==
  /\ pc[w] = "reading"
  /\ candidates' = [candidates EXCEPT ![w] = {r \in Runs : status[r] = "running" /\ ~pastGrace[r]}]
  /\ pc' = [pc EXCEPT ![w] = "probing"]
  /\ UNCHANGED <<rowVars, lock, log, container, run, execution, looping, faultVars>>

ReadCandidates(w) ==
  /\ pc[w] = "reading"
  /\ candidates' = [candidates EXCEPT ![w] = {r \in Runs : status[r] = "running" /\ pastGrace[r]}]
  /\ pc' = [pc EXCEPT ![w] = "probing"]
  /\ UNCHANGED <<rowVars, lock, log, container, run, execution, looping, faultVars>>

\* docker ps lists only running containers.
ProbeGone(w, r) ==
  /\ pc[w] = "probing"
  /\ r \in candidates[w]
  /\ container[r] # "running"
  /\ run' = [run EXCEPT ![w] = r]
  /\ candidates' = [candidates EXCEPT ![w] = @ \ {r}]
  /\ pc' = [pc EXCEPT ![w] = "abandoning"]
  /\ UNCHANGED <<rowVars, lock, log, container, execution, looping, faultVars>>

Skip(w, r) ==
  /\ pc[w] = "probing"
  /\ r \in candidates[w]
  /\ candidates' = [candidates EXCEPT ![w] = @ \ {r}]
  /\ UNCHANGED <<rowVars, lock, log, container, pc, run, execution, looping>>

ProbeAlive(w, r) == Skip(w, r) /\ container[r] = "running" /\ UNCHANGED faultVars

\* Docker cannot answer: assumed alive.
ProbeUnanswered(w, r) == Skip(w, r) /\ Fault

ReapDone(w) ==
  /\ pc[w] = "probing"
  /\ candidates[w] = {}
  /\ Goto(w, "idle")
  /\ UNCHANGED <<rowVars, lock, log, container, faultVars>>

\* Mistake: the status is not read again under the row lock.
AbandonUnchecked(w) ==
  /\ pc[w] = "abandoning"
  /\ lock[run[w]] = Free
  /\ SetStatus(run[w], "errored")
  /\ Record(run[w], <<Ev("abandoned", "errored")>>)
  /\ run' = [run EXCEPT ![w] = NoRun]
  /\ pc' = [pc EXCEPT ![w] = "probing"]
  /\ UNCHANGED <<lock, container, execution, candidates, looping, faultVars>>

Abandon(w) ==
  /\ pc[w] = "abandoning"
  /\ lock[run[w]] = Free
  /\ \/ /\ status[run[w]] = "running"
        /\ SetStatus(run[w], "errored")
        /\ Record(run[w], <<Ev("abandoned", "errored")>>)
     \/ /\ status[run[w]] # "running"
        /\ UNCHANGED <<rowVars, log>>
  /\ run' = [run EXCEPT ![w] = NoRun]
  /\ pc' = [pc EXCEPT ![w] = "probing"]
  /\ UNCHANGED <<lock, container, execution, candidates, looping, faultVars>>

\* The reaper's transaction fails and the exception ends the process.
AbandonFails(w) ==
  /\ pc[w] = "abandoning"
  /\ Fault
  /\ Exit(w)
  /\ UNCHANGED <<rowVars, lock, log, container>>

-----------------------------------------------------------------------------

ReapStep(w) ==
  \/ ReadCandidates(w) \/ ReapDone(w) \/ Abandon(w)
  \/ \E r \in Runs : ProbeGone(w, r) \/ ProbeAlive(w, r)

ExecuteStep(w) ==
  \/ LogStarted(w) \/ Launch(w) \/ LaunchFails(w)
  \/ ObserveExit(w) \/ ObserveKill(w)
  \/ Finalize(w) \/ FinalizeError(w)

WorkerStep(w) == ReapStep(w) \/ ClaimNext(w) \/ CommitClaim(w) \/ ExecuteStep(w)

WorkerFault(w) ==
  \/ Crash(w) \/ CannotPrepare(w) \/ FinalizeUnsaid(w) \/ FallbackFails(w)
  \/ ClaimFails(w) \/ CannotStart(w) \/ StartedAnswerLost(w)
  \/ RunnerRaises(w) \/ FinalizeFails(w) \/ FinalizeAnswerLost(w)
  \/ FinalizeErrorFails(w) \/ AbandonFails(w)
  \/ \E r \in Runs : ProbeUnanswered(w, r)

Next ==
  \/ \E w \in Workers :
       \/ Start(w) \/ Stop(w) \/ WorkerStep(w) \/ WorkerFault(w)
       \/ \E r \in Runs : ClaimSpecific(w, r)
  \/ \E r \in Runs :
       \/ Submit(r) \/ LockForCancel(r) \/ CommitCancel(r) \/ CancelFails(r)
       \/ Age(r) \/ ToolExit(r)

Spec == Init /\ [][Next]_vars

\* A live process keeps running its code, and a cancel request's transaction
\* ends.  The tool itself need not end: the time limit does that.
Fairness ==
  /\ \A w \in Workers : WF_vars(WorkerStep(w))
  /\ \A r \in Runs : WF_vars(CommitCancel(r))

LiveSpec == Spec /\ Fairness

\* `worker --once` started again and again, with tools that end by themselves.
RestartSpec ==
  /\ LiveSpec
  /\ \A w \in Workers : WF_vars(Start(w)) /\ WF_vars(Stop(w))
  /\ \A r \in Runs : WF_vars(ToolExit(r)) /\ WF_vars(Age(r))

-----------------------------------------------------------------------------
(* Properties *)

TypeOK ==
  /\ status \in [Runs -> Status]
  /\ cancelRequested \in [Runs -> BOOLEAN]
  /\ queuedAt \in [Runs -> Nat]
  /\ pastGrace \in [Runs -> BOOLEAN]
  /\ lock \in [Runs -> Workers \cup {Free, Api}]
  /\ log \in [Runs -> Seq(Event)]
  /\ container \in [Runs -> {"none", "running", "exited"}]
  /\ pc \in [Workers -> Places]
  /\ run \in [Workers -> Runs \cup {NoRun}]
  /\ \A w \in Workers : pc[w] \in Executing \cup {"claiming", "abandoning"} => run[w] \in Runs
  /\ execution \in [Workers -> Executions]
  /\ candidates \in [Workers -> SUBSET Runs]
  /\ looping \in [Workers -> BOOLEAN]
  /\ fallback \subseteq Runs
  /\ faults \in 0..MaxFaults
  /\ crashes \in 0..MaxCrashes

\* A run is executed by one worker at most: claiming takes a queued row under
\* its lock, and nothing ever queues a run again.
OneExecutor ==
  \A w1, w2 \in Workers : \A r \in Runs : Holds(w1, r) /\ Holds(w2, r) => w1 = w2

Has(r, a) == \E i \in DOMAIN log[r] : log[r][i].action = a

\* The tool never runs unless `started` is in the log first (service.py:8-9).
ToolOnlyAfterStarted == \A r \in Runs : container[r] # "none" => Has(r, "started")

Endings(r) == {i \in DOMAIN log[r] : log[r][i].action \in FinalActions}

\* The row agrees with its events: with no final event the run is not ended,
\* and otherwise the row carries the status of the last final event, the one
\* reconstruct_run compares it with.
RowAgreesWithLog ==
  \A r \in Runs :
    /\ Endings(r) = {} => status[r] \notin Terminal
    /\ \A i \in Endings(r) : (\A j \in Endings(r) : j <= i) => log[r][i].status = status[r]

\* A run cancelled while it was queued never executes: its cancellation is the
\* last thing that ever happens to it.
CancelledInQueueIsLast ==
  \A r \in Runs :
    (Has(r, "cancelled") /\ ~Has(r, "outputs_recorded"))
      => /\ Len(log[r]) = 2
         /\ container[r] = "none"
         /\ \A w \in Workers : ~Holds(w, r)

\* A run's outputs are recorded once, so the first outputs_recorded event that
\* reconstruct_run reads describes the files of the row.
OutputsRecordedOnce ==
  \A r \in Runs : \A i, j \in DOMAIN log[r] :
    log[r][i].action = "outputs_recorded" /\ log[r][j].action = "outputs_recorded" => i = j

\* The runs that are left running in nobody's hands, without a report.
Stranded ==
  {r \in Runs : /\ status[r] = "running" /\ r \notin fallback
                /\ \A w \in Workers : ~Holds(w, r)}

\* A failure that a handler sees strands no run: each process that ends in
\* silence strands one at most, and nothing else does.  ("Never leave a run stuck
\* in `running`: record why finalization failed" (service.py:290) does not hold
\* of a process that ends by itself: CannotPrepare, FinalizeUnsaid, FallbackFails.)
StrandedByAnEndedProcess == Cardinality(Stranded) <= crashes

\* What a run's history says stands: a cancel in the queue is final, outputs
\* are recorded once, and only a process that ends in silence leaves a run
\* running behind it.
ResultsStand == CancelledInQueueIsLast /\ OutputsRecordedOnce /\ StrandedByAnEndedProcess

\* What the proofs add: an open claim holds its queued row, an executed run has
\* been claimed, a tool about to run has been logged, and a run has ended
\* exactly when its history has an ending.
ClaimsHoldTheirRow ==
  \A w \in Workers :
    pc[w] = "claiming" => lock[run[w]] = w /\ status[run[w]] = "queued"

ExecutedRunsAreClaimed ==
  \A w \in Workers : pc[w] \in Executing => status[run[w]] \notin {"absent", "queued"}

StartedBeforeLaunch ==
  \A w \in Workers : pc[w] \in {"starting", "supervising"} => Has(run[w], "started")

EndedByAnEvent == \A r \in Runs : Endings(r) = {} <=> status[r] \notin Terminal

\* A row that waits has the history of a row that waits, and a worker that has
\* still to write an ending has a run whose outputs nobody has recorded.
WaitingIsFresh ==
  \A r \in Runs :
    /\ status[r] = "absent" => Len(log[r]) = 0
    /\ status[r] = "queued" => Len(log[r]) = 1 /\ log[r][1].action = "queued"

Unwritten == Executing \ {"failing"}

NotYetRecorded ==
  \A w \in Workers : pc[w] \in Unwritten => ~Has(run[w], "outputs_recorded")

IInv ==
  /\ ClaimsHoldTheirRow
  /\ ExecutedRunsAreClaimed
  /\ OneExecutor
  /\ StartedBeforeLaunch
  /\ ToolOnlyAfterStarted
  /\ EndedByAnEvent
  /\ RowAgreesWithLog
  /\ WaitingIsFresh
  /\ NotYetRecorded
  /\ ResultsStand

\* "Only a worker marks a run abandoned, and only when its container is
\* provably gone" (service.py:10-11).
AbandonedOnlyWhenGone ==
  [][\A r \in Runs :
       log'[r] = Append(log[r], Ev("abandoned", "errored")) => container[r] # "running"]_vars

\* A claimed run ends.
RunningEnds == \A r \in Runs : status[r] = "running" ~> status[r] \in Terminal

\* The row keeps the contract of RunContract: an ending is replaced only by the
\* worker that was still executing the run when the ending was written.
Contract == INSTANCE RunContract WITH
  contested <- {r \in Runs : status[r] \in Terminal /\ \E w \in Workers : Holds(w, r)}

KeepsContract == Contract!Spec
=============================================================================

------------------------ MODULE RunLifecycle_proofs ------------------------
(***************************************************************************)
(* Proofs about RunLifecycle, for any number of runs and workers and any   *)
(* fault and crash bounds.                                                 *)
(***************************************************************************)
EXTENDS RunLifecycle, FiniteSetTheorems, TLAPS

\* What a transaction appends to a history is made of events.
LEMMA RecordType ==
  ASSUME TypeOK, NEW r \in Runs, NEW events \in Seq(Event), Record(r, events)
  PROVE  log' \in [Runs -> Seq(Event)]
BY DEF TypeOK, Record

LEMMA EventType ==
  ASSUME NEW a \in Actions, NEW s \in Status
  PROVE  Ev(a, s) \in Event
BY DEF Ev, Event

LEMMA RecordOne ==
  ASSUME TypeOK, NEW r \in Runs, NEW a \in Actions, NEW s \in Status, Record(r, <<Ev(a, s)>>)
  PROVE  log' \in [Runs -> Seq(Event)]
<1>1. <<Ev(a, s)>> \in Seq(Event)
  BY EventType
<1>2. QED BY <1>1, RecordType

\* The names the transactions write.
LEMMA Names ==
  /\ Terminal \subseteq Status
  /\ FinalActions \subseteq Actions
  /\ {"queued", "claimed", "started", "outputs_recorded", "errored", "cancelled", "abandoned"} \subseteq Actions
  /\ {"queued", "running", "errored", "cancelled"} \subseteq Status
BY DEF Terminal, Status, FinalActions, Actions

LEMMA EndingType ==
  ASSUME NEW e \in Executions, NEW s \in FinalStatuses(e)
  PROVE  /\ s \in Terminal
         /\ FinalAction(s) \in FinalActions
BY DEF Executions, FinalStatuses, Terminal, FinalAction, FinalActions

LEMMA QueuedAtType ==
  Cardinality({q \in Runs : status[q] # "absent"}) + 1 \in Nat
<1>1. IsFiniteSet({q \in Runs : status[q] # "absent"})
  BY RunsAssumption, FS_Subset
<1>2. QED BY <1>1, FS_CardinalityType

-----------------------------------------------------------------------------
(* Type correctness *)

LEMMA TypeInit == Init => TypeOK
BY RunsAssumption, HoldersAssumption, BoundsAssumption
DEF Init, TypeOK, Status, Places, Executing, Executions, Event

LEMMA TypeSubmit ==
  ASSUME TypeOK, NEW r \in Runs, Submit(r) PROVE TypeOK'
<1>1. log' \in [Runs -> Seq(Event)]
  BY RecordOne, Names DEF Submit
<1>2. queuedAt' \in [Runs -> Nat]
  BY QueuedAtType DEF Submit, TypeOK
<1>3. QED
  BY <1>1, <1>2 DEF Submit, TypeOK, workerVars, faultVars, Status

LEMMA TypeReap ==
  ASSUME TypeOK, NEW w \in Workers, ReapStep(w) PROVE TypeOK'
<1> USE DEF TypeOK, rowVars, faultVars, Places, Executing, Goto
<1>1. CASE ReadCandidates(w)
  BY <1>1 DEF ReadCandidates
<1>2. CASE ReapDone(w)
  BY <1>2 DEF ReapDone
<1>3. CASE Abandon(w)
  <2>1. CASE status[run[w]] = "running" /\ SetStatus(run[w], "errored") /\ Record(run[w], <<Ev("abandoned", "errored")>>)
    <3>1. log' \in [Runs -> Seq(Event)]
      BY <1>3, <2>1, RecordOne, Names DEF Abandon
    <3>2. QED
      BY <1>3, <2>1, <3>1 DEF Abandon, SetStatus, Status, Terminal
  <2>2. CASE UNCHANGED <<rowVars, log>>
    BY <1>3, <2>2 DEF Abandon
  <2>3. QED BY <1>3, <2>1, <2>2 DEF Abandon
<1>4. ASSUME NEW r \in Runs, ProbeGone(w, r) PROVE TypeOK'
  BY <1>4 DEF ProbeGone
<1>5. ASSUME NEW r \in Runs, ProbeAlive(w, r) PROVE TypeOK'
  BY <1>5 DEF ProbeAlive, Skip
<1>6. QED BY <1>1, <1>2, <1>3, <1>4, <1>5 DEF ReapStep

LEMMA TypeClaim ==
  ASSUME TypeOK, NEW w \in Workers,
         ClaimNext(w) \/ CommitClaim(w) \/ \E r \in Runs : ClaimSpecific(w, r)
  PROVE  TypeOK'
<1> USE DEF TypeOK, rowVars, faultVars, Places, Executing, Goto, OpenClaim
<1>1. CASE ClaimNext(w)
  BY <1>1 DEF ClaimNext
<1>2. CASE CommitClaim(w)
  <2>1. run[w] \in Runs
    BY <1>2 DEF CommitClaim
  <2>2. log' \in [Runs -> Seq(Event)]
    BY <1>2, <2>1, RecordOne, Names DEF CommitClaim
  <2>3. QED BY <1>2, <2>1, <2>2 DEF CommitClaim, Status
<1>3. ASSUME NEW r \in Runs, ClaimSpecific(w, r) PROVE TypeOK'
  BY <1>3 DEF ClaimSpecific
<1>4. QED BY <1>1, <1>2, <1>3

LEMMA TypeEnding ==
  ASSUME TypeOK, NEW w \in Workers, run[w] \in Runs,
         NEW s \in FinalStatuses(execution[w]), WriteEnding(run[w], s)
  PROVE  /\ log' \in [Runs -> Seq(Event)]
         /\ status' \in [Runs -> Status]
         /\ UNCHANGED <<cancelRequested, queuedAt, pastGrace>>
<1>1. s \in Terminal /\ FinalAction(s) \in FinalActions
  BY EndingType DEF TypeOK
<1>2. Ev("outputs_recorded", s) \in Event /\ Ev(FinalAction(s), s) \in Event
  BY <1>1, EventType DEF Actions, Status
<1>3. <<Ev("outputs_recorded", s), Ev(FinalAction(s), s)>> \in Seq(Event)
  BY <1>2
<1>4. log' \in [Runs -> Seq(Event)]
  BY <1>3, RecordType DEF WriteEnding
<1>5. QED
  BY <1>1, <1>4, Names DEF WriteEnding, SetStatus, TypeOK

LEMMA TypeExecute ==
  ASSUME TypeOK, NEW w \in Workers, ExecuteStep(w) PROVE TypeOK'
<1> USE DEF TypeOK, rowVars, faultVars, Places, Executing, Goto, LetGo, Collect
<1>1. CASE LogStarted(w)
  <2>1. log' \in [Runs -> Seq(Event)]
    BY <1>1, RecordOne, Names DEF LogStarted
  <2>2. QED BY <1>1, <2>1 DEF LogStarted
<1>2. CASE Launch(w)
  BY <1>2 DEF Launch
<1>3. CASE LaunchFails(w)
  BY <1>3 DEF LaunchFails, Executions
<1>4. CASE ObserveExit(w)
  BY <1>4 DEF ObserveExit, Executions
<1>5. CASE ObserveKill(w)
  BY <1>5 DEF ObserveKill, Executions
<1>6. CASE Finalize(w)
  BY <1>6, TypeEnding DEF Finalize, Executions
<1>7. CASE FinalizeError(w)
  <2>1. log' \in [Runs -> Seq(Event)]
    BY <1>7, RecordOne, Names DEF FinalizeError
  <2>2. QED BY <1>7, <2>1 DEF FinalizeError, SetStatus, Status, Terminal, Executions
<1>8. QED BY <1>1, <1>2, <1>3, <1>4, <1>5, <1>6, <1>7 DEF ExecuteStep

LEMMA TypeFault ==
  ASSUME TypeOK, NEW w \in Workers, WorkerFault(w) PROVE TypeOK'
<1> USE BoundsAssumption DEF TypeOK, rowVars, Places, Executing, Executions, Goto, Exit, Fault, Collect
<1>1. CASE Crash(w) \/ CannotPrepare(w) \/ FinalizeUnsaid(w) \/ FallbackFails(w)
  <2>1. EndsInSilence(w)
    BY <1>1 DEF Crash, CannotPrepare, FinalizeUnsaid, FallbackFails
  <2>2. QED BY <2>1 DEF EndsInSilence
<1>2. CASE ClaimFails(w)
  BY <1>2 DEF ClaimFails
<1>3. CASE CannotStart(w)
  BY <1>3 DEF CannotStart
<1>4. CASE StartedAnswerLost(w)
  <2>1. log' \in [Runs -> Seq(Event)]
    BY <1>4, RecordOne, Names DEF StartedAnswerLost
  <2>2. QED BY <1>4, <2>1 DEF StartedAnswerLost
<1>5. CASE RunnerRaises(w)
  BY <1>5 DEF RunnerRaises
<1>6. CASE FinalizeFails(w)
  BY <1>6 DEF FinalizeFails
<1>7. CASE FinalizeAnswerLost(w)
  BY <1>7, TypeEnding DEF FinalizeAnswerLost
<1>8. CASE FinalizeErrorFails(w)
  BY <1>8 DEF FinalizeErrorFails
<1>9. CASE AbandonFails(w)
  BY <1>9 DEF AbandonFails
<1>10. ASSUME NEW r \in Runs, ProbeUnanswered(w, r) PROVE TypeOK'
  BY <1>10 DEF ProbeUnanswered, Skip
<1>11. QED
  BY <1>1, <1>2, <1>3, <1>4, <1>5, <1>6, <1>7, <1>8, <1>9, <1>10 DEF WorkerFault

LEMMA TypeRequest ==
  ASSUME TypeOK, NEW r \in Runs,
         LockForCancel(r) \/ CommitCancel(r) \/ CancelFails(r) \/ Age(r) \/ ToolExit(r)
  PROVE  TypeOK'
<1> USE BoundsAssumption DEF TypeOK, rowVars, workerVars, faultVars, Fault
<1>1. CASE LockForCancel(r)
  BY <1>1 DEF LockForCancel
<1>2. CASE CommitCancel(r)
  <2>1. CASE status[r] = "queued" /\ Record(r, <<Ev("cancelled", "cancelled")>>)
    <3>1. log' \in [Runs -> Seq(Event)]
      BY <2>1, RecordOne, Names
    <3>2. QED BY <1>2, <2>1, <3>1 DEF CommitCancel, Status, Terminal
  <2>2. CASE UNCHANGED <<status, log>>
    BY <1>2, <2>2 DEF CommitCancel
  <2>3. QED BY <1>2, <2>1, <2>2 DEF CommitCancel
<1>3. CASE CancelFails(r)
  BY <1>3 DEF CancelFails
<1>4. CASE Age(r)
  BY <1>4 DEF Age
<1>5. CASE ToolExit(r)
  BY <1>5 DEF ToolExit
<1>6. QED BY <1>1, <1>2, <1>3, <1>4, <1>5

LEMMA TypeNext == TypeOK /\ [Next]_vars => TypeOK'
<1> SUFFICES ASSUME TypeOK, [Next]_vars PROVE TypeOK'
  OBVIOUS
<1>1. ASSUME NEW w \in Workers, Start(w) PROVE TypeOK'
  BY <1>1 DEF Start, TypeOK, rowVars, faultVars, Places, Executing
<1>2. ASSUME NEW w \in Workers, Stop(w) PROVE TypeOK'
  BY <1>2 DEF Stop, Goto, TypeOK, rowVars, faultVars, Places, Executing
<1>3. CASE UNCHANGED vars
  BY <1>3 DEF vars, rowVars, workerVars, faultVars, TypeOK
<1>4. QED
  BY <1>1, <1>2, <1>3, TypeSubmit, TypeReap, TypeClaim, TypeExecute, TypeFault, TypeRequest
  DEF Next, WorkerStep

\* Every variable keeps its type.
THEOREM TypeCorrect == Spec => []TypeOK
BY TypeInit, TypeNext, PTL DEF Spec

-----------------------------------------------------------------------------
(* One executor per run *)

Claimed == ClaimsHoldTheirRow /\ ExecutedRunsAreClaimed /\ OneExecutor

LEMMA ClaimedInit == Init => Claimed
BY DEF Init, Claimed, ClaimsHoldTheirRow, ExecutedRunsAreClaimed, OneExecutor, Holds, Executing

LEMMA ClaimedStep ==
  ASSUME TypeOK, Claimed, NEW w \in Workers,
         Start(w) \/ Stop(w) \/ ReapStep(w) \/ ExecuteStep(w)
  PROVE  Claimed'
<1> USE DEF Claimed, ClaimsHoldTheirRow, ExecutedRunsAreClaimed, OneExecutor, Holds,
            TypeOK, Executing, rowVars, Goto, LetGo, Collect, SetStatus
<1>1. CASE Start(w) BY <1>1 DEF Start
<1>2. CASE Stop(w) BY <1>2 DEF Stop
<1>3. CASE ReadCandidates(w) BY <1>3 DEF ReadCandidates
<1>4. CASE ReapDone(w) BY <1>4 DEF ReapDone
<1>5. CASE Abandon(w) BY <1>5 DEF Abandon
<1>6. ASSUME NEW r \in Runs, ProbeGone(w, r) PROVE Claimed'
  BY <1>6 DEF ProbeGone
<1>7. ASSUME NEW r \in Runs, ProbeAlive(w, r) PROVE Claimed'
  BY <1>7 DEF ProbeAlive, Skip
<1>8. CASE LogStarted(w) BY <1>8 DEF LogStarted
<1>9. CASE Launch(w) BY <1>9 DEF Launch
<1>10. CASE LaunchFails(w) BY <1>10 DEF LaunchFails
<1>11. CASE ObserveExit(w) BY <1>11 DEF ObserveExit
<1>12. CASE ObserveKill(w)
  <2>1. pc' = [pc EXCEPT ![w] = "collected"] /\ UNCHANGED run
    BY <1>12, Zenon DEF ObserveKill
  <2>2. pc[w] = "supervising" /\ UNCHANGED <<status, lock>>
    BY <1>12 DEF ObserveKill
  <2>3. QED BY <2>1, <2>2
<1>13. CASE Finalize(w)
  BY <1>13, EndingType DEF Finalize, WriteEnding, Terminal
<1>14. CASE FinalizeError(w) BY <1>14 DEF FinalizeError
<1>15. QED
  BY <1>1, <1>2, <1>3, <1>4, <1>5, <1>6, <1>7, <1>8, <1>9, <1>10, <1>11, <1>12, <1>13, <1>14
  DEF ReapStep, ExecuteStep

LEMMA ClaimedClaim ==
  ASSUME TypeOK, Claimed, NEW w \in Workers,
         ClaimNext(w) \/ CommitClaim(w) \/ \E r \in Runs : ClaimSpecific(w, r)
  PROVE  Claimed'
<1> USE DEF Claimed, ClaimsHoldTheirRow, ExecutedRunsAreClaimed, OneExecutor, Holds,
            TypeOK, Executing, rowVars, Goto, OpenClaim, Claimable
<1>1. CASE ClaimNext(w) BY <1>1, HoldersAssumption DEF ClaimNext
<1>2. CASE CommitClaim(w)
  <2>1. /\ run[w] \in Runs
        /\ status[run[w]] = "queued"
        /\ pc' = [pc EXCEPT ![w] = "preparing"]
        /\ run' = run
        /\ status' = [status EXCEPT ![run[w]] = "running"]
        /\ lock' = [lock EXCEPT ![run[w]] = Free]
    BY <1>2 DEF CommitClaim
  <2>2. ASSUME NEW v \in Workers, v # w, pc[v] \in Executing \cup {"claiming"}
        PROVE  run[v] \in Runs /\ run[v] # run[w]
    BY <1>2, <2>1, <2>2 DEF CommitClaim
  <2>3. ClaimsHoldTheirRow'
    BY <2>1, <2>2
  <2>4. ExecutedRunsAreClaimed'
    BY <2>1, <2>2
  <2>5. OneExecutor'
    BY <2>1, <2>2
  <2>6. QED BY <2>3, <2>4, <2>5
<1>3. ASSUME NEW r \in Runs, ClaimSpecific(w, r) PROVE Claimed'
  BY <1>3, HoldersAssumption DEF ClaimSpecific
<1>4. QED BY <1>1, <1>2, <1>3

LEMMA ClaimedFault ==
  ASSUME TypeOK, Claimed, NEW w \in Workers, WorkerFault(w) PROVE Claimed'
<1> USE DEF Claimed, ClaimsHoldTheirRow, ExecutedRunsAreClaimed, OneExecutor, Holds,
            TypeOK, Executing, rowVars, Goto, Exit, Collect, SetStatus
<1>1. CASE Crash(w) \/ CannotPrepare(w) \/ FinalizeUnsaid(w) \/ FallbackFails(w)
  <2>1. EndsInSilence(w)
    BY <1>1 DEF Crash, CannotPrepare, FinalizeUnsaid, FallbackFails
  <2>2. QED BY <2>1 DEF EndsInSilence
<1>2. CASE ClaimFails(w) BY <1>2 DEF ClaimFails
<1>3. CASE CannotStart(w) BY <1>3 DEF CannotStart
<1>4. CASE StartedAnswerLost(w) BY <1>4 DEF StartedAnswerLost
<1>5. CASE RunnerRaises(w) BY <1>5 DEF RunnerRaises
<1>6. CASE FinalizeFails(w) BY <1>6 DEF FinalizeFails
<1>7. CASE FinalizeAnswerLost(w)
  <2>1. PICK s \in FinalStatuses(execution[w]) : WriteEnding(run[w], s)
    BY <1>7 DEF FinalizeAnswerLost
  <2>2. s \in Terminal
    BY EndingType
  <2>3. /\ pc[w] = "collected"
        /\ pc' = [pc EXCEPT ![w] = "failing"]
        /\ status' = [status EXCEPT ![run[w]] = s]
        /\ UNCHANGED <<run, lock>>
    BY <1>7, <2>1 DEF FinalizeAnswerLost, WriteEnding
  <2>4. QED BY <2>2, <2>3 DEF Terminal
<1>8. CASE FinalizeErrorFails(w) BY <1>8 DEF FinalizeErrorFails
<1>9. CASE AbandonFails(w) BY <1>9 DEF AbandonFails
<1>10. ASSUME NEW r \in Runs, ProbeUnanswered(w, r) PROVE Claimed'
  BY <1>10 DEF ProbeUnanswered, Skip
<1>11. QED
  BY <1>1, <1>2, <1>3, <1>4, <1>5, <1>6, <1>7, <1>8, <1>9, <1>10 DEF WorkerFault

LEMMA ClaimedRequest ==
  ASSUME TypeOK, Claimed, NEW r \in Runs,
         \/ Submit(r) \/ LockForCancel(r) \/ CommitCancel(r) \/ CancelFails(r)
         \/ Age(r) \/ ToolExit(r)
  PROVE  Claimed'
<1> USE HoldersAssumption
    DEF Claimed, ClaimsHoldTheirRow, ExecutedRunsAreClaimed, OneExecutor, Holds,
        TypeOK, Executing, rowVars, workerVars
<1>1. CASE Submit(r) BY <1>1 DEF Submit
<1>2. CASE LockForCancel(r) BY <1>2 DEF LockForCancel
<1>3. CASE CommitCancel(r) BY <1>3 DEF CommitCancel
<1>4. CASE CancelFails(r) BY <1>4 DEF CancelFails
<1>5. CASE Age(r) BY <1>5 DEF Age
<1>6. CASE ToolExit(r) BY <1>6 DEF ToolExit
<1>7. QED BY <1>1, <1>2, <1>3, <1>4, <1>5, <1>6

LEMMA ClaimedNext == TypeOK /\ Claimed /\ [Next]_vars => Claimed'
<1> SUFFICES ASSUME TypeOK, Claimed, [Next]_vars PROVE Claimed'
  OBVIOUS
<1>1. CASE UNCHANGED vars
  BY <1>1 DEF vars, rowVars, workerVars, Claimed, ClaimsHoldTheirRow,
              ExecutedRunsAreClaimed, OneExecutor, Holds
<1>2. QED
  BY <1>1, ClaimedStep, ClaimedClaim, ClaimedFault, ClaimedRequest DEF Next, WorkerStep

\* No two workers ever execute the same run, however claims, cancels, reaps and
\* crashes interleave.
THEOREM OneExecutorHolds == Spec => []OneExecutor
<1>1. Spec => []Claimed
  BY ClaimedInit, ClaimedNext, TypeCorrect, PTL DEF Spec
<1>2. Claimed => OneExecutor
  BY DEF Claimed
<1>3. QED BY <1>1, <1>2, PTL

-----------------------------------------------------------------------------
(* Histories *)

\* The history of r after `events` were appended, place by place.
LEMMA Appended ==
  ASSUME TypeOK, NEW r \in Runs, NEW events \in Seq(Event), Record(r, events)
  PROVE  /\ DOMAIN log'[r] = 1..(Len(log[r]) + Len(events))
         /\ DOMAIN log[r] = 1..Len(log[r]) /\ Len(log[r]) \in Nat /\ Len(events) \in Nat
         /\ \A i \in 1..Len(log[r]) : log'[r][i] = log[r][i]
         /\ \A i \in 1..Len(events) : log'[r][Len(log[r]) + i] = events[i]
         /\ \A q \in Runs : q # r => log'[q] = log[q]
<1>1. log[r] \in Seq(Event) /\ log'[r] = log[r] \o events
  BY DEF TypeOK, Record
<1>2. QED BY <1>1 DEF TypeOK, Record

\* Every step leaves the histories alone or appends to one of them.
LEMMA LogStep ==
  ASSUME TypeOK, [Next]_vars
  PROVE  \/ log' = log
         \/ \E r \in Runs : \E events \in Seq(Event) : Record(r, events)
<1>1. ASSUME NEW r \in Runs, NEW a \in Actions, NEW s \in Status, Record(r, <<Ev(a, s)>>)
      PROVE  \E q \in Runs : \E events \in Seq(Event) : Record(q, events)
  <2>1. <<Ev(a, s)>> \in Seq(Event)
    BY EventType
  <2>2. QED BY <1>1, <2>1
<1>2. ASSUME NEW w \in Workers, Finalize(w) \/ FinalizeAnswerLost(w)
      PROVE  \E q \in Runs : \E events \in Seq(Event) : Record(q, events)
  <2>1. run[w] \in Runs /\ \E s \in FinalStatuses(execution[w]) : WriteEnding(run[w], s)
    BY <1>2 DEF Finalize, FinalizeAnswerLost, TypeOK, Executing
  <2>2. PICK s \in FinalStatuses(execution[w]) : WriteEnding(run[w], s)
    BY <2>1
  <2>3. s \in Terminal /\ FinalAction(s) \in FinalActions
    BY EndingType DEF TypeOK
  <2>4. <<Ev("outputs_recorded", s), Ev(FinalAction(s), s)>> \in Seq(Event)
    <3>1. Ev("outputs_recorded", s) \in Event /\ Ev(FinalAction(s), s) \in Event
      BY <2>3, EventType, Names
    <3>2. QED BY <3>1
  <2>5. QED BY <2>1, <2>2, <2>4 DEF WriteEnding
<1>3. ASSUME NEW r \in Runs,
             \/ Submit(r) \/ LockForCancel(r) \/ CommitCancel(r) \/ CancelFails(r)
             \/ Age(r) \/ ToolExit(r)
      PROVE  log' = log \/ \E q \in Runs : \E events \in Seq(Event) : Record(q, events)
  BY <1>1, <1>3, Names
  DEF Submit, LockForCancel, CommitCancel, CancelFails, Age, ToolExit
<1>4. ASSUME NEW w \in Workers, ReapStep(w) \/ ClaimNext(w) \/ CommitClaim(w) \/ Start(w) \/ Stop(w)
      PROVE  log' = log \/ \E q \in Runs : \E events \in Seq(Event) : Record(q, events)
  BY <1>1, <1>4, Names
  DEF ReapStep, ReadCandidates, ReapDone, Abandon, ProbeGone, ProbeAlive, Skip,
      ClaimNext, OpenClaim, CommitClaim, Start, Stop, TypeOK, Executing
<1>5. ASSUME NEW w \in Workers, ExecuteStep(w)
      PROVE  log' = log \/ \E q \in Runs : \E events \in Seq(Event) : Record(q, events)
  BY <1>1, <1>2, <1>5, Names
  DEF ExecuteStep, LogStarted, Launch, LaunchFails, ObserveExit, ObserveKill,
      FinalizeError, TypeOK, Executing
<1>6. ASSUME NEW w \in Workers, WorkerFault(w)
      PROVE  log' = log \/ \E q \in Runs : \E events \in Seq(Event) : Record(q, events)
  BY <1>1, <1>2, <1>6, Names
  DEF WorkerFault, Crash, CannotPrepare, FinalizeUnsaid, FallbackFails, EndsInSilence,
      ClaimFails, CannotStart, StartedAnswerLost, RunnerRaises,
      FinalizeFails, FinalizeErrorFails, AbandonFails, ProbeUnanswered, Skip, TypeOK, Executing
<1>7. ASSUME NEW w \in Workers, NEW r \in Runs, ClaimSpecific(w, r)
      PROVE  log' = log
  BY <1>7 DEF ClaimSpecific, OpenClaim
<1>8. CASE UNCHANGED vars
  BY <1>8 DEF vars
<1>9. QED
  BY <1>3, <1>4, <1>5, <1>6, <1>7, <1>8 DEF Next, WorkerStep

\* Histories are append-only: what was recorded stays recorded.
LEMMA HasStays ==
  ASSUME TypeOK, [Next]_vars, NEW r \in Runs, NEW a, Has(r, a)
  PROVE  Has(r, a)'
<1>1. CASE log' = log
  BY <1>1 DEF Has
<1>2. ASSUME NEW q \in Runs, NEW events \in Seq(Event), Record(q, events)
      PROVE  Has(r, a)'
  <2>1. PICK i \in DOMAIN log[r] : log[r][i].action = a
    BY DEF Has
  <2>2. i \in DOMAIN log'[r] /\ log'[r][i] = log[r][i]
    <3>1. CASE q = r
      <4>1. Record(r, events)
        BY <1>2, <3>1
      <4>2. /\ DOMAIN log'[r] = 1..(Len(log[r]) + Len(events))
            /\ DOMAIN log[r] = 1..Len(log[r])
            /\ Len(log[r]) \in Nat /\ Len(events) \in Nat
            /\ \A k \in 1..Len(log[r]) : log'[r][k] = log[r][k]
        BY <4>1, Appended
      <4>3. QED BY <4>2, <2>1
    <3>2. CASE q # r
      BY <1>2, <2>1, <3>2, Appended
    <3>3. QED BY <3>1, <3>2
  <2>3. QED BY <2>1, <2>2 DEF Has
<1>3. QED BY <1>1, <1>2, LogStep

-----------------------------------------------------------------------------
(* The tool runs only after `started` *)

Started == StartedBeforeLaunch /\ ToolOnlyAfterStarted

LEMMA StartedInit == Init => Started
BY DEF Init, Started, StartedBeforeLaunch, ToolOnlyAfterStarted

\* A step that launches nothing and logs nothing new can only keep Started.
LEMMA StartedKept ==
  ASSUME TypeOK, Started, [Next]_vars, TypeOK',
         \A w \in Workers :
           pc'[w] \in {"starting", "supervising"} =>
             \/ pc[w] \in {"starting", "supervising"} /\ run'[w] = run[w]
             \/ Has(run[w], "started")',
         \A r \in Runs : container'[r] # "none" => container[r] # "none" \/ Has(r, "started")
  PROVE  Started'
<1>1. StartedBeforeLaunch'
  <2> SUFFICES ASSUME NEW w \in Workers, pc'[w] \in {"starting", "supervising"}
               PROVE  Has(run[w], "started")'
    BY DEF StartedBeforeLaunch
  <2>1. CASE pc[w] \in {"starting", "supervising"} /\ run'[w] = run[w]
    <3>1. Has(run[w], "started") /\ run[w] \in Runs
      BY <2>1 DEF Started, StartedBeforeLaunch, TypeOK, Executing
    <3>2. PICK r \in Runs : r = run[w]
      BY <3>1
    <3>3. Has(r, "started")'
      BY <3>1, <3>2, HasStays
    <3>4. QED BY <2>1, <3>2, <3>3 DEF Has
  <2>2. QED BY <2>1
<1>2. ToolOnlyAfterStarted'
  BY HasStays DEF Started, ToolOnlyAfterStarted
<1>3. QED BY <1>1, <1>2 DEF Started

LEMMA StartedNext == TypeOK /\ TypeOK' /\ Started /\ [Next]_vars => Started'
<1> SUFFICES ASSUME TypeOK, TypeOK', Started, [Next]_vars PROVE Started'
  OBVIOUS
<1> DEFINE SameWorkers ==
             \A w \in Workers : pc'[w] \in {"starting", "supervising"} =>
               pc[w] \in {"starting", "supervising"} /\ run'[w] = run[w]
           SameTools ==
             \A r \in Runs : container'[r] # "none" => container[r] # "none"
<1>1. CASE SameWorkers /\ SameTools
  BY <1>1, StartedKept
<1>2. ASSUME NEW w \in Workers, LogStarted(w) PROVE Started'
  <2>1. run[w] \in Runs /\ Record(run[w], <<Ev("started", "running")>>)
    BY <1>2 DEF LogStarted, TypeOK, Executing
  <2>2. <<Ev("started", "running")>> \in Seq(Event)
    BY EventType, Names
  <2>3. Has(run[w], "started")'
    <3> DEFINE e == <<Ev("started", "running")>>
    <3>1. PICK r \in Runs : r = run[w]
      BY <2>1
    <3>2. Record(r, e)
      BY <2>1, <3>1
    <3>3. Len(e) = 1 /\ e[1] = Ev("started", "running") /\ e \in Seq(Event)
      BY <2>2
    <3> HIDE DEF e
    <3>4. /\ DOMAIN log'[r] = 1..(Len(log[r]) + Len(e))
          /\ Len(log[r]) \in Nat
          /\ \A k \in 1..Len(e) : log'[r][Len(log[r]) + k] = e[k]
      BY <3>2, <3>3, Appended
    <3>5. log'[r][Len(log[r]) + 1].action = "started" /\ Len(log[r]) + 1 \in DOMAIN log'[r]
      BY <3>3, <3>4 DEF Ev
    <3>6. run'[w] = r
      BY <1>2, <3>1 DEF LogStarted, Goto
    <3>7. QED BY <3>5, <3>6 DEF Has
  <2>4. \A v \in Workers : pc'[v] \in {"starting", "supervising"} =>
          v = w \/ (pc[v] \in {"starting", "supervising"} /\ run'[v] = run[v])
    BY <1>2 DEF LogStarted, Goto, TypeOK
  <2>5. SameTools
    BY <1>2 DEF LogStarted
  <2>6. QED BY <2>3, <2>4, <2>5, StartedKept
<1>3. ASSUME NEW w \in Workers, Launch(w) PROVE Started'
  <2>1. run[w] \in Runs /\ Has(run[w], "started")
    BY <1>3 DEF Launch, Started, StartedBeforeLaunch, TypeOK, Executing
  <2>2. SameWorkers
    BY <1>3 DEF Launch, Goto, TypeOK
  <2>3. \A r \in Runs : container'[r] # "none" => container[r] # "none" \/ Has(r, "started")
    BY <1>3, <2>1 DEF Launch, TypeOK
  <2>4. QED BY <2>2, <2>3, StartedKept
<1>4. ASSUME NEW w \in Workers, Start(w) \/ Stop(w) \/ ReapStep(w)
      PROVE  Started'
  BY <1>1, <1>4
  DEF Start, Stop, ReapStep, ReadCandidates, ReapDone, Abandon, ProbeGone, ProbeAlive,
      Skip, Goto, TypeOK
<1>5. ASSUME NEW w \in Workers, ClaimNext(w) \/ CommitClaim(w) \/ \E r \in Runs : ClaimSpecific(w, r)
      PROVE  Started'
  BY <1>1, <1>5 DEF ClaimNext, CommitClaim, ClaimSpecific, OpenClaim, Goto, TypeOK
<1>6. ASSUME NEW w \in Workers,
             LaunchFails(w) \/ ObserveExit(w) \/ Finalize(w) \/ FinalizeError(w)
      PROVE  Started'
  BY <1>1, <1>6 DEF LaunchFails, ObserveExit, Finalize, FinalizeError, Collect, LetGo, TypeOK
<1>7. ASSUME NEW w \in Workers, ObserveKill(w) PROVE Started'
  <2>1. SameWorkers
    <3>1. pc' = [pc EXCEPT ![w] = "collected"] /\ UNCHANGED run
      BY <1>7, Zenon DEF ObserveKill, Collect
    <3>2. QED BY <3>1 DEF TypeOK
  <2>2. SameTools
    BY <1>7 DEF ObserveKill, TypeOK
  <2>3. QED BY <1>1, <2>1, <2>2
<1>8. ASSUME NEW w \in Workers, WorkerFault(w) PROVE Started'
  BY <1>1, <1>8
  DEF WorkerFault, Crash, CannotPrepare, FinalizeUnsaid, FallbackFails, EndsInSilence,
      ClaimFails, CannotStart, StartedAnswerLost, RunnerRaises,
      FinalizeFails, FinalizeAnswerLost, FinalizeErrorFails, AbandonFails,
      ProbeUnanswered, Skip, Exit, Goto, Collect, TypeOK
<1>9. ASSUME NEW r \in Runs,
             \/ Submit(r) \/ LockForCancel(r) \/ CommitCancel(r) \/ CancelFails(r)
             \/ Age(r) \/ ToolExit(r)
      PROVE  Started'
  BY <1>1, <1>9
  DEF Submit, LockForCancel, CommitCancel, CancelFails, Age, ToolExit, workerVars, TypeOK
<1>10. CASE UNCHANGED vars
  BY <1>1, <1>10 DEF vars, workerVars
<1>11. QED
  BY <1>2, <1>3, <1>4, <1>5, <1>6, <1>7, <1>8, <1>9, <1>10
  DEF Next, WorkerStep, ExecuteStep

\* A container exists only for a run whose history says it was started.
THEOREM ToolOnlyAfterStartedHolds == Spec => []ToolOnlyAfterStarted
<1>1. Spec => []Started
  BY StartedInit, StartedNext, TypeCorrect, PTL DEF Spec
<1>2. Started => ToolOnlyAfterStarted
  BY DEF Started
<1>3. QED BY <1>1, <1>2, PTL

-----------------------------------------------------------------------------
(* The row agrees with its history *)

Row == EndedByAnEvent /\ RowAgreesWithLog

\* Row, one run at a time.
RowOf(r) ==
  /\ Endings(r) = {} <=> status[r] \notin Terminal
  /\ \A i \in Endings(r) : (\A j \in Endings(r) : j <= i) => log[r][i].status = status[r]

LEMMA RowByRun == Row <=> \A r \in Runs : RowOf(r)
BY DEF Row, RowOf, EndedByAnEvent, RowAgreesWithLog, Terminal

LEMMA RowByRunNext == Row' <=> \A r \in Runs : RowOf(r)'
BY DEF Row, RowOf, EndedByAnEvent, RowAgreesWithLog, Terminal

LEMMA RowInit == Init => Row
BY DEF Init, Row, EndedByAnEvent, RowAgreesWithLog, Endings, Terminal

\* A run whose row and history are left alone.
LEMMA RowSame ==
  ASSUME NEW r \in Runs, RowOf(r), log'[r] = log[r], status'[r] = status[r]
  PROVE  RowOf(r)'
BY DEF RowOf, Endings

\* An event that ends nothing, with a status that stays outside Terminal or
\* does not change.
LEMMA RowPlain ==
  ASSUME TypeOK, Row, NEW r \in Runs, NEW a \in Actions \ FinalActions, NEW s \in Status,
         Record(r, <<Ev(a, s)>>),
         \A q \in Runs : q # r => status'[q] = status[q],
         status'[r] = status[r] \/ (status[r] \notin Terminal /\ status'[r] \notin Terminal)
  PROVE  Row'
<1> DEFINE e == <<Ev(a, s)>>
<1>1. Len(e) = 1 /\ e[1].action = a /\ e \in Seq(Event)
  BY EventType DEF Ev
<1>2. Record(r, e)
  OBVIOUS
<1> HIDE DEF e
<1>3. /\ DOMAIN log'[r] = 1..(Len(log[r]) + 1)
      /\ DOMAIN log[r] = 1..Len(log[r]) /\ Len(log[r]) \in Nat
      /\ \A i \in 1..Len(log[r]) : log'[r][i] = log[r][i]
      /\ log'[r][Len(log[r]) + 1].action = a
      /\ \A q \in Runs : q # r => log'[q] = log[q]
  <2>1. e \in Seq(Event) /\ Record(r, e)
    BY <1>1, <1>2
  <2>2. /\ DOMAIN log'[r] = 1..(Len(log[r]) + Len(e))
        /\ DOMAIN log[r] = 1..Len(log[r]) /\ Len(log[r]) \in Nat
        /\ \A i \in 1..Len(log[r]) : log'[r][i] = log[r][i]
        /\ \A i \in 1..Len(e) : log'[r][Len(log[r]) + i] = e[i]
        /\ \A q \in Runs : q # r => log'[q] = log[q]
    BY <2>1, Appended
  <2>3. QED BY <1>1, <2>2
<1>4. Endings(r)' = Endings(r) /\ \A i \in Endings(r) : log'[r][i] = log[r][i]
  BY <1>3 DEF Endings
<1>5. RowOf(r)'
  BY <1>4, RowByRun DEF RowOf
<1>6. \A q \in Runs : q # r => RowOf(q)'
  BY <1>3, RowByRun, RowSame
<1>7. QED BY <1>5, <1>6, RowByRunNext

\* Events of which the last one ends the run, with the status the row gets.
LEMMA RowEnding ==
  ASSUME TypeOK, Row, NEW r \in Runs, NEW events \in Seq(Event), Record(r, events),
         NEW s \in Terminal, Len(events) >= 1,
         events[Len(events)].action \in FinalActions, events[Len(events)].status = s,
         status' = [status EXCEPT ![r] = s]
  PROVE  Row'
<1> DEFINE n == Len(log[r]) + Len(events)
<1>1. /\ DOMAIN log'[r] = 1..n /\ n \in Nat /\ n >= 1
      /\ log'[r][n] = events[Len(events)]
      /\ \A q \in Runs : q # r => log'[q] = log[q]
  BY Appended
<1>2. status'[r] = s /\ \A q \in Runs : q # r => status'[q] = status[q]
  BY DEF TypeOK
<1>3. n \in Endings(r)' /\ \A i \in Endings(r)' : i <= n /\ i \in Nat
  BY <1>1 DEF Endings
<1>4. RowOf(r)'
  BY <1>1, <1>2, <1>3 DEF RowOf
<1>5. \A q \in Runs : q # r => RowOf(q)'
  BY <1>1, <1>2, RowByRun, RowSame
<1>6. QED BY <1>4, <1>5, RowByRunNext

LEMMA RowEndingOne ==
  ASSUME TypeOK, Row, NEW r \in Runs, NEW a \in FinalActions, NEW s \in Terminal,
         Record(r, <<Ev(a, s)>>), status' = [status EXCEPT ![r] = s]
  PROVE  Row'
<1> DEFINE e == <<Ev(a, s)>>
<1>1. Len(e) = 1 /\ e[1].action = a /\ e[1].status = s /\ e \in Seq(Event)
  BY EventType, Names DEF Ev
<1>2. Record(r, e)
  OBVIOUS
<1> HIDE DEF e
<1>3. Len(e) >= 1 /\ e[Len(e)].action \in FinalActions /\ e[Len(e)].status = s
  BY <1>1
<1>4. QED BY <1>1, <1>2, <1>3, RowEnding

LEMMA RowWriteEnding ==
  ASSUME TypeOK, Row, NEW r \in Runs, NEW e \in Executions, NEW s \in FinalStatuses(e),
         WriteEnding(r, s)
  PROVE  Row'
<1> DEFINE events == <<Ev("outputs_recorded", s), Ev(FinalAction(s), s)>>
<1>1. s \in Terminal /\ FinalAction(s) \in FinalActions
  BY EndingType
<1>2. Ev("outputs_recorded", s) \in Event /\ Ev(FinalAction(s), s) \in Event
  BY <1>1, EventType, Names
<1>3. /\ Len(events) = 2 /\ events \in Seq(Event)
      /\ events[2].action = FinalAction(s) /\ events[2].status = s
  BY <1>2 DEF Ev
<1>4. Record(r, events) /\ status' = [status EXCEPT ![r] = s]
  BY DEF WriteEnding, SetStatus
<1> HIDE DEF events
<1>5. /\ Len(events) >= 1 /\ events[Len(events)].action \in FinalActions
      /\ events[Len(events)].status = s
  BY <1>1, <1>3
<1>6. QED BY <1>1, <1>3, <1>4, <1>5, RowEnding

LEMMA RowUnchanged ==
  ASSUME Row, log' = log, status' = status
  PROVE  Row'
BY RowByRun, RowByRunNext, RowSame

LEMMA RowNext == TypeOK /\ Claimed /\ Row /\ [Next]_vars => Row'
<1> SUFFICES ASSUME TypeOK, Claimed, Row, [Next]_vars PROVE Row'
  OBVIOUS
<1>a. {"queued", "claimed", "started"} \subseteq Actions \ FinalActions
  BY DEF Actions, FinalActions
<1>b. /\ {"errored", "cancelled", "abandoned"} \subseteq FinalActions
      /\ {"errored", "cancelled"} \subseteq Terminal
      /\ {"absent", "queued", "running"} \cap Terminal = {}
      /\ {"queued", "running"} \subseteq Status
  BY DEF FinalActions, Terminal, Status
<1>1. ASSUME NEW r \in Runs, Submit(r) PROVE Row'
  <2>1. Record(r, <<Ev("queued", "queued")>>)
    BY <1>1 DEF Submit
  <2>2. /\ \A q \in Runs : q # r => status'[q] = status[q]
        /\ status[r] \notin Terminal /\ status'[r] \notin Terminal
    BY <1>1, <1>b DEF Submit, TypeOK
  <2>3. QED BY <2>1, <2>2, <1>a, <1>b, RowPlain
<1>2. ASSUME NEW w \in Workers, CommitClaim(w) PROVE Row'
  <2>1. run[w] \in Runs /\ Record(run[w], <<Ev("claimed", "running")>>)
    BY <1>2 DEF CommitClaim, TypeOK
  <2>2. /\ \A q \in Runs : q # run[w] => status'[q] = status[q]
        /\ status[run[w]] \notin Terminal /\ status'[run[w]] \notin Terminal
    BY <1>2, <1>b, <2>1 DEF CommitClaim, TypeOK, Claimed, ClaimsHoldTheirRow
  <2>3. QED BY <2>1, <2>2, <1>a, <1>b, RowPlain
<1>3. ASSUME NEW w \in Workers, LogStarted(w) \/ StartedAnswerLost(w) PROVE Row'
  <2>1. run[w] \in Runs /\ Record(run[w], <<Ev("started", "running")>>) /\ UNCHANGED status
    BY <1>3 DEF LogStarted, StartedAnswerLost, TypeOK, Executing, rowVars
  <2>2. QED BY <2>1, <1>a, <1>b, RowPlain
<1>4. ASSUME NEW w \in Workers, Finalize(w) \/ FinalizeAnswerLost(w) PROVE Row'
  <2>1. run[w] \in Runs /\ \E s \in FinalStatuses(execution[w]) : WriteEnding(run[w], s)
    BY <1>4 DEF Finalize, FinalizeAnswerLost, TypeOK, Executing
  <2>2. QED BY <2>1, RowWriteEnding DEF TypeOK
<1>5. ASSUME NEW w \in Workers, FinalizeError(w) PROVE Row'
  <2>1. /\ run[w] \in Runs /\ Record(run[w], <<Ev("errored", "errored")>>)
        /\ status' = [status EXCEPT ![run[w]] = "errored"]
    BY <1>5 DEF FinalizeError, SetStatus, TypeOK, Executing
  <2>2. QED BY <2>1, <1>b, RowEndingOne
<1>6. ASSUME NEW w \in Workers, Abandon(w) PROVE Row'
  <2>1. CASE /\ Record(run[w], <<Ev("abandoned", "errored")>>)
             /\ SetStatus(run[w], "errored")
    <3>1. run[w] \in Runs /\ status' = [status EXCEPT ![run[w]] = "errored"]
      BY <1>6, <2>1 DEF Abandon, SetStatus, TypeOK
    <3>2. QED BY <2>1, <3>1, <1>b, RowEndingOne
  <2>2. CASE UNCHANGED <<rowVars, log>>
    BY <2>2, RowUnchanged DEF rowVars
  <2>3. QED BY <1>6, <2>1, <2>2 DEF Abandon
<1>7. ASSUME NEW r \in Runs, CommitCancel(r) PROVE Row'
  <2>1. CASE /\ status' = [status EXCEPT ![r] = "cancelled"]
             /\ Record(r, <<Ev("cancelled", "cancelled")>>)
    BY <2>1, <1>b, RowEndingOne
  <2>2. CASE UNCHANGED <<status, log>>
    BY <2>2, RowUnchanged
  <2>3. QED BY <1>7, <2>1, <2>2 DEF CommitCancel
<1>8. ASSUME NEW r \in Runs,
             LockForCancel(r) \/ CancelFails(r) \/ Age(r) \/ ToolExit(r)
      PROVE  Row'
  BY <1>8, RowUnchanged DEF LockForCancel, CancelFails, Age, ToolExit, rowVars
<1>9. ASSUME NEW w \in Workers,
             \/ Start(w) \/ Stop(w) \/ ReadCandidates(w) \/ ReapDone(w) \/ ClaimNext(w)
             \/ \E r \in Runs : ProbeGone(w, r) \/ ProbeAlive(w, r) \/ ClaimSpecific(w, r)
      PROVE  Row'
  BY <1>9, RowUnchanged
  DEF Start, Stop, ReadCandidates, ReapDone, ClaimNext, ProbeGone, ProbeAlive, Skip,
      ClaimSpecific, OpenClaim, rowVars
<1>10. ASSUME NEW w \in Workers,
              Launch(w) \/ LaunchFails(w) \/ ObserveExit(w) \/ ObserveKill(w)
       PROVE  Row'
  BY <1>10, RowUnchanged DEF Launch, LaunchFails, ObserveExit, ObserveKill, rowVars
<1>11. ASSUME NEW w \in Workers, WorkerFault(w),
              ~(StartedAnswerLost(w) \/ FinalizeAnswerLost(w))
       PROVE  Row'
  BY <1>11, RowUnchanged
  DEF WorkerFault, Crash, CannotPrepare, FinalizeUnsaid, FallbackFails, EndsInSilence,
      ClaimFails, CannotStart, RunnerRaises, FinalizeFails,
      FinalizeErrorFails, AbandonFails, ProbeUnanswered, Skip, rowVars
<1>12. CASE UNCHANGED vars
  BY <1>12, RowUnchanged DEF vars, rowVars
<1>13. QED
  BY <1>1, <1>2, <1>3, <1>4, <1>5, <1>6, <1>7, <1>8, <1>9, <1>10, <1>11, <1>12
  DEF Next, WorkerStep, ReapStep, ExecuteStep

-----------------------------------------------------------------------------
(* What a step does to a run *)

\* The runs a worker executes, and those whose ending it still has to write.
Held == {r \in Runs : \E w \in Workers : Holds(w, r)}
ToBeWritten == {r \in Runs : \E w \in Workers : pc[w] \in Unwritten /\ run[w] = r}

\* A transaction that sets the status of r and appends to its history.
Sets(r, s, events) == status' = [status EXCEPT ![r] = s] /\ Record(r, events)

NobodyMoves == Held' = Held /\ ToBeWritten' \subseteq ToBeWritten

Silent == UNCHANGED <<status, log>> /\ NobodyMoves

Submits(r) == status[r] = "absent" /\ Sets(r, "queued", <<Ev("queued", "queued")>>) /\ NobodyMoves

Claims(r) ==
  /\ status[r] = "queued"
  /\ Sets(r, "running", <<Ev("claimed", "running")>>)
  /\ Held' = Held \cup {r}
  /\ ToBeWritten' \subseteq ToBeWritten \cup {r}

Withdraws(r) ==
  /\ status[r] = "queued"
  /\ Sets(r, "cancelled", <<Ev("cancelled", "cancelled")>>)
  /\ NobodyMoves

Abandons(r) ==
  /\ status[r] = "running"
  /\ Sets(r, "errored", <<Ev("abandoned", "errored")>>)
  /\ NobodyMoves

LogsStart(r) ==
  /\ r \in Held
  /\ UNCHANGED status
  /\ Record(r, <<Ev("started", "running")>>)
  /\ NobodyMoves

WritesEnding(r) ==
  /\ r \in ToBeWritten
  /\ \E s \in Terminal : FinalAction(s) \in FinalActions
                         /\ Sets(r, s, <<Ev("outputs_recorded", s), Ev(FinalAction(s), s)>>)
  /\ Held' \in {Held, Held \ {r}}
  /\ ToBeWritten' \subseteq ToBeWritten \ {r}

WritesError(r) ==
  /\ r \in Held
  /\ Sets(r, "errored", <<Ev("errored", "errored")>>)
  /\ Held' = Held \ {r}
  /\ ToBeWritten' \subseteq ToBeWritten

Drops(r) ==
  /\ r \in Held
  /\ UNCHANGED <<status, log>>
  /\ Held' = Held \ {r}
  /\ ToBeWritten' \subseteq ToBeWritten
  /\ crashes' = crashes + 1 \/ r \in fallback'

Shape ==
  \/ Silent
  \/ \E r \in Runs :
       \/ Submits(r) \/ Claims(r) \/ Withdraws(r) \/ Abandons(r)
       \/ LogsStart(r) \/ WritesEnding(r) \/ WritesError(r) \/ Drops(r)

\* One worker moves; the others stay where they are.
OthersStay(w) == \A v \in Workers : v # w => pc'[v] = pc[v] /\ run'[v] = run[v]

LEMMA StaysOut ==
  ASSUME NEW w \in Workers, OthersStay(w), pc[w] \notin Executing, pc'[w] \notin Executing
  PROVE  NobodyMoves
<1>1. \A v \in Workers : \A r \in Runs : Holds(v, r)' <=> Holds(v, r)
  BY DEF OthersStay, Holds
<1>2. \A v \in Workers : pc'[v] \in Unwritten => pc[v] \in Unwritten /\ run'[v] = run[v]
  BY DEF OthersStay, Unwritten
<1>3. QED BY <1>1, <1>2 DEF NobodyMoves, Held, ToBeWritten

LEMMA StaysIn ==
  ASSUME NEW w \in Workers, OthersStay(w), pc[w] \in Executing, pc'[w] \in Executing,
         run'[w] = run[w], pc'[w] \in Unwritten => pc[w] \in Unwritten
  PROVE  NobodyMoves
<1>1. \A v \in Workers : \A r \in Runs : Holds(v, r)' <=> Holds(v, r)
  BY DEF OthersStay, Holds
<1>2. \A v \in Workers : pc'[v] \in Unwritten => pc[v] \in Unwritten /\ run'[v] = run[v]
  BY DEF OthersStay, Unwritten
<1>3. QED BY <1>1, <1>2 DEF NobodyMoves, Held, ToBeWritten

LEMMA TakesUp ==
  ASSUME NEW w \in Workers, OthersStay(w), NEW r \in Runs,
         pc[w] \notin Executing, pc'[w] \in Executing, run'[w] = r
  PROVE  Held' = Held \cup {r} /\ ToBeWritten' \subseteq ToBeWritten \cup {r}
<1>1. \A v \in Workers : v # w => \A q \in Runs : Holds(v, q)' <=> Holds(v, q)
  BY DEF OthersStay, Holds
<1>2. \A q \in Runs : Holds(w, q)' <=> q = r
  BY DEF Holds
<1>3. \A q \in Runs : ~Holds(w, q)
  BY DEF Holds
<1>4. \A v \in Workers : v # w /\ pc'[v] \in Unwritten => pc[v] \in Unwritten /\ run'[v] = run[v]
  BY DEF OthersStay
<1>5. QED BY <1>1, <1>2, <1>3, <1>4 DEF Held, ToBeWritten

LEMMA LetsGo ==
  ASSUME OneExecutor, NEW w \in Workers, OthersStay(w), NEW r \in Runs,
         Holds(w, r), pc'[w] \notin Executing
  PROVE  r \in Held /\ Held' = Held \ {r} /\ ToBeWritten' \subseteq ToBeWritten \ {r}
<1>1. \A v \in Workers : v # w => ~Holds(v, r) /\ \A q \in Runs : Holds(v, q)' <=> Holds(v, q)
  BY DEF OthersStay, Holds, OneExecutor
<1>2. \A q \in Runs : ~Holds(w, q)' /\ (Holds(w, q) <=> q = r)
  BY DEF Holds
<1>3. \A v \in Workers : pc'[v] \in Unwritten =>
        pc[v] \in Unwritten /\ run'[v] = run[v] /\ run[v] # r
  BY <1>1 DEF OthersStay, Unwritten, Holds
<1>4. QED BY <1>1, <1>2, <1>3 DEF Held, ToBeWritten

LEMMA Writes ==
  ASSUME OneExecutor, NEW w \in Workers, OthersStay(w), NEW r \in Runs,
         Holds(w, r), pc'[w] = "failing", run'[w] = r
  PROVE  Held' = Held /\ ToBeWritten' \subseteq ToBeWritten \ {r}
<1>1. \A v \in Workers : \A q \in Runs : Holds(v, q)' <=> Holds(v, q)
  BY DEF OthersStay, Holds, Executing
<1>2. \A v \in Workers : pc'[v] \in Unwritten =>
        pc[v] \in Unwritten /\ run'[v] = run[v] /\ run[v] # r
  BY DEF OthersStay, Unwritten, Holds, OneExecutor
<1>3. QED BY <1>1, <1>2 DEF Held, ToBeWritten

LEMMA ShapeOutside ==
  ASSUME TypeOK, Claimed, NEW w \in Workers,
         \/ Start(w) \/ Stop(w) \/ ReapStep(w) \/ ClaimNext(w)
         \/ \E r \in Runs : ClaimSpecific(w, r)
         \/ ClaimFails(w) \/ AbandonFails(w) \/ \E r \in Runs : ProbeUnanswered(w, r)
  PROVE  Shape
<1> USE DEF TypeOK, Executing, OthersStay, Goto, Exit, OpenClaim
<1>1. OthersStay(w) /\ pc[w] \notin Executing /\ pc'[w] \notin Executing
  BY DEF Start, Stop, ReapStep, ReadCandidates, ReapDone, Abandon, ProbeGone, ProbeAlive,
         Skip, ClaimNext, ClaimSpecific, ClaimFails, AbandonFails, ProbeUnanswered
<1>2. NobodyMoves
  BY <1>1, StaysOut
<1>3. CASE Abandon(w)
  <2>1. CASE UNCHANGED <<rowVars, log>>
    BY <1>2, <2>1 DEF Shape, Silent, rowVars
  <2>2. CASE /\ status[run[w]] = "running" /\ SetStatus(run[w], "errored")
             /\ Record(run[w], <<Ev("abandoned", "errored")>>)
    <3>1. run[w] \in Runs /\ Abandons(run[w])
      BY <1>2, <1>3, <2>2 DEF Abandon, Abandons, Sets, SetStatus
    <3>2. QED BY <3>1 DEF Shape
  <2>3. QED BY <1>3, <2>1, <2>2 DEF Abandon
<1>4. CASE ~Abandon(w)
  <2>1. UNCHANGED <<status, log>>
    BY <1>4 DEF Start, Stop, ReapStep, ReadCandidates, ReapDone, ProbeGone, ProbeAlive,
                Skip, ClaimNext, ClaimSpecific, ClaimFails, AbandonFails, ProbeUnanswered, rowVars
  <2>2. QED BY <1>2, <2>1 DEF Shape, Silent
<1>5. QED BY <1>3, <1>4

LEMMA ShapeInside ==
  ASSUME TypeOK, Claimed, NEW w \in Workers,
         \/ Launch(w) \/ LaunchFails(w) \/ ObserveExit(w) \/ ObserveKill(w)
         \/ CannotStart(w) \/ RunnerRaises(w) \/ FinalizeFails(w)
  PROVE  Shape
<1>1. /\ pc[w] \in Unwritten
      /\ pc'[w] \in Executing
      /\ OthersStay(w)
      /\ run'[w] = run[w]
  <2>1. /\ pc[w] \in Unwritten
        /\ \E p \in Executing : pc' = [pc EXCEPT ![w] = p]
        /\ run' = run
    <3>1. CASE ObserveKill(w)
      BY <3>1, Zenon DEF ObserveKill, Collect, Executing, Unwritten
    <3>2. QED
      BY <3>1 DEF Launch, LaunchFails, ObserveExit, CannotStart, RunnerRaises, FinalizeFails,
                  Goto, Collect, Executing, Unwritten
  <2>2. QED BY <2>1 DEF OthersStay, TypeOK
<1>2. NobodyMoves
  BY <1>1, StaysIn DEF Unwritten
<1>3. UNCHANGED <<status, log>>
  BY DEF Launch, LaunchFails, ObserveExit, ObserveKill, CannotStart, RunnerRaises,
         FinalizeFails, rowVars
<1>4. QED BY <1>2, <1>3 DEF Shape, Silent

LEMMA ShapeStarted ==
  ASSUME TypeOK, Claimed, NEW w \in Workers, LogStarted(w) \/ StartedAnswerLost(w)
  PROVE  Shape
<1>1. /\ run[w] \in Runs /\ pc[w] \in Unwritten
      /\ pc'[w] \in Executing
      /\ OthersStay(w)
      /\ run'[w] = run[w]
      /\ Record(run[w], <<Ev("started", "running")>>)
      /\ status' = status
  BY DEF LogStarted, StartedAnswerLost, Goto, TypeOK, OthersStay, Executing, Unwritten, rowVars
<1>2. NobodyMoves
  BY <1>1, StaysIn DEF Unwritten
<1>3. run[w] \in Held
  BY <1>1 DEF Held, Holds, Unwritten
<1>4. LogsStart(run[w])
  BY <1>1, <1>2, <1>3 DEF LogsStart
<1>5. QED BY <1>1, <1>4 DEF Shape

LEMMA ShapeClaim ==
  ASSUME TypeOK, Claimed, NEW w \in Workers, CommitClaim(w)
  PROVE  Shape
<1>1. /\ run[w] \in Runs /\ status[run[w]] = "queued"
      /\ pc[w] \notin Executing /\ pc'[w] \in Executing /\ run'[w] = run[w]
      /\ OthersStay(w)
      /\ Sets(run[w], "running", <<Ev("claimed", "running")>>)
  BY DEF CommitClaim, Goto, TypeOK, OthersStay, Executing, Sets, Claimed, ClaimsHoldTheirRow
<1>2. Claims(run[w])
  BY <1>1, TakesUp DEF Claims
<1>3. QED BY <1>1, <1>2 DEF Shape

LEMMA ShapeEnding ==
  ASSUME TypeOK, Claimed, NEW w \in Workers, Finalize(w) \/ FinalizeAnswerLost(w)
  PROVE  Shape
<1>1. /\ run[w] \in Runs /\ pc[w] \in Unwritten /\ Holds(w, run[w])
      /\ \E s \in FinalStatuses(execution[w]) : WriteEnding(run[w], s)
  BY DEF Finalize, FinalizeAnswerLost, TypeOK, Executing, Unwritten, Holds
<1>2. PICK s \in FinalStatuses(execution[w]) : WriteEnding(run[w], s)
  BY <1>1
<1>3. s \in Terminal /\ FinalAction(s) \in FinalActions
  BY EndingType DEF TypeOK
<1>4. Sets(run[w], s, <<Ev("outputs_recorded", s), Ev(FinalAction(s), s)>>)
  BY <1>2 DEF WriteEnding, SetStatus, Sets
<1>5. run[w] \in ToBeWritten
  BY <1>1 DEF ToBeWritten
<1>6. OneExecutor
  BY DEF Claimed
<1>7. CASE Finalize(w)
  <2>1. OthersStay(w) /\ pc'[w] \notin Executing
    BY <1>7 DEF Finalize, LetGo, TypeOK, OthersStay, Executing
  <2>2. Held' = Held \ {run[w]} /\ ToBeWritten' \subseteq ToBeWritten \ {run[w]}
    BY <1>1, <1>6, <2>1, LetsGo
  <2>3. QED BY <1>1, <1>3, <1>4, <1>5, <2>2 DEF Shape, WritesEnding
<1>8. CASE FinalizeAnswerLost(w)
  <2>1. OthersStay(w) /\ pc'[w] = "failing" /\ run'[w] = run[w]
    BY <1>8 DEF FinalizeAnswerLost, Goto, TypeOK, OthersStay
  <2>2. Held' = Held /\ ToBeWritten' \subseteq ToBeWritten \ {run[w]}
    BY <1>1, <1>6, <2>1, Writes
  <2>3. QED BY <1>1, <1>3, <1>4, <1>5, <2>2 DEF Shape, WritesEnding
<1>9. QED BY <1>7, <1>8

LEMMA ShapeError ==
  ASSUME TypeOK, Claimed, NEW w \in Workers, FinalizeError(w) \/ FinalizeErrorFails(w)
  PROVE  Shape
<1>1. /\ run[w] \in Runs /\ Holds(w, run[w])
      /\ OthersStay(w) /\ pc'[w] \notin Executing
  BY DEF FinalizeError, FinalizeErrorFails, LetGo, Exit, TypeOK, Executing, Holds, OthersStay
<1>2. /\ run[w] \in Held /\ Held' = Held \ {run[w]}
      /\ ToBeWritten' \subseteq ToBeWritten \ {run[w]}
  BY <1>1, LetsGo DEF Claimed
<1>3. CASE FinalizeError(w)
  <2>1. WritesError(run[w])
    BY <1>2, <1>3 DEF FinalizeError, WritesError, Sets, SetStatus
  <2>2. QED BY <1>1, <2>1 DEF Shape
<1>4. CASE FinalizeErrorFails(w)
  <2>1. Drops(run[w])
    BY <1>2, <1>4 DEF FinalizeErrorFails, Drops, rowVars
  <2>2. QED BY <1>1, <2>1 DEF Shape
<1>5. QED BY <1>3, <1>4

LEMMA ShapeSilence ==
  ASSUME TypeOK, Claimed, NEW w \in Workers,
         Crash(w) \/ CannotPrepare(w) \/ FinalizeUnsaid(w) \/ FallbackFails(w)
  PROVE  Shape
<1>1. OthersStay(w) /\ pc'[w] \notin Executing /\ UNCHANGED <<status, log>> /\ crashes' = crashes + 1
  BY DEF Crash, CannotPrepare, FinalizeUnsaid, FallbackFails, EndsInSilence, Exit, TypeOK, OthersStay, Executing, rowVars
<1>2. CASE pc[w] \in Executing
  <2>1. run[w] \in Runs /\ Holds(w, run[w])
    BY <1>2 DEF TypeOK, Holds
  <2>2. Drops(run[w])
    BY <1>1, <2>1, LetsGo DEF Drops, Claimed
  <2>3. QED BY <2>1, <2>2 DEF Shape
<1>3. CASE pc[w] \notin Executing
  BY <1>1, <1>3, StaysOut DEF Shape, Silent
<1>4. QED BY <1>2, <1>3

LEMMA ShapeRequest ==
  ASSUME TypeOK, Claimed, NEW r \in Runs,
         \/ Submit(r) \/ LockForCancel(r) \/ CommitCancel(r) \/ CancelFails(r)
         \/ Age(r) \/ ToolExit(r)
  PROVE  Shape
<1>1. UNCHANGED <<pc, run>>
  BY DEF Submit, LockForCancel, CommitCancel, CancelFails, Age, ToolExit, workerVars
<1>2. NobodyMoves
  BY <1>1 DEF NobodyMoves, Held, ToBeWritten, Holds
<1>3. CASE Submit(r)
  <2>1. Submits(r)
    BY <1>2, <1>3 DEF Submit, Submits, Sets
  <2>2. QED BY <2>1 DEF Shape
<1>4. CASE CommitCancel(r)
  <2>1. CASE UNCHANGED <<status, log>>
    BY <1>2, <2>1 DEF Shape, Silent
  <2>2. CASE ~UNCHANGED <<status, log>>
    <3>1. Withdraws(r)
      BY <1>2, <1>4, <2>2 DEF CommitCancel, Withdraws, Sets
    <3>2. QED BY <3>1 DEF Shape
  <2>3. QED BY <2>1, <2>2
<1>5. CASE LockForCancel(r) \/ CancelFails(r) \/ Age(r) \/ ToolExit(r)
  BY <1>2, <1>5 DEF LockForCancel, CancelFails, Age, ToolExit, rowVars, Shape, Silent
<1>6. QED BY <1>3, <1>4, <1>5

\* Every step is one of the few things that can happen to a run.
LEMMA StepShape == TypeOK /\ Claimed /\ [Next]_vars => Shape
<1> SUFFICES ASSUME TypeOK, Claimed, [Next]_vars PROVE Shape
  OBVIOUS
<1>1. CASE UNCHANGED vars
  BY <1>1 DEF vars, rowVars, workerVars, Shape, Silent, NobodyMoves, Held, ToBeWritten, Holds
<1>2. ASSUME NEW w \in Workers, WorkerStep(w) \/ WorkerFault(w) PROVE Shape
  <2>1. CASE WorkerStep(w)
    BY <2>1, ShapeOutside, ShapeInside, ShapeStarted, ShapeClaim, ShapeEnding, ShapeError
    DEF WorkerStep, ExecuteStep
  <2>2. CASE WorkerFault(w)
    BY <2>2, ShapeOutside, ShapeInside, ShapeStarted, ShapeEnding, ShapeError, ShapeSilence
    DEF WorkerFault
  <2>3. QED BY <1>2, <2>1, <2>2
<1>3. QED BY <1>1, <1>2, ShapeOutside, ShapeRequest DEF Next

-----------------------------------------------------------------------------
(* The runs table keeps its contract *)

\* The ended runs whose worker has not let go of them.
Contested == {r \in Runs : status[r] \in Terminal /\ \E w \in Workers : Holds(w, r)}

LEMMA ContestedIsHeld == Contested = {r \in Held : status[r] \in Terminal}
BY DEF Contested, Held

LEMMA ContestedNext == Contested' = {r \in Held' : status'[r] \in Terminal}
BY DEF Contested, Held

LEMMA HeldIsClaimed ==
  ASSUME Claimed, NEW r \in Held
  PROVE  status[r] \notin {"absent", "queued"}
BY DEF Held, Holds, Claimed, ExecutedRunsAreClaimed

\* A run that is written an ending by its worker: ended if it was running,
\* overturned if somebody else had ended it.
LEMMA EndOrOverturn ==
  ASSUME TypeOK, Claimed, NEW r \in Held, NEW s \in Terminal,
         status' = [status EXCEPT ![r] = s], Held' \in {Held, Held \ {r}}
  PROVE  Contract!End(r) \/ Contract!Overturn(r)
<1>1. r \in Runs /\ (status[r] = "running" \/ status[r] \in Terminal)
  BY HeldIsClaimed DEF Held, TypeOK, Status
<1>2. /\ status'[r] = s /\ "running" \notin Terminal
      /\ \A q \in Runs : q # r => status'[q] = status[q]
  BY <1>1 DEF TypeOK, Terminal
<1>3. Held \subseteq Runs
  BY DEF Held
<1>4. CASE status[r] = "running"
  <2>1. Contested' \in {Contested, Contested \cup {r}}
    BY <1>2, <1>3, <1>4, ContestedIsHeld, ContestedNext
  <2>2. QED
    BY <1>4, <2>1 DEF Contract!End, Contract!Move, Contract!Terminal, Terminal, Contested
<1>5. CASE status[r] \in Terminal
  <2>1. r \in Contested /\ Contested' \in {Contested, Contested \ {r}}
    BY <1>2, <1>3, <1>5, ContestedIsHeld, ContestedNext
  <2>2. QED
    BY <1>5, <2>1 DEF Contract!Overturn, Contract!Move, Contract!Terminal, Terminal, Contested
<1>6. QED BY <1>1, <1>4, <1>5

LEMMA ContractStep ==
  ASSUME TypeOK, Claimed, Shape
  PROVE  [Contract!Next]_(Contract!vars)
<1>a. /\ {"absent", "queued", "running"} \cap Terminal = {}
      /\ {"cancelled", "errored"} \subseteq Terminal
  BY DEF Terminal
<1>b. Held \subseteq Runs
  BY DEF Held
<1>1. CASE Silent
  <2>1. Contested' = Contested /\ status' = status
    BY <1>1, ContestedIsHeld, ContestedNext DEF Silent, NobodyMoves
  <2>2. QED BY <2>1 DEF Contract!vars, Contested
<1>2. ASSUME NEW r \in Runs, NEW s \in {"queued", "running"},
             status[r] \in {"absent", "queued"}, status' = [status EXCEPT ![r] = s],
             Held' \in {Held, Held \cup {r}}
      PROVE  Contested' = Contested
  <2>1. /\ status[r] \notin Terminal /\ status'[r] \notin Terminal
        /\ \A q \in Runs : q # r => status'[q] = status[q]
    BY <1>2, <1>a DEF TypeOK
  <2>2. QED BY <1>2, <1>b, <2>1, ContestedIsHeld, ContestedNext
<1>3. ASSUME NEW r \in Runs, Submits(r) PROVE Contract!Submit(r)
  <2>1. Contested' = Contested
    BY <1>2, <1>3 DEF Submits, Sets, NobodyMoves
  <2>2. QED
    BY <1>3, <2>1 DEF Submits, Sets, Contract!Submit, Contract!Move, Contested
<1>4. ASSUME NEW r \in Runs, Claims(r) PROVE Contract!Claim(r)
  <2>1. Contested' = Contested
    BY <1>2, <1>4 DEF Claims, Sets
  <2>2. QED
    BY <1>4, <2>1 DEF Claims, Sets, Contract!Claim, Contract!Move, Contested
<1>5. ASSUME NEW r \in Runs, Withdraws(r) PROVE Contract!Withdraw(r)
  <2>1. /\ r \notin Held /\ Held' = Held
        /\ \A q \in Runs : q # r => status'[q] = status[q]
    BY <1>5, HeldIsClaimed DEF Withdraws, Sets, NobodyMoves, TypeOK
  <2>2. Contested' = Contested
    BY <1>b, <2>1, ContestedIsHeld, ContestedNext
  <2>3. QED
    BY <1>5, <2>2 DEF Withdraws, Sets, Contract!Withdraw, Contract!Move, Contested
<1>6. ASSUME NEW r \in Runs, Abandons(r) PROVE Contract!End(r)
  <2>1. /\ status[r] = "running" /\ status' = [status EXCEPT ![r] = "errored"] /\ Held' = Held
        /\ \A q \in Runs : q # r => status'[q] = status[q]
    BY <1>6 DEF Abandons, Sets, NobodyMoves, TypeOK
  <2>2. Contested' \in {Contested, Contested \cup {r}}
    BY <1>a, <1>b, <2>1, ContestedIsHeld, ContestedNext
  <2>3. QED
    BY <2>1, <2>2 DEF Contract!End, Contract!Move, Contract!Terminal, Contested
<1>7. ASSUME NEW r \in Runs, LogsStart(r) PROVE UNCHANGED Contract!vars
  <2>1. Contested' = Contested /\ status' = status
    BY <1>7, ContestedIsHeld, ContestedNext DEF LogsStart, NobodyMoves
  <2>2. QED BY <2>1 DEF Contract!vars, Contested
<1>8. ASSUME NEW r \in Runs, WritesEnding(r) PROVE Contract!End(r) \/ Contract!Overturn(r)
  <2>1. r \in Held
    BY <1>8 DEF WritesEnding, ToBeWritten, Held, Holds, Unwritten
  <2>2. QED BY <1>8, <2>1, EndOrOverturn DEF WritesEnding, Sets
<1>9. ASSUME NEW r \in Runs, WritesError(r) PROVE Contract!End(r) \/ Contract!Overturn(r)
  BY <1>9, <1>a, EndOrOverturn DEF WritesError, Sets
<1>10. ASSUME NEW r \in Runs, Drops(r) PROVE [Contract!Settle(r)]_(Contract!vars)
  <2>1. r \in Held /\ status' = status /\ Held' = Held \ {r}
    BY <1>10 DEF Drops
  <2>2. CASE status[r] \in Terminal
    <3>1. r \in Contested /\ Contested' = Contested \ {r}
      BY <2>1, <2>2, ContestedIsHeld, ContestedNext
    <3>2. QED BY <2>1, <3>1 DEF Contract!Settle, Contested
  <2>3. CASE status[r] \notin Terminal
    <3>1. Contested' = Contested
      BY <2>1, <2>3, ContestedIsHeld, ContestedNext
    <3>2. QED BY <2>1, <3>1 DEF Contract!vars, Contested
  <2>4. QED BY <2>2, <2>3
<1>11. QED
  BY <1>1, <1>3, <1>4, <1>5, <1>6, <1>7, <1>8, <1>9, <1>10 DEF Shape, Contract!Next

LEMMA ContractInit == Init => Contract!Init
BY DEF Init, Contract!Init, Holds, Terminal

\* The runs table implements RunContract: a run is submitted, claimed once and
\* ended once, and only the worker that was still executing a run when it was
\* ended may replace the recorded ending.
THEOREM ContractKept == Spec => KeepsContract
<1>1. TypeOK /\ Claimed /\ [Next]_vars => [Contract!Next]_(Contract!vars)
  BY StepShape, ContractStep
<1>2. Spec => []Claimed
  BY ClaimedInit, ClaimedNext, TypeCorrect, PTL DEF Spec
<1>3. QED
  BY <1>1, <1>2, ContractInit, TypeCorrect, PTL DEF Spec, KeepsContract, Contract!Spec

-----------------------------------------------------------------------------
(* What the histories say stands *)

\* The history of q keeps what it has and grows by n events.
Grew(q, n) ==
  /\ Len(log[q]) \in Nat /\ DOMAIN log[q] = 1..Len(log[q])
  /\ Len(log'[q]) = Len(log[q]) + n /\ DOMAIN log'[q] = 1..(Len(log[q]) + n)
  /\ \A i \in 1..Len(log[q]) : log'[q][i] = log[q][i]

\* The action of the n-th event that a step appends.
Added(q, n) == log'[q][Len(log[q]) + n].action

Queued(q) ==
  Grew(q, 1) /\ Added(q, 1) = "queued" /\ status[q] = "absent" /\ status'[q] = "queued"

Cancelled(q) ==
  /\ Grew(q, 1) /\ Added(q, 1) = "cancelled"
  /\ status[q] = "queued" /\ status'[q] = "cancelled"

Noted(q) ==
  /\ Grew(q, 1) /\ Added(q, 1) \notin {"queued", "cancelled", "outputs_recorded"}
  /\ status'[q] \notin {"absent", "queued"}
  /\ status[q] \in {"queued", "running"} \/ q \in Held

Ended(q) ==
  /\ Grew(q, 2) /\ Added(q, 1) = "outputs_recorded" /\ Added(q, 2) \in FinalActions
  /\ status'[q] \in Terminal
  /\ q \in ToBeWritten /\ q \notin ToBeWritten'

LEMMA GrowsByOne ==
  ASSUME TypeOK, NEW r \in Runs, NEW a \in Actions, NEW s \in Status, Record(r, <<Ev(a, s)>>)
  PROVE  Grew(r, 1) /\ Added(r, 1) = a /\ \A q \in Runs : q # r => log'[q] = log[q]
<1> DEFINE e == <<Ev(a, s)>>
<1>1. Len(e) = 1 /\ e[1].action = a /\ e \in Seq(Event) /\ Record(r, e)
  BY EventType DEF Ev
<1> HIDE DEF e
<1>2. Len(log'[r]) = Len(log[r]) + Len(e)
  BY <1>1 DEF TypeOK, Record
<1>3. QED BY <1>1, <1>2, Appended DEF Grew, Added

LEMMA GrowsByTwo ==
  ASSUME TypeOK, NEW r \in Runs, NEW a \in Actions, NEW b \in Actions, NEW s \in Status,
         Record(r, <<Ev(a, s), Ev(b, s)>>)
  PROVE  /\ Grew(r, 2) /\ Added(r, 1) = a /\ Added(r, 2) = b
         /\ \A q \in Runs : q # r => log'[q] = log[q]
<1> DEFINE e == <<Ev(a, s), Ev(b, s)>>
<1>1. Len(e) = 2 /\ e[1].action = a /\ e[2].action = b /\ e \in Seq(Event) /\ Record(r, e)
  <2>1. Ev(a, s) \in Event /\ Ev(b, s) \in Event
    BY EventType
  <2>2. QED BY <2>1 DEF Ev
<1> HIDE DEF e
<1>2. Len(log'[r]) = Len(log[r]) + Len(e)
  BY <1>1 DEF TypeOK, Record
<1>3. QED BY <1>1, <1>2, Appended DEF Grew, Added

\* What a step does to the history of a run, and to no other run's.
LEMMA LogShape ==
  ASSUME TypeOK, Claimed, Shape
  PROVE  \/ log' = log
         \/ \E r \in Runs : /\ Queued(r) \/ Cancelled(r) \/ Noted(r) \/ Ended(r)
                            /\ \A q \in Runs : q # r => log'[q] = log[q]
<1> DEFINE Alone(r) == \A q \in Runs : q # r => log'[q] = log[q]
<1>a. \A r \in Runs : \A s \in Status : status' = [status EXCEPT ![r] = s] => status'[r] = s
  BY DEF TypeOK
<1>b. {"absent", "queued", "running", "errored", "cancelled"} \subseteq Status
  BY DEF Status, Terminal
<1>1. ASSUME NEW r \in Runs, Submits(r) PROVE Queued(r) /\ Alone(r)
  <2>1. status[r] = "absent" /\ status'[r] = "queued" /\ Record(r, <<Ev("queued", "queued")>>)
    BY <1>1, <1>a, <1>b DEF Submits, Sets
  <2>2. QED BY <2>1, GrowsByOne, Names DEF Queued
<1>2. ASSUME NEW r \in Runs, Withdraws(r) PROVE Cancelled(r) /\ Alone(r)
  <2>1. /\ status[r] = "queued" /\ status'[r] = "cancelled"
        /\ Record(r, <<Ev("cancelled", "cancelled")>>)
    BY <1>2, <1>a, <1>b DEF Withdraws, Sets
  <2>2. QED BY <2>1, GrowsByOne, Names DEF Cancelled
<1>3. ASSUME NEW r \in Runs, Claims(r) PROVE Noted(r) /\ Alone(r)
  <2>1. status[r] = "queued" /\ status'[r] = "running" /\ Record(r, <<Ev("claimed", "running")>>)
    BY <1>3, <1>a, <1>b DEF Claims, Sets
  <2>2. QED BY <2>1, GrowsByOne, Names DEF Noted
<1>4. ASSUME NEW r \in Runs, Abandons(r) PROVE Noted(r) /\ Alone(r)
  <2>1. /\ status[r] = "running" /\ status'[r] = "errored"
        /\ Record(r, <<Ev("abandoned", "errored")>>)
    BY <1>4, <1>a, <1>b DEF Abandons, Sets
  <2>2. QED BY <2>1, GrowsByOne, Names DEF Noted
<1>5. ASSUME NEW r \in Runs, LogsStart(r) PROVE Noted(r) /\ Alone(r)
  <2>1. /\ r \in Held /\ status'[r] \notin {"absent", "queued"}
        /\ Record(r, <<Ev("started", "running")>>)
    BY <1>5, HeldIsClaimed DEF LogsStart
  <2>2. QED BY <2>1, GrowsByOne, Names DEF Noted
<1>6. ASSUME NEW r \in Runs, WritesError(r) PROVE Noted(r) /\ Alone(r)
  <2>1. r \in Held /\ status'[r] = "errored" /\ Record(r, <<Ev("errored", "errored")>>)
    BY <1>6, <1>a, <1>b DEF WritesError, Sets
  <2>2. QED BY <2>1, GrowsByOne, Names DEF Noted
<1>7. ASSUME NEW r \in Runs, WritesEnding(r) PROVE Ended(r) /\ Alone(r)
  <2>1. PICK s \in Terminal :
          /\ FinalAction(s) \in FinalActions
          /\ Sets(r, s, <<Ev("outputs_recorded", s), Ev(FinalAction(s), s)>>)
    BY <1>7 DEF WritesEnding
  <2>2. s \in Status /\ FinalAction(s) \in Actions
    BY <2>1, Names
  <2>3. status'[r] = s /\ r \in ToBeWritten /\ r \notin ToBeWritten'
    BY <1>7, <1>a, <2>1, <2>2 DEF WritesEnding, Sets
  <2>4. Record(r, <<Ev("outputs_recorded", s), Ev(FinalAction(s), s)>>)
    BY <2>1 DEF Sets
  <2>5. /\ Grew(r, 2) /\ Added(r, 1) = "outputs_recorded" /\ Added(r, 2) = FinalAction(s)
        /\ Alone(r)
    BY <2>2, <2>4, GrowsByTwo, Names
  <2>6. QED BY <2>1, <2>3, <2>5 DEF Ended
<1>8. CASE Silent \/ \E r \in Runs : Drops(r)
  BY <1>8 DEF Silent, Drops
<1>9. QED BY <1>1, <1>2, <1>3, <1>4, <1>5, <1>6, <1>7, <1>8 DEF Shape

\* A waiting row has the history of a waiting row: nothing, or its queued event.
LEMMA FreshNext ==
  ASSUME TypeOK, Claimed, Shape, WaitingIsFresh
  PROVE  WaitingIsFresh'
<1> SUFFICES ASSUME NEW r \in Runs
             PROVE  /\ status'[r] = "absent" => Len(log'[r]) = 0
                    /\ status'[r] = "queued" => Len(log'[r]) = 1 /\ log'[r][1].action = "queued"
  BY DEF WaitingIsFresh
<1>1. CASE log'[r] = log[r]
  <2>1. status'[r] \in {"absent", "queued"} => status'[r] = status[r]
    <3>1. CASE Silent \/ \E q \in Runs : LogsStart(q) \/ Drops(q)
      BY <3>1 DEF Silent, LogsStart, Drops
    <3>2. ASSUME NEW q \in Runs, Submits(q) PROVE status'[r] = status[r]
      <4>1. q # r
        BY <1>1, <3>2, GrowsByOne, Names DEF Submits, Sets, Grew, TypeOK
      <4>2. QED BY <3>2, <4>1 DEF Submits, Sets, TypeOK
    <3>3. ASSUME NEW q \in Runs,
                 Claims(q) \/ Withdraws(q) \/ Abandons(q) \/ WritesEnding(q) \/ WritesError(q)
          PROVE  status'[r] \in {"absent", "queued"} => status'[r] = status[r]
      BY <3>3 DEF Claims, Withdraws, Abandons, WritesEnding, WritesError, Sets, TypeOK, Terminal
    <3>4. QED BY <3>1, <3>2, <3>3 DEF Shape
  <2>2. QED BY <1>1, <2>1 DEF WaitingIsFresh
<1>2. CASE Queued(r)
  BY <1>2 DEF Queued, Grew, Added, WaitingIsFresh
<1>3. CASE Cancelled(r) \/ Noted(r) \/ Ended(r)
  BY <1>3 DEF Cancelled, Noted, Ended, Terminal
<1>4. QED BY <1>1, <1>2, <1>3, LogShape

\* Outputs are recorded once: only by the worker that has still to write the
\* ending, and its run has none recorded.
Recording == NotYetRecorded /\ OutputsRecordedOnce

LEMMA NotYetByRun ==
  ASSUME TypeOK
  PROVE  NotYetRecorded <=> \A r \in ToBeWritten : ~Has(r, "outputs_recorded")
BY DEF NotYetRecorded, ToBeWritten, TypeOK, Unwritten

LEMMA NotYetByRunNext ==
  ASSUME TypeOK'
  PROVE  NotYetRecorded' <=> \A r \in ToBeWritten' : ~Has(r, "outputs_recorded")'
BY DEF NotYetRecorded, ToBeWritten, TypeOK, Unwritten, Has

LEMMA OnceNext ==
  ASSUME TypeOK, TypeOK', Claimed, Shape, WaitingIsFresh, Recording
  PROVE  Recording'
<1>1. ASSUME NEW r \in Runs, r \in ToBeWritten'
      PROVE  ~Has(r, "outputs_recorded")
  <2>1. r \in ToBeWritten \/ status[r] = "queued"
    BY <1>1 DEF Shape, Silent, NobodyMoves, Submits, Claims, Withdraws, Abandons, LogsStart,
                WritesEnding, WritesError, Drops
  <2>2. CASE r \in ToBeWritten
    BY <2>2, NotYetByRun DEF Recording
  <2>3. CASE status[r] = "queued"
    <3>1. Len(log[r]) = 1 /\ log[r][1].action = "queued" /\ log[r] \in Seq(Event)
      BY <2>3 DEF WaitingIsFresh, TypeOK
    <3>2. DOMAIN log[r] = {1}
      BY <3>1
    <3>3. QED BY <3>1, <3>2 DEF Has
  <2>4. QED BY <2>1, <2>2, <2>3
<1>2. ASSUME NEW r \in Runs, r \in ToBeWritten'
      PROVE  ~Has(r, "outputs_recorded")'
  <2>1. CASE log'[r] = log[r]
    BY <1>1, <1>2, <2>1 DEF Has
  <2>2. CASE Queued(r) \/ Cancelled(r) \/ Noted(r)
    BY <1>1, <1>2, <2>2 DEF Has, Queued, Cancelled, Noted, Grew, Added
  <2>3. CASE Ended(r)
    BY <1>2, <2>3 DEF Ended
  <2>4. QED BY <2>1, <2>2, <2>3, LogShape
<1>3. ASSUME NEW r \in Runs, NEW i \in DOMAIN log'[r], NEW j \in DOMAIN log'[r],
             log'[r][i].action = "outputs_recorded", log'[r][j].action = "outputs_recorded"
      PROVE  i = j
  <2>1. CASE log'[r] = log[r]
    BY <1>3, <2>1 DEF Recording, OutputsRecordedOnce
  <2>2. CASE Queued(r) \/ Cancelled(r) \/ Noted(r)
    <3>1. i \in DOMAIN log[r] /\ j \in DOMAIN log[r] /\ log'[r][i] = log[r][i] /\ log'[r][j] = log[r][j]
      <4>1. Grew(r, 1) /\ Added(r, 1) # "outputs_recorded"
        BY <2>2 DEF Queued, Cancelled, Noted
      <4>2. i # Len(log[r]) + 1 /\ j # Len(log[r]) + 1
        BY <1>3, <4>1 DEF Added
      <4>3. i \in 1..(Len(log[r]) + 1) /\ j \in 1..(Len(log[r]) + 1) /\ Len(log[r]) \in Nat
        BY <1>3, <4>1 DEF Grew
      <4>4. i \in 1..Len(log[r]) /\ j \in 1..Len(log[r])
        BY <4>2, <4>3
      <4>5. QED BY <4>1, <4>4 DEF Grew
    <3>2. QED BY <1>3, <3>1 DEF Recording, OutputsRecordedOnce
  <2>3. CASE Ended(r)
    <3>1. ~Has(r, "outputs_recorded")
      BY <2>3, NotYetByRun DEF Recording, Ended
    <3>2. i = Len(log[r]) + 1 /\ j = Len(log[r]) + 1
      <4>1. Grew(r, 2) /\ Added(r, 2) # "outputs_recorded"
        BY <2>3 DEF Ended, FinalActions
      <4>2. i # Len(log[r]) + 2 /\ j # Len(log[r]) + 2
        BY <1>3, <4>1 DEF Added
      <4>3. i \in 1..(Len(log[r]) + 2) /\ j \in 1..(Len(log[r]) + 2) /\ Len(log[r]) \in Nat
        BY <1>3, <4>1 DEF Grew
      <4>4. i \notin 1..Len(log[r]) /\ j \notin 1..Len(log[r])
        BY <1>3, <3>1, <4>1 DEF Has, Grew
      <4>5. QED BY <4>2, <4>3, <4>4
    <3>3. QED BY <3>2
  <2>4. QED BY <2>1, <2>2, <2>3, LogShape
<1>4. QED
  <2>1. OutputsRecordedOnce'
    BY <1>3 DEF OutputsRecordedOnce
  <2>2. ToBeWritten' \subseteq Runs
    BY DEF ToBeWritten
  <2>3. QED BY <1>2, <2>1, <2>2, NotYetByRunNext DEF Recording

\* Nothing happens to a run that was cancelled in the queue.
LEMMA ContainerStays ==
  ASSUME TypeOK, [Next]_vars, NEW r \in Runs, r \notin Held, container[r] = "none"
  PROVE  container'[r] = "none"
<1>1. ASSUME NEW w \in Workers, Launch(w) \/ LaunchFails(w) \/ ObserveExit(w) \/ ObserveKill(w)
      PROVE  container'[r] = "none"
  <2>1. pc[w] \in Executing /\ run[w] \in Runs
    BY <1>1 DEF Launch, LaunchFails, ObserveExit, ObserveKill, TypeOK, Executing
  <2>2. run[w] # r
    BY <2>1 DEF Held, Holds
  <2>3. QED BY <1>1, <2>1, <2>2 DEF Launch, LaunchFails, ObserveExit, ObserveKill, TypeOK
<1>2. ASSUME NEW q \in Runs, ToolExit(q) PROVE container'[r] = "none"
  BY <1>2 DEF ToolExit, TypeOK
<1>3. ASSUME container' = container PROVE container'[r] = "none"
  BY <1>3
<1>4. ASSUME NEW w \in Workers,
             \/ Start(w) \/ Stop(w) \/ ReapStep(w) \/ ClaimNext(w) \/ CommitClaim(w)
             \/ LogStarted(w) \/ Finalize(w) \/ FinalizeError(w) \/ WorkerFault(w)
             \/ \E q \in Runs : ClaimSpecific(w, q)
      PROVE  container' = container
  BY <1>4 DEF Start, Stop, ReapStep, ReadCandidates, ReapDone, Abandon, ProbeGone, ProbeAlive,
              Skip, ClaimNext, ClaimSpecific, OpenClaim, CommitClaim, LogStarted, Finalize,
              FinalizeError, WorkerFault, Crash, CannotPrepare, FinalizeUnsaid, FallbackFails,
              EndsInSilence, ClaimFails, CannotStart, StartedAnswerLost,
              RunnerRaises, FinalizeFails, FinalizeAnswerLost, FinalizeErrorFails,
              AbandonFails, ProbeUnanswered
<1>5. ASSUME NEW q \in Runs,
             Submit(q) \/ LockForCancel(q) \/ CommitCancel(q) \/ CancelFails(q) \/ Age(q)
      PROVE  container' = container
  BY <1>5 DEF Submit, LockForCancel, CommitCancel, CancelFails, Age
<1>6. CASE UNCHANGED vars
  BY <1>3, <1>6 DEF vars
<1>7. QED
  BY <1>1, <1>2, <1>3, <1>4, <1>5, <1>6 DEF Next, WorkerStep, ExecuteStep

\* CancelledInQueueIsLast, one run at a time.
WithdrawnOf(r) ==
  Has(r, "cancelled") /\ ~Has(r, "outputs_recorded")
    => Len(log[r]) = 2 /\ container[r] = "none" /\ r \notin Held

LEMMA WithdrawnByRun == CancelledInQueueIsLast <=> \A r \in Runs : WithdrawnOf(r)
BY DEF CancelledInQueueIsLast, WithdrawnOf, Held

LEMMA WithdrawnByRunNext == CancelledInQueueIsLast' <=> \A r \in Runs : WithdrawnOf(r)'
BY DEF CancelledInQueueIsLast, WithdrawnOf, Held, Has

LEMMA WithdrawnNext ==
  ASSUME TypeOK, Claimed, Started, Row, WaitingIsFresh, CancelledInQueueIsLast,
         [Next]_vars, Shape
  PROVE  CancelledInQueueIsLast'
<1> SUFFICES ASSUME NEW r \in Runs, Has(r, "cancelled")', ~Has(r, "outputs_recorded")'
             PROVE  (Len(log[r]) = 2 /\ container[r] = "none" /\ r \notin Held)'
  BY WithdrawnByRunNext DEF WithdrawnOf
<1>1. CASE Has(r, "cancelled")
  <2>1. ~Has(r, "outputs_recorded")
    BY HasStays
  <2>2. Len(log[r]) = 2 /\ container[r] = "none" /\ r \notin Held
    BY <1>1, <2>1, WithdrawnByRun DEF WithdrawnOf
  <2>3. status[r] \in Terminal
    BY <1>1 DEF Has, Row, EndedByAnEvent, Endings, FinalActions
  <2>4. r \notin ToBeWritten
    BY <2>2 DEF Held, ToBeWritten, Holds, Unwritten
  <2>5. log'[r] = log[r]
    BY <2>2, <2>3, <2>4, LogShape DEF Queued, Cancelled, Noted, Ended, Terminal
  <2>6. r \notin Held'
    BY <2>2, <2>3 DEF Shape, Silent, NobodyMoves, Submits, Claims, Withdraws, Abandons,
                      LogsStart, WritesEnding, WritesError, Drops, Terminal
  <2>7. QED BY <2>2, <2>5, <2>6, ContainerStays
<1>2. CASE ~Has(r, "cancelled")
  <2>1. Cancelled(r)
    <3>1. log'[r] # log[r]
      BY <1>2 DEF Has
    <3>2. ~Queued(r) /\ ~Noted(r)
      BY <1>2 DEF Has, Queued, Noted, Grew, Added
    <3>3. ~Ended(r)
      BY DEF Has, Ended, Grew, Added
    <3>4. QED BY <3>1, <3>2, <3>3, LogShape
  <2>2. status[r] = "queued" /\ Len(log'[r]) = Len(log[r]) + 1 /\ status'[r] = "cancelled"
    BY <2>1 DEF Cancelled, Grew
  <2>3. Len(log[r]) = 1 /\ log[r][1].action = "queued" /\ DOMAIN log[r] = 1..Len(log[r])
    BY <2>1, <2>2 DEF WaitingIsFresh, Cancelled, Grew
  <2>4. r \notin Held
    BY <2>2, HeldIsClaimed
  <2>5. r \notin Held'
    BY <2>2, <2>4 DEF Shape, Silent, NobodyMoves, Submits, Claims, Withdraws, Abandons,
                      LogsStart, WritesEnding, WritesError, Drops, Sets, TypeOK
  <2>6. container[r] = "none"
    BY <2>3 DEF Started, ToolOnlyAfterStarted, Has
  <2>7. QED BY <2>2, <2>3, <2>4, <2>5, <2>6, ContainerStays
<1>3. QED BY <1>1, <1>2

\* Only a process that ends in silence strands a run, and one at most.
LEMMA FaultsGrow ==
  ASSUME TypeOK, [Next]_vars
  PROVE  fallback \subseteq fallback' /\ crashes' \in {crashes, crashes + 1}
<1>1. ASSUME NEW w \in Workers, WorkerFault(w)
      PROVE  fallback \subseteq fallback' /\ crashes' \in {crashes, crashes + 1}
  BY <1>1 DEF WorkerFault, Crash, CannotPrepare, FinalizeUnsaid, FallbackFails, EndsInSilence,
              ClaimFails, CannotStart, StartedAnswerLost, RunnerRaises,
              FinalizeFails, FinalizeAnswerLost, FinalizeErrorFails, AbandonFails,
              ProbeUnanswered, Fault, TypeOK
<1>2. ASSUME NEW w \in Workers,
             \/ Start(w) \/ Stop(w) \/ WorkerStep(w) \/ \E r \in Runs : ClaimSpecific(w, r)
      PROVE  UNCHANGED <<fallback, crashes>>
  BY <1>2 DEF Start, Stop, WorkerStep, ReapStep, ReadCandidates, ReapDone, Abandon, ProbeGone,
              ProbeAlive, ClaimNext, ClaimSpecific, OpenClaim, CommitClaim, ExecuteStep,
              LogStarted, Launch, LaunchFails, ObserveExit, ObserveKill, Finalize,
              FinalizeError, faultVars
<1>3. ASSUME NEW r \in Runs,
             \/ Submit(r) \/ LockForCancel(r) \/ CommitCancel(r) \/ CancelFails(r)
             \/ Age(r) \/ ToolExit(r)
      PROVE  UNCHANGED <<fallback, crashes>>
  BY <1>3 DEF Submit, LockForCancel, CommitCancel, CancelFails, Age, ToolExit, Fault, faultVars
<1>4. CASE UNCHANGED vars
  BY <1>4 DEF vars, faultVars
<1>5. QED BY <1>1, <1>2, <1>3, <1>4 DEF Next

LEMMA StrandedOutOfHands == Stranded = {r \in Runs : status[r] = "running" /\ r \notin Held \cup fallback}
BY DEF Stranded, Held

LEMMA StrandedOutOfHandsNext ==
  Stranded' = {r \in Runs : status'[r] = "running" /\ r \notin Held' \cup fallback'}
BY DEF Stranded, Held

LEMMA StrandedStep ==
  ASSUME TypeOK, [Next]_vars, Shape
  PROVE  \/ Stranded' \subseteq Stranded
         \/ crashes' = crashes + 1 /\ \E r \in Runs : Stranded' \subseteq Stranded \cup {r}
<1> USE StrandedOutOfHands, StrandedOutOfHandsNext
<1>1. fallback \subseteq fallback'
  BY FaultsGrow
<1>2. CASE Silent
  BY <1>1, <1>2 DEF Silent, NobodyMoves
<1>3. ASSUME NEW q \in Runs,
             Submits(q) \/ Withdraws(q) \/ Abandons(q) \/ LogsStart(q) \/ WritesEnding(q) \/ WritesError(q)
      PROVE  Stranded' \subseteq Stranded
  <2>1. /\ status'[q] = "running" => status'[q] = status[q] /\ Held' = Held
        /\ \A p \in Runs : p # q => status'[p] = status[p]
        /\ Held' \in {Held, Held \ {q}}
    BY <1>3 DEF Submits, Withdraws, Abandons, LogsStart, WritesEnding, WritesError, Sets,
                NobodyMoves, TypeOK, Terminal
  <2>2. QED BY <1>1, <2>1
<1>4. ASSUME NEW q \in Runs, Claims(q) PROVE Stranded' \subseteq Stranded
  BY <1>1, <1>4 DEF Claims, Sets, TypeOK
<1>5. ASSUME NEW q \in Runs, Drops(q)
      PROVE  \/ Stranded' \subseteq Stranded
             \/ crashes' = crashes + 1 /\ Stranded' \subseteq Stranded \cup {q}
  BY <1>1, <1>5 DEF Drops
<1>6. QED BY <1>2, <1>3, <1>4, <1>5 DEF Shape

LEMMA StrandedIsFinite == IsFiniteSet(Stranded) /\ IsFiniteSet(Stranded')
<1>1. Stranded \subseteq Runs /\ Stranded' \subseteq Runs
  BY DEF Stranded
<1>2. QED BY <1>1, RunsAssumption, FS_Subset

LEMMA StrandedNext ==
  ASSUME TypeOK, StrandedByAnEndedProcess, [Next]_vars, Shape
  PROVE  StrandedByAnEndedProcess'
<1>1. /\ Cardinality(Stranded) <= crashes /\ crashes \in Nat
      /\ crashes' \in {crashes, crashes + 1}
      /\ Cardinality(Stranded) \in Nat /\ Cardinality(Stranded') \in Nat
  BY FaultsGrow, StrandedIsFinite, FS_CardinalityType, BoundsAssumption
  DEF StrandedByAnEndedProcess, TypeOK
<1>2. CASE Stranded' \subseteq Stranded
  <2>1. Cardinality(Stranded') <= Cardinality(Stranded)
    BY <1>2, StrandedIsFinite, FS_Subset
  <2>2. Cardinality(Stranded') <= crashes'
    BY <1>1, <2>1
  <2>3. QED BY <2>2 DEF StrandedByAnEndedProcess, Stranded, Holds
<1>3. ASSUME NEW r \in Runs, crashes' = crashes + 1, Stranded' \subseteq Stranded \cup {r}
      PROVE  StrandedByAnEndedProcess'
  <2>1. /\ IsFiniteSet(Stranded \cup {r})
        /\ Cardinality(Stranded \cup {r}) \in {Cardinality(Stranded), Cardinality(Stranded) + 1}
    BY StrandedIsFinite, FS_AddElement
  <2>2. Cardinality(Stranded') <= Cardinality(Stranded \cup {r})
    BY <1>3, <2>1, FS_Subset
  <2>3. Cardinality(Stranded') <= crashes'
    BY <1>1, <1>3, <2>1, <2>2
  <2>4. QED BY <2>3 DEF StrandedByAnEndedProcess, Stranded, Holds
<1>4. QED BY <1>2, <1>3, StrandedStep

-----------------------------------------------------------------------------

LEMMA ResultsInit ==
  Init => WaitingIsFresh /\ Recording /\ CancelledInQueueIsLast /\ StrandedByAnEndedProcess
<1>1. Init => WaitingIsFresh /\ Recording /\ CancelledInQueueIsLast
  BY DEF Init, WaitingIsFresh, Recording, NotYetRecorded, OutputsRecordedOnce, Unwritten,
         Executing, CancelledInQueueIsLast, Has
<1>2. Init => Stranded = {} /\ crashes = 0
  BY DEF Init, Stranded
<1>3. Init => StrandedByAnEndedProcess
  BY <1>2, FS_EmptySet DEF StrandedByAnEndedProcess
<1>4. QED BY <1>1, <1>3

\* The inductive invariant.
THEOREM InvariantHolds == Spec => []IInv
<1> DEFINE Standing == WaitingIsFresh /\ Recording /\ CancelledInQueueIsLast /\ StrandedByAnEndedProcess
<1>1. Spec => [](Claimed /\ Started /\ Row /\ Standing)
  <2>1. Init => Claimed /\ Started /\ Row /\ Standing
    BY ClaimedInit, StartedInit, RowInit, ResultsInit
  <2>2. TypeOK /\ TypeOK' /\ Claimed /\ Started /\ Row /\ Standing /\ [Next]_vars
          => (Claimed /\ Started /\ Row /\ Standing)'
    <3> SUFFICES ASSUME TypeOK, TypeOK', Claimed, Started, Row, Standing, [Next]_vars
                 PROVE  (Claimed /\ Started /\ Row /\ Standing)'
      OBVIOUS
    <3>1. Shape
      BY StepShape
    <3>2. Claimed' /\ Started' /\ Row'
      BY ClaimedNext, StartedNext, RowNext
    <3>3. Standing'
      BY <3>1, FreshNext, OnceNext, WithdrawnNext, StrandedNext
    <3>4. QED BY <3>2, <3>3
  <2>3. QED BY <2>1, <2>2, TypeCorrect, PTL DEF Spec
<1>2. Claimed /\ Started /\ Row /\ Standing => IInv
  BY DEF Claimed, Started, Row, Recording, ResultsStand, IInv
<1>3. QED BY <1>1, <1>2, PTL

\* The status column always is what the run.lifecycle events say it is.
THEOREM RowAgreesWithLogHolds == Spec => []RowAgreesWithLog
<1>1. IInv => RowAgreesWithLog
  BY DEF IInv
<1>2. QED BY <1>1, InvariantHolds, PTL

\* A cancel in the queue is final, outputs are recorded once, and no more runs
\* are left running without a report than processes have ended in silence.
THEOREM ResultsStandHolds == Spec => []ResultsStand
<1>1. IInv => ResultsStand
  BY DEF IInv
<1>2. QED BY <1>1, InvariantHolds, PTL
=============================================================================

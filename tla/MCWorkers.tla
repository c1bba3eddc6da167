------------------------------ MODULE MCWorkers -------------------------------
(***************************************************************************)
(* The two background workers and what they must get done: the run worker  *)
(* (RunLifecycle, one run) and the mission worker (Missions, two branches  *)
(* that join in the evidence).  They share no state, so a behaviour is of  *)
(* one of them, named by part, and the other stays as it began.            *)
(***************************************************************************)
EXTENDS Naturals

CONSTANTS r1, performance, formal, evidence, w1, w2, NoRun, Free, Api, Nobody

VARIABLES
  part,
  status, cancelRequested, queuedAt, pastGrace, lock, log, container,
  pc, run, execution, candidates, looping, fallback, faults, crashes,
  mission, state, approval, outcome, check, usage, used, spent, missionLock,
  place, task, seen, tokens, toolRuns, mishaps, killed, losses

runVars == <<status, cancelRequested, queuedAt, pastGrace, lock, log, container,
             pc, run, execution, candidates, looping, fallback, faults, crashes>>
missionVars == <<mission, state, approval, outcome, check, usage, used, spent, missionLock,
                 place, task, seen, tokens, toolRuns, mishaps, killed, losses>>
vars == <<part, runVars, missionVars>>

Run == INSTANCE RunLifecycle WITH
  Runs <- {r1}, Workers <- {w1, w2}, Reaps <- TRUE, Once <- TRUE,
  MaxFaults <- 2, MaxCrashes <- 1

Mission == INSTANCE Missions WITH
  Roles <- <<performance, formal, evidence>>,
  DependsOn <- [n \in {performance, formal, evidence} |->
                  IF n = evidence THEN {performance, formal} ELSE {}],
  Evidence <- evidence, ToolNodes <- {formal}, Workers <- {w1, w2},
  Estimate <- 1, MostTokens <- 1, TaskTokens <- 1, MissionTokens <- 2, MaxMishaps <- 1,
  status <- mission, lock <- missionLock, pc <- place, faults <- mishaps, crashes <- killed

Init == part \in {"runs", "missions"} /\ Run!Init /\ Mission!Init

Next == \/ part = "runs" /\ Run!Next /\ UNCHANGED <<part, missionVars>>
        \/ part = "missions" /\ Mission!Next /\ UNCHANGED <<part, runVars>>

\* The fairness of RunLifecycle's RestartSpec and of Missions' LiveSpec.
Fairness ==
  /\ \A w \in {w1, w2} :
       /\ WF_runVars(part = "runs" /\ Run!WorkerStep(w))
       /\ WF_runVars(part = "runs" /\ Run!Start(w)) /\ WF_runVars(part = "runs" /\ Run!Stop(w))
       /\ WF_missionVars(part = "missions" /\ Mission!Advance(w))
       /\ WF_missionVars(part = "missions" /\ Mission!WorkerStep(w))
  /\ WF_runVars(part = "runs" /\ Run!CommitCancel(r1))
  /\ WF_runVars(part = "runs" /\ Run!ToolExit(r1)) /\ WF_runVars(part = "runs" /\ Run!Age(r1))

Spec == Init /\ [][Next]_vars /\ Fairness

\* Every run that is claimed ends (RunLifecycle).
RunningEnds == Run!RunningEnds

\* A mission that runs gets somewhere (Missions).
MissionMoves == Mission!MissionMoves
=============================================================================

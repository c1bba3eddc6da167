--------------------------- MODULE Missions_proofs ---------------------------
(***************************************************************************)
(* Proofs about Missions, for any graph of roles, any number of workers,   *)
(* any ceilings and any number of mishaps.                                 *)
(*                                                                         *)
(* IInv ties four things together that different handlers change: the      *)
(* states of the tasks, the requests to people, the mission's status and   *)
(* the places of the workers.  A step of the mission changes one task at   *)
(* most (TaskShape), and most steps change none.                           *)
(***************************************************************************)
EXTENDS Missions, FiniteSetTheorems, WellFoundedInduction, TLAPS

-----------------------------------------------------------------------------
(* The inductive invariant *)

\* Until its launch nothing of a mission moves.
BeforeLaunch ==
  status = "pending_launch" =>
    /\ \A n \in Nodes : state[n] = "CREATED" /\ approval[n] = "none"
    /\ \A w \in Workers : pc[w] = "idle"

\* Tools are started from APPROVED_IF_REQUIRED, to which no task returns.
ToolsStartOnce ==
  \A n \in Nodes :
    /\ toolRuns[n] <= 1
    /\ state[n] \in {"CREATED", "CONTEXT_VALIDATED", "APPROVED_IF_REQUIRED"} => toolRuns[n] = 0

\* What a task has to show when it has passed its tools and its self-check.
ChecksAreMade ==
  \A n \in Nodes :
    /\ state[n] \in {"EVIDENCE_COLLECTED", "SELF_CHECKED"} => outcome[n] # "none"
    /\ state[n] = "SELF_CHECKED" =>
         check[n] # "none" /\ (outcome[n] = "unfinished" => check[n] = "not_ok")

\* The places of a worker that is advancing a task.
Stepping == {"step", "calling", "recording", "answered", "tools", "stopping"}

\* A task moves only behind accepted ones, and so does the worker on it.
UpstreamFirst ==
  /\ \A n \in Nodes : state[n] \notin {"CREATED", "NEEDS_WORK"} =>
       \A m \in DependsOn[n] : state[m] = "ACCEPTED"
  /\ \A w \in Workers : pc[w] \in Stepping =>
       \A m \in DependsOn[task[w]] : state[m] = "ACCEPTED"

\* The mission's status is what its tasks and requests make it.
StatusFollows ==
  /\ \A n \in Nodes : state[n] = "REVIEW_REQUIRED" => Pending(n)
  /\ status = "running" => \A n \in Nodes : ~Pending(n)
  /\ status = "awaiting_approval" => \E n \in Nodes : Pending(n)
  /\ status \in {"running", "awaiting_approval"} =>
       /\ state[Evidence] # "ACCEPTED"
       /\ \A n \in Nodes : /\ state[n] \notin {"REJECTED", "NEEDS_WORK"}
                           /\ Pending(n) => state[n] = "REVIEW_REQUIRED"
  /\ status = "completed" => state[Evidence] = "ACCEPTED"

\* As long as no lock is lost, one worker advances the mission, while it runs;
\* one task at most waits for a person, and then the mission does.
LockWorks ==
  losses = 0 =>
    /\ \A w \in Workers : pc[w] # "idle" => lock = w
    /\ \A w \in Workers : pc[w] \in Stepping \cup {"opening"} => status = "running"
    /\ \A n \in Nodes : state[n] = "REVIEW_REQUIRED" =>
         /\ status = "awaiting_approval"
         /\ \A m \in Nodes : state[m] = "REVIEW_REQUIRED" => m = n

\* Calls that have passed the budget check and are not recorded yet.
Calling == {w \in Workers : pc[w] \in {"calling", "recording"}}
CallingFor(n) == {w \in Calling : task[w] = n}

Slack == Overrun + (IF losses = 0 THEN 0 ELSE MostTokens * (Cardinality(Workers) - 1))

\* Recorded usage and what the open calls may add to it.
CallsFit ==
  /\ used + MostTokens * Cardinality(Calling) <= MissionTokens + Slack
  /\ \A n \in Nodes :
       usage[n] + MostTokens * Cardinality(CallingFor(n)) <= TaskTokens + Slack

IInv ==
  /\ TypeOK /\ BeforeLaunch /\ ToolsStartOnce /\ ChecksAreMade /\ DoubtsNeedAPerson
  /\ UpstreamFirst /\ StatusFollows /\ LockWorks /\ CallsFit

-----------------------------------------------------------------------------
(* What a step does to the tasks *)

\* One task goes from one state to another.
Moves(n, from, to) == state[n] = from /\ state' = [state EXCEPT ![n] = to]

\* The mission's status is worked out again.
Settles == status' = Settled(state', approval')

\* A worker moves the task it is advancing, and is done with it.
WorkersMove(w, n) == n = task[w] /\ pc[w] \in Stepping
WorkersLast(w, n) == WorkersMove(w, n) /\ pc'[w] \notin Stepping \cup {"opening"} /\ Settles

Validates(w, n) ==
  /\ WorkersMove(w, n) /\ Moves(n, "CREATED", "CONTEXT_VALIDATED")
  /\ UNCHANGED <<status, approval, outcome, check, toolRuns>>

Plans(w, n) ==
  /\ WorkersLast(w, n)
  /\ Moves(n, "CONTEXT_VALIDATED", "APPROVED_IF_REQUIRED")
  /\ UNCHANGED <<approval, outcome, check, toolRuns>>

RunsTools(w, n) ==
  /\ WorkersMove(w, n) /\ Moves(n, "APPROVED_IF_REQUIRED", "RUNNING_TOOLS")
  /\ toolRuns' = [toolRuns EXCEPT ![n] = @ + 1]
  /\ UNCHANGED <<status, approval, outcome, check>>

Collects(w, n) ==
  /\ WorkersMove(w, n) /\ Moves(n, "RUNNING_TOOLS", "EVIDENCE_COLLECTED")
  /\ \E result \in {"passing", "failing", "unfinished"} :
       outcome' = [outcome EXCEPT ![n] = result]
  /\ UNCHANGED <<status, approval, check, toolRuns>>

Checks(w, n) ==
  /\ WorkersMove(w, n) /\ Moves(n, "EVIDENCE_COLLECTED", "SELF_CHECKED")
  /\ \E opinion \in {"complete", "incomplete"} :
       check' = [check EXCEPT ![n] = IF outcome[n] = "unfinished" THEN "not_ok" ELSE opinion]
  /\ UNCHANGED <<status, approval, outcome, toolRuns>>

Accepts(w, n) ==
  /\ WorkersLast(w, n)
  /\ Moves(n, "SELF_CHECKED", "ACCEPTED")
  /\ Review(n) = "allow"
  /\ UNCHANGED <<approval, outcome, check, toolRuns>>

Asks(w, n) ==
  /\ WorkersLast(w, n)
  /\ Moves(n, "SELF_CHECKED", "REVIEW_REQUIRED")
  /\ approval' = [approval EXCEPT ![n] = "pending"]
  /\ UNCHANGED <<outcome, check, toolRuns>>

\* A plan or a review denied, a task stopped, or a gateway that cannot start.
Halts(n) ==
  /\ \E w \in Workers : /\ pc[w] \in Stepping \cup {"opening"}
                        /\ pc'[w] \notin Stepping \cup {"opening"}
  /\ state[n] \notin Terminal /\ state' = [state EXCEPT ![n] = "NEEDS_WORK"] /\ Settles
  /\ UNCHANGED <<approval, outcome, check, toolRuns>>

Decides(n) ==
  /\ Settles /\ Pending(n)
  /\ \/ Moves(n, "REVIEW_REQUIRED", "ACCEPTED") /\ approval' = [approval EXCEPT ![n] = "approved"]
     \/ Moves(n, "REVIEW_REQUIRED", "REJECTED") /\ approval' = [approval EXCEPT ![n] = "rejected"]
     \/ Moves(n, "REVIEW_REQUIRED", "NEEDS_WORK") /\ approval' = [approval EXCEPT ![n] = "needs_work"]
  /\ UNCHANGED <<outcome, check, toolRuns>>

Launches ==
  /\ status = "pending_launch" /\ status' \in {"running", "rejected"}
  /\ UNCHANGED taskVars

TaskMoves(n) ==
  \/ \E w \in Workers : \/ Validates(w, n) \/ Plans(w, n) \/ RunsTools(w, n) \/ Collects(w, n)
                        \/ Checks(w, n) \/ Accepts(w, n) \/ Asks(w, n)
  \/ Halts(n) \/ Decides(n)

\* A set of numbers that is not empty has a least element.
LEMMA LeastNumber ==
  ASSUME NEW T \in SUBSET Nat, T # {}
  PROVE  \E x \in T : \A y \in T : x <= y
<1> DEFINE R == OpToRel(<, Nat)
<1>1. IsWellFoundedOn(R, Nat)
  BY NatLessThanWellFounded
<1>2. PICK x \in T : \A y \in T : ~(<<y, x>> \in R)
  BY <1>1, WFMin
<1>3. \A y \in T : ~(y < x)
  BY <1>2 DEF OpToRel
<1>4. QED BY <1>3

-----------------------------------------------------------------------------
(* Types *)

\* What the roles are listed with are nodes, the evidence among them.
LEMMA NodesType == Evidence \in Nodes /\ \A i \in DOMAIN Roles : Roles[i] \in Nodes
  BY RolesAssumption DEF Nodes, ToSet

\* The next task is one of the roles, and it can run.
LEMMA NextIsRunnable ==
  ASSUME RunnableAt # {}
  PROVE  NextRunnable \in Nodes /\ Runnable(NextRunnable)
<1>1. RunnableAt \in SUBSET Nat
  BY RolesAssumption DEF RunnableAt
<1>2. PICK i \in RunnableAt : \A j \in RunnableAt : i <= j
  BY <1>1, LeastNumber
<1>3. \E k \in RunnableAt : NextRunnable = Roles[k]
  BY <1>2 DEF NextRunnable
<1>4. QED BY <1>3, NodesType DEF RunnableAt

\* The status worked out is one of the statuses.
LEMMA SettledType ==
  ASSUME NEW st, NEW ap, status \in {"pending_launch", "running", "awaiting_approval"} \cup Ended
  PROVE  Settled(st, ap) \in {"pending_launch", "running", "awaiting_approval"} \cup Ended
BY DEF Settled, Ended

\* A worker's own step keeps the types.
LEMMA StepTypes ==
  ASSUME TypeOK, NEW w \in Workers, Advance(w) \/ WorkerStep(w)
  PROVE  TypeOK'
<1> USE BudgetAssumption, NodesType DEF TypeOK, taskVars, budgetVars, workerVars, boundVars
<1>1. CASE Advance(w) BY <1>1 DEF Advance, At, GoTo, Places
<1>2. CASE OpenGateway(w) BY <1>2 DEF OpenGateway, At, GoTo, Places
<1>3. CASE PickTask(w)
  <2>1. NextRunnable \in Nodes /\ state[NextRunnable] \in States
    BY <1>3, NextIsRunnable DEF PickTask
  <2>2. QED BY <1>3, <2>1 DEF PickTask, At, GoTo, Places
<1>4. CASE Return(w) BY <1>4 DEF Return, Leave, Forget, At, GoTo, Places, States
<1>5. CASE ValidateContext(w)
  BY <1>5 DEF ValidateContext, Move, StepDone, Forget, At, GoTo, Places, States
<1>6. CASE ContextRefused(w) BY <1>6 DEF ContextRefused, ToStopping, At, GoTo, Places
<1>7. CASE CallModel(w) BY <1>7 DEF CallModel, Calls, At, GoTo, Places
<1>8. CASE BudgetExceeded(w) BY <1>8 DEF BudgetExceeded, ToStopping, Calls, At, GoTo, Places
<1>9. CASE RecordUsage(w)
  <2>1. tokens[w] \in Nat /\ task[w] \in Nodes
    OBVIOUS
  <2>2. usage' \in [Nodes -> Nat] /\ used' \in Nat
    BY <1>9, <2>1 DEF RecordUsage
  <2>3. tokens' \in [Workers -> 0..MostTokens] /\ pc' \in [Workers -> Places]
    BY <1>9 DEF RecordUsage, GoTo, Places
  <2>4. QED BY <1>9, <2>2, <2>3 DEF RecordUsage
<1>10. CASE BadAnswer(w) BY <1>10 DEF BadAnswer, ToStopping, At, GoTo, Places
<1>11. ASSUME NEW n \in 0..MostTokens, Answer(w, n) PROVE TypeOK'
  BY <1>11, BudgetAssumption DEF Answer, SpentWith, At, GoTo, Places
<1>12. ASSUME NEW allowed \in BOOLEAN, ProposePlan(w, allowed) PROVE TypeOK'
  <2>1. status' \in {"pending_launch", "running", "awaiting_approval"} \cup Ended
    BY <1>12, SettledType DEF ProposePlan, MoveAndSettle
  <2>2. state' \in [Nodes -> States]
    BY <1>12 DEF ProposePlan, MoveAndSettle, Move, States, Terminal
  <2>3. QED BY <1>12, <2>1, <2>2 DEF ProposePlan, StepDone, Forget, GoTo, Places, States
<1>13. CASE RunTools(w)
  <2>1. toolRuns' \in [Nodes -> Nat]
    BY <1>13 DEF RunTools
  <2>2. state' \in [Nodes -> States] /\ pc' \in [Workers -> Places]
    BY <1>13 DEF RunTools, Move, States, GoTo, Places
  <2>3. QED BY <1>13, <2>1, <2>2 DEF RunTools
<1>14. CASE ToolRefused(w) BY <1>14 DEF ToolRefused, ToStopping, At, GoTo, Places
<1>15. ASSUME NEW result \in Outcomes(task[w]), CollectEvidence(w, result) PROVE TypeOK'
  BY <1>15 DEF CollectEvidence, Outcomes, Move, StepDone, Forget, GoTo, Places, States
<1>16. ASSUME NEW opinion \in {"complete", "incomplete"}, SelfCheck(w, opinion) PROVE TypeOK'
  BY <1>16 DEF SelfCheck, Move, StepDone, Forget, GoTo, Places, States
<1>17. CASE GateReview(w)
  <2>1. status' \in {"pending_launch", "running", "awaiting_approval"} \cup Ended
    BY <1>17, SettledType DEF GateReview, MoveAndSettle
  <2>2. /\ state' \in [Nodes -> States]
        /\ approval' \in [Nodes -> {"none", "pending", "approved", "rejected", "needs_work"}]
    BY <1>17 DEF GateReview, MoveAndSettle, Move, States, Terminal
  <2>3. QED BY <1>17, <2>1, <2>2 DEF GateReview, StepDone, Forget, GoTo, Places, States
<1>18. CASE Overtaken(w) BY <1>18 DEF Overtaken, ToStopping, GoTo, Places
<1>19. CASE Stop(w)
  <2>1. status' \in {"pending_launch", "running", "awaiting_approval"} \cup Ended
    BY <1>19, SettledType DEF Stop, MoveAndSettle
  <2>2. state' \in [Nodes -> States]
    BY <1>19 DEF Stop, MoveAndSettle, Move, States, Terminal
  <2>3. QED BY <1>19, <2>1, <2>2 DEF Stop, StepDone, Forget, GoTo, Places, States
<1>20. QED
  BY <1>1, <1>2, <1>3, <1>4, <1>5, <1>6, <1>7, <1>8, <1>9, <1>10, <1>11, <1>12, <1>13, <1>14,
     <1>15, <1>16, <1>17, <1>18, <1>19 DEF WorkerStep

\* So do the mishaps, the people and a lost lock.
LEMMA OtherTypes ==
  ASSUME TypeOK, (\E w \in Workers : WorkerFault(w)) \/ Decide \/ LoseLock
  PROVE  TypeOK'
<1> USE BudgetAssumption, NodesType
    DEF TypeOK, taskVars, budgetVars, workerVars, boundVars, Mishap, Fault
<1>1. ASSUME NEW w \in Workers, GatewayFails(w) PROVE TypeOK'
  <2>1. status' \in {"pending_launch", "running", "awaiting_approval"} \cup Ended
    BY <1>1, SettledType DEF GatewayFails, MoveAndSettle
  <2>2. state' \in [Nodes -> States]
    BY <1>1 DEF GatewayFails, MoveAndSettle, Move, States, Terminal
  <2>3. faults' \in Nat /\ faults' + crashes' + losses' <= MaxMishaps
    BY <1>1 DEF GatewayFails
  <2>4. QED BY <1>1, <2>1, <2>2, <2>3 DEF GatewayFails, Leave, Forget, GoTo, Places, States
<1>2. ASSUME NEW w \in Workers, StepFails(w) PROVE TypeOK'
  BY <1>2 DEF StepFails, ToStopping, GoTo, Places
<1>3. ASSUME NEW w \in Workers, StopFails(w) PROVE TypeOK'
  BY <1>3 DEF StopFails, Leave, Forget, GoTo, Places, States
<1>4. ASSUME NEW w \in Workers, Crash(w) PROVE TypeOK'
  BY <1>4 DEF Crash, Leave, Forget, GoTo, Places, States
<1>5. ASSUME NEW w \in Workers, NEW n \in 0..MostTokens, CallFails(w, n) PROVE TypeOK'
  BY <1>5, BudgetAssumption DEF CallFails, SpentWith, GoTo, Places
<1>6. ASSUME NEW decision \in {"approved", "rejected"}, DecideLaunch(decision) PROVE TypeOK'
  BY <1>6 DEF DecideLaunch, Ended
<1>7. ASSUME NEW n \in Nodes, NEW decision \in {"approved", "rejected", "needs_work"},
             DecideTask(n, decision)
      PROVE  TypeOK'
  <2>1. status' \in {"pending_launch", "running", "awaiting_approval"} \cup Ended
    BY <1>7, SettledType DEF DecideTask, MoveAndSettle
  <2>2. state' \in [Nodes -> States]
    BY <1>7 DEF DecideTask, MoveAndSettle, Move, States, Terminal
  <2>3. approval' \in [Nodes -> {"none", "pending", "approved", "rejected", "needs_work"}]
    BY <1>7 DEF DecideTask
  <2>4. QED BY <1>7, <2>1, <2>2, <2>3 DEF DecideTask
<1>8. CASE LoseLock
  BY <1>8 DEF LoseLock
<1>9. QED
  BY <1>1, <1>2, <1>3, <1>4, <1>5, <1>6, <1>7, <1>8 DEF WorkerFault, Decide

\* So every step does.
LEMMA TypeNext == TypeOK /\ [Next]_vars => TypeOK'
<1> SUFFICES ASSUME TypeOK, [Next]_vars PROVE TypeOK'
  OBVIOUS
<1>1. CASE UNCHANGED vars
  BY <1>1 DEF vars, TypeOK, taskVars, budgetVars, workerVars, boundVars
<1>2. QED BY <1>1, StepTypes, OtherTypes DEF Next

\* The types hold at first.
LEMMA TypeInit == Init => TypeOK
BY BudgetAssumption, NodesType DEF Init, TypeOK, States, Places

\* Every variable keeps its type.
THEOREM TypeCorrect == Spec => []TypeOK
BY TypeInit, TypeNext, PTL DEF Spec

-----------------------------------------------------------------------------
(* Each step moves one task or none *)

\* A worker's step moves the task it is advancing, in one of the ways above, or
\* none.
LEMMA WorkerMovesTask ==
  ASSUME TypeOK, NEW w \in Workers, Advance(w) \/ WorkerStep(w)
  PROVE  UNCHANGED <<status, taskVars>> \/ \E n \in Nodes : TaskMoves(n)
<1>1. task[w] \in Nodes
  BY DEF TypeOK
<1>2. CASE \/ Advance(w) \/ OpenGateway(w) \/ PickTask(w) \/ Return(w) \/ ContextRefused(w)
           \/ CallModel(w) \/ BudgetExceeded(w) \/ RecordUsage(w) \/ BadAnswer(w)
           \/ (\E n \in 0..MostTokens : Answer(w, n)) \/ ToolRefused(w) \/ Overtaken(w)
  BY <1>2 DEF Advance, OpenGateway, PickTask, Return, ContextRefused, CallModel, BudgetExceeded,
              RecordUsage, BadAnswer, Answer, ToolRefused, Overtaken, ToStopping, taskVars
<1>3. CASE ValidateContext(w)
  <2>1. Validates(w, task[w])
    BY <1>3 DEF ValidateContext, Validates, WorkersMove, Moves, Move, Holding, At, Stepping
  <2>2. QED BY <1>1, <2>1 DEF TaskMoves
<1>4. ASSUME NEW allowed \in BOOLEAN, ProposePlan(w, allowed) PROVE TaskMoves(task[w])
  <2>1. CASE allowed
    <3>1. Plans(w, task[w])
      BY <1>4, <2>1 DEF ProposePlan, Plans, WorkersLast, WorkersMove, Moves, MoveAndSettle, Move,
                        Settles, StepDone, GoTo, Holding, At, Stepping, TypeOK
    <3>2. QED BY <3>1 DEF TaskMoves
  <2>2. CASE ~allowed
    <3>1. Halts(task[w])
      BY <1>4, <2>2 DEF ProposePlan, Halts, MoveAndSettle, Move, Settles, StepDone, GoTo, Holding,
                        At, Stepping, Terminal, TypeOK
    <3>2. QED BY <3>1 DEF TaskMoves
  <2>3. QED BY <2>1, <2>2
<1>5. CASE RunTools(w)
  <2>1. RunsTools(w, task[w])
    BY <1>5 DEF RunTools, RunsTools, WorkersMove, Moves, Move, Holding, At, Stepping
  <2>2. QED BY <1>1, <2>1 DEF TaskMoves
<1>6. ASSUME NEW result \in Outcomes(task[w]), CollectEvidence(w, result)
      PROVE  TaskMoves(task[w])
  <2>1. Collects(w, task[w])
    BY <1>6 DEF CollectEvidence, Collects, WorkersMove, Moves, Move, At, Stepping, Outcomes
  <2>2. QED BY <2>1 DEF TaskMoves
<1>7. ASSUME NEW opinion \in {"complete", "incomplete"}, SelfCheck(w, opinion)
      PROVE  TaskMoves(task[w])
  <2>1. Checks(w, task[w])
    BY <1>7 DEF SelfCheck, Checks, WorkersMove, Moves, Move, Holding, At, Stepping
  <2>2. QED BY <2>1 DEF TaskMoves
<1>8. CASE GateReview(w)
  <2>1. Accepts(w, task[w]) \/ Asks(w, task[w]) \/ Halts(task[w])
    <3>1. /\ pc[w] = "step" /\ pc' = [pc EXCEPT ![w] = "loop"] /\ state[task[w]] = "SELF_CHECKED"
          /\ UNCHANGED <<outcome, check, toolRuns>>
      BY <1>8 DEF GateReview, StepDone, GoTo, At, Holding
    <3>2. pc'[w] = "loop"
      BY <3>1 DEF TypeOK
    <3>3. CASE Review(task[w]) = "allow"
      BY <1>8, <3>1, <3>2, <3>3
      DEF GateReview, Accepts, WorkersLast, WorkersMove, Moves, MoveAndSettle, Move, Settles, Stepping
    <3>4. CASE Review(task[w]) = "deny"
      BY <1>8, <3>1, <3>2, <3>4
      DEF GateReview, Halts, MoveAndSettle, Move, Settles, Stepping, Terminal
    <3>5. CASE Review(task[w]) = "require_approval"
      BY <1>8, <3>1, <3>2, <3>5
      DEF GateReview, Asks, WorkersLast, WorkersMove, Moves, MoveAndSettle, Move, Settles, Stepping
    <3>6. QED BY <1>8, <3>3, <3>4, <3>5 DEF GateReview
  <2>2. QED BY <1>1, <2>1 DEF TaskMoves
<1>9. CASE Stop(w)
  <2>1. UNCHANGED <<status, taskVars>> \/ Halts(task[w])
    BY <1>9 DEF Stop, Halts, MoveAndSettle, Move, Settles, StepDone, GoTo, At, Stepping, taskVars, TypeOK
  <2>2. QED BY <1>1, <2>1 DEF TaskMoves
<1>10. QED
  BY <1>1, <1>2, <1>3, <1>4, <1>5, <1>6, <1>7, <1>8, <1>9 DEF WorkerStep

\* So does every step of the mission, or it launches it.
LEMMA TaskShape ==
  ASSUME TypeOK, [Next]_vars
  PROVE  UNCHANGED <<status, taskVars>> \/ Launches \/ \E n \in Nodes : TaskMoves(n)
<1>1. CASE UNCHANGED vars
  BY <1>1 DEF vars
<1>2. ASSUME NEW w \in Workers, GatewayFails(w)
      PROVE  UNCHANGED <<status, taskVars>> \/ \E n \in Nodes : TaskMoves(n)
  <2>1. CASE RunnableAt = {}
    BY <1>2, <2>1 DEF GatewayFails, taskVars
  <2>2. CASE RunnableAt # {}
    <3>1. NextRunnable \in Nodes /\ state[NextRunnable] \notin Terminal
      BY <2>2, NextIsRunnable DEF Runnable
    <3>2. Halts(NextRunnable)
      BY <1>2, <2>2, <3>1 DEF GatewayFails, Halts, MoveAndSettle, Move, Settles, Leave, GoTo, At,
                              Stepping, TypeOK
    <3>3. QED BY <3>1, <3>2 DEF TaskMoves
  <2>3. QED BY <2>1, <2>2
<1>3. ASSUME NEW w \in Workers,
             StepFails(w) \/ StopFails(w) \/ Crash(w) \/ \E n \in 0..MostTokens : CallFails(w, n)
      PROVE  UNCHANGED <<status, taskVars>>
  BY <1>3 DEF StepFails, StopFails, Crash, CallFails, ToStopping, taskVars
<1>4. ASSUME NEW decision \in {"approved", "rejected"}, DecideLaunch(decision) PROVE Launches
  BY <1>4 DEF DecideLaunch, Launches
<1>5. ASSUME NEW n \in Nodes, NEW decision \in {"approved", "rejected", "needs_work"},
             DecideTask(n, decision)
      PROVE  Decides(n)
  BY <1>5 DEF DecideTask, Decides, MoveAndSettle, Move, Moves, Settles
<1>6. CASE LoseLock
  BY <1>6 DEF LoseLock, taskVars
<1>7. QED
  BY <1>1, <1>2, <1>3, <1>4, <1>5, <1>6, WorkerMovesTask DEF Next, WorkerFault, Decide, TaskMoves

-----------------------------------------------------------------------------
(* Where the workers are *)

\* A worker that is advancing a task has been on it, or has just picked it.
LEMMA PlaceSteps ==
  ASSUME TypeOK, [Next]_vars, NEW w \in Workers
  PROVE  /\ pc'[w] \in Stepping =>
              \/ pc[w] \in Stepping /\ task'[w] = task[w]
              \/ status = "running" /\ Runnable(task'[w]) /\ UNCHANGED <<status, taskVars>>
         /\ pc'[w] = "opening" =>
              pc[w] = "opening" \/ (status = "running" /\ UNCHANGED <<status, taskVars>>)
<1> DEFINE Right ==
             /\ pc'[w] \in Stepping =>
                  \/ pc[w] \in Stepping /\ task'[w] = task[w]
                  \/ status = "running" /\ Runnable(task'[w]) /\ UNCHANGED <<status, taskVars>>
             /\ pc'[w] = "opening" =>
                  pc[w] = "opening" \/ (status = "running" /\ UNCHANGED <<status, taskVars>>)
<1> USE DEF TypeOK, Stepping, GoTo, At, Forget, StepDone, Leave, ToStopping, taskVars
<1>1. CASE UNCHANGED vars
  BY <1>1 DEF vars, workerVars
<1>2. ASSUME NEW u \in Workers, Advance(u) PROVE Right
  BY <1>2 DEF Advance
<1>3. ASSUME NEW u \in Workers, PickTask(u) PROVE Right
  <2>1. Runnable(NextRunnable) /\ NextRunnable \in Nodes
    BY <1>3, NextIsRunnable DEF PickTask
  <2>2. QED BY <1>3, <2>1 DEF PickTask
<1>4. ASSUME NEW u \in Workers, OpenGateway(u) \/ Return(u) \/ ValidateContext(u) \/ ContextRefused(u)
      PROVE  Right
  BY <1>4 DEF OpenGateway, Return, ValidateContext, ContextRefused
<1>5. ASSUME NEW u \in Workers, CallModel(u) \/ BudgetExceeded(u) \/ RecordUsage(u) \/ BadAnswer(u)
      PROVE  Right
  BY <1>5 DEF CallModel, BudgetExceeded, RecordUsage, BadAnswer, Calls
<1>6. ASSUME NEW u \in Workers, NEW n \in 0..MostTokens, Answer(u, n) \/ CallFails(u, n) PROVE Right
  BY <1>6 DEF Answer, CallFails
<1>7. ASSUME NEW u \in Workers, NEW allowed \in BOOLEAN, ProposePlan(u, allowed) PROVE Right
  BY <1>7 DEF ProposePlan
<1>8. ASSUME NEW u \in Workers, RunTools(u) \/ ToolRefused(u) \/ GateReview(u) PROVE Right
  BY <1>8 DEF RunTools, ToolRefused, GateReview
<1>9. ASSUME NEW u \in Workers, NEW result, CollectEvidence(u, result) PROVE Right
  BY <1>9 DEF CollectEvidence
<1>10. ASSUME NEW u \in Workers, NEW opinion, SelfCheck(u, opinion) PROVE Right
  BY <1>10 DEF SelfCheck
<1>11. ASSUME NEW u \in Workers, Overtaken(u) \/ Stop(u) PROVE Right
  BY <1>11 DEF Overtaken, Stop, Calls
<1>12. ASSUME NEW u \in Workers, GatewayFails(u) \/ StepFails(u) \/ StopFails(u) \/ Crash(u) PROVE Right
  BY <1>12 DEF GatewayFails, StepFails, StopFails, Crash
<1>13. CASE Decide \/ LoseLock
  BY <1>13 DEF Decide, DecideLaunch, DecideTask, LoseLock, workerVars
<1>14. QED
  BY <1>1, <1>2, <1>3, <1>4, <1>5, <1>6, <1>7, <1>8, <1>9, <1>10, <1>11, <1>12, <1>13
  DEF Next, WorkerStep, WorkerFault

\* The lock and the places go together.
LEMMA LockSteps ==
  ASSUME TypeOK, [Next]_vars
  PROVE  \/ lock # Nobody /\ losses' = losses + 1 /\ UNCHANGED pc
         \/ /\ losses' = losses
            /\ \/ UNCHANGED <<pc, lock>>
               \/ \E w \in Workers :
                    /\ \A u \in Workers \ {w} : pc'[u] = pc[u]
                    /\ \/ pc[w] = "idle" /\ status = "running" /\ lock = Nobody /\ lock' = w
                       \/ pc[w] # "idle" /\ lock' = lock
                       \/ pc[w] # "idle" /\ pc'[w] = "idle" /\ lock = w
<1> DEFINE Held ==
             /\ losses' = losses
             /\ \/ UNCHANGED <<pc, lock>>
                \/ \E w \in Workers :
                     /\ \A u \in Workers \ {w} : pc'[u] = pc[u]
                     /\ \/ pc[w] = "idle" /\ status = "running" /\ lock = Nobody /\ lock' = w
                        \/ pc[w] # "idle" /\ lock' = lock
                        \/ pc[w] # "idle" /\ pc'[w] = "idle" /\ lock = w
<1> USE DEF TypeOK, GoTo, At, StepDone, Leave, ToStopping, Fault, boundVars
<1>1. CASE UNCHANGED vars
  BY <1>1 DEF vars, workerVars
<1>2. ASSUME NEW w \in Workers, Advance(w) PROVE Held
  BY <1>2 DEF Advance
<1>3. ASSUME NEW w \in Workers, PickTask(w) \/ OpenGateway(w) \/ Return(w) PROVE Held
  BY <1>3 DEF PickTask, OpenGateway, Return
<1>4. ASSUME NEW w \in Workers, ValidateContext(w) \/ ContextRefused(w) PROVE Held
  BY <1>4 DEF ValidateContext, ContextRefused
<1>5. ASSUME NEW w \in Workers, CallModel(w) \/ BudgetExceeded(w) \/ RecordUsage(w) \/ BadAnswer(w)
      PROVE  Held
  BY <1>5 DEF CallModel, BudgetExceeded, RecordUsage, BadAnswer, Calls
<1>6. ASSUME NEW w \in Workers, NEW n \in 0..MostTokens, Answer(w, n) \/ CallFails(w, n) PROVE Held
  BY <1>6 DEF Answer, CallFails
<1>7. ASSUME NEW w \in Workers, NEW allowed \in BOOLEAN, ProposePlan(w, allowed) PROVE Held
  BY <1>7 DEF ProposePlan
<1>8. ASSUME NEW w \in Workers, RunTools(w) \/ ToolRefused(w) \/ GateReview(w) PROVE Held
  BY <1>8 DEF RunTools, ToolRefused, GateReview
<1>9. ASSUME NEW w \in Workers, NEW result, CollectEvidence(w, result) PROVE Held
  BY <1>9 DEF CollectEvidence
<1>10. ASSUME NEW w \in Workers, NEW opinion, SelfCheck(w, opinion) PROVE Held
  BY <1>10 DEF SelfCheck
<1>11. ASSUME NEW w \in Workers, Overtaken(w) \/ Stop(w) PROVE Held
  BY <1>11 DEF Overtaken, Stop, Calls
<1>12. ASSUME NEW w \in Workers, GatewayFails(w) \/ StepFails(w) \/ StopFails(w) \/ Crash(w) PROVE Held
  BY <1>12 DEF GatewayFails, StepFails, StopFails, Crash
<1>13. CASE Decide
  BY <1>13 DEF Decide, DecideLaunch, DecideTask, workerVars
<1>14. CASE LoseLock
  BY <1>14 DEF LoseLock, workerVars
<1>15. QED
  BY <1>1, <1>2, <1>3, <1>4, <1>5, <1>6, <1>7, <1>8, <1>9, <1>10, <1>11, <1>12, <1>13, <1>14
  DEF Next, WorkerStep, WorkerFault

\* A call begins where the budget allows it, and ends when it is recorded or
\* given up.
LEMMA CallSteps ==
  ASSUME TypeOK, [Next]_vars
  PROVE  \/ /\ UNCHANGED <<used, usage>>
            /\ \A w \in Workers : pc'[w] \in {"calling", "recording"} =>
                 pc[w] \in {"calling", "recording"} /\ task'[w] = task[w]
         \/ \E w \in Workers : CallModel(w) \/ RecordUsage(w)
<1> DEFINE Same ==
             /\ UNCHANGED <<used, usage>>
             /\ \A w \in Workers : pc'[w] \in {"calling", "recording"} =>
                  pc[w] \in {"calling", "recording"} /\ task'[w] = task[w]
<1> USE DEF TypeOK, GoTo, At, Forget, StepDone, Leave, ToStopping, budgetVars
<1>1. CASE UNCHANGED vars
  BY <1>1 DEF vars, workerVars
<1>2. ASSUME NEW w \in Workers, Advance(w) \/ PickTask(w) \/ OpenGateway(w) \/ Return(w) PROVE Same
  BY <1>2 DEF Advance, PickTask, OpenGateway, Return
<1>3. ASSUME NEW w \in Workers, ValidateContext(w) \/ ContextRefused(w) \/ BudgetExceeded(w) \/ BadAnswer(w)
      PROVE  Same
  BY <1>3 DEF ValidateContext, ContextRefused, BudgetExceeded, BadAnswer
<1>4. ASSUME NEW w \in Workers, NEW n \in 0..MostTokens, Answer(w, n) \/ CallFails(w, n) PROVE Same
  BY <1>4 DEF Answer, CallFails
<1>5. ASSUME NEW w \in Workers, NEW allowed \in BOOLEAN, ProposePlan(w, allowed) PROVE Same
  BY <1>5 DEF ProposePlan
<1>6. ASSUME NEW w \in Workers, RunTools(w) \/ ToolRefused(w) \/ GateReview(w) PROVE Same
  BY <1>6 DEF RunTools, ToolRefused, GateReview
<1>7. ASSUME NEW w \in Workers, NEW result, CollectEvidence(w, result) PROVE Same
  BY <1>7 DEF CollectEvidence
<1>8. ASSUME NEW w \in Workers, NEW opinion, SelfCheck(w, opinion) PROVE Same
  BY <1>8 DEF SelfCheck
<1>9. ASSUME NEW w \in Workers, Overtaken(w) \/ Stop(w) PROVE Same
  BY <1>9 DEF Overtaken, Stop
<1>10. ASSUME NEW w \in Workers, GatewayFails(w) \/ StepFails(w) \/ StopFails(w) \/ Crash(w) PROVE Same
  BY <1>10 DEF GatewayFails, StepFails, StopFails, Crash
<1>11. CASE Decide \/ LoseLock
  BY <1>11 DEF Decide, DecideLaunch, DecideTask, LoseLock, workerVars
<1>12. QED
  BY <1>1, <1>2, <1>3, <1>4, <1>5, <1>6, <1>7, <1>8, <1>9, <1>10, <1>11
  DEF Next, WorkerStep, WorkerFault

-----------------------------------------------------------------------------
(* Each part of the invariant is kept *)

\* A mission starts to move at its launch only.
LEMMA LaunchNext ==
  ASSUME TypeOK, BeforeLaunch, [Next]_vars
  PROVE  BeforeLaunch'
<1>1. SUFFICES ASSUME status' = "pending_launch"
               PROVE  /\ \A n \in Nodes : state'[n] = "CREATED" /\ approval'[n] = "none"
                      /\ \A w \in Workers : pc'[w] = "idle"
  BY DEF BeforeLaunch
<1>2. status = "pending_launch" /\ UNCHANGED taskVars
  <2>1. CASE Launches
    BY <1>1, <2>1 DEF Launches
  <2>2. ASSUME NEW n \in Nodes, NEW w \in Workers,
               \/ Validates(w, n) \/ Plans(w, n) \/ RunsTools(w, n) \/ Collects(w, n)
               \/ Checks(w, n) \/ Accepts(w, n) \/ Asks(w, n)
        PROVE  FALSE
    <3>1. status = "pending_launch"
      BY <1>1, <2>2 DEF Validates, Plans, RunsTools, Collects, Checks, Accepts, Asks, WorkersLast,
                        Settles, Settled
    <3>2. pc[w] # "idle"
      BY <2>2 DEF Validates, Plans, RunsTools, Collects, Checks, Accepts, Asks, WorkersLast,
                  WorkersMove, Stepping
    <3>3. QED BY <3>1, <3>2 DEF BeforeLaunch
  <2>3. ASSUME NEW n \in Nodes, Halts(n) \/ Decides(n) PROVE FALSE
    <3>1. status = "pending_launch"
      BY <1>1, <2>3 DEF Halts, Decides, Settles, Settled
    <3>2. (\E w \in Workers : pc[w] # "idle") \/ Pending(n)
      BY <2>3 DEF Halts, Decides, Stepping
    <3>3. QED BY <3>1, <3>2 DEF BeforeLaunch, Pending
  <2>4. QED BY <1>1, <2>1, <2>2, <2>3, TaskShape DEF TaskMoves
<1>3. \A w \in Workers : pc[w] = "idle"
  BY <1>2 DEF BeforeLaunch
<1>4. \A w \in Workers : pc'[w] = "idle"
  BY <1>2, <1>3, LockSteps DEF TypeOK
<1>5. QED BY <1>2, <1>4 DEF BeforeLaunch, taskVars

\* A task leaves APPROVED_IF_REQUIRED as its tools start, and never returns.
LEMMA ToolsNext ==
  ASSUME TypeOK, ToolsStartOnce, [Next]_vars
  PROVE  ToolsStartOnce'
<1>1. CASE UNCHANGED <<status, taskVars>> \/ Launches
  BY <1>1 DEF ToolsStartOnce, taskVars, Launches
<1>2. ASSUME NEW n \in Nodes, TaskMoves(n) PROVE ToolsStartOnce'
  <2>1. ASSUME NEW w \in Workers, RunsTools(w, n) PROVE ToolsStartOnce'
    BY <2>1 DEF RunsTools, Moves, ToolsStartOnce, TypeOK
  <2>2. ASSUME NEW w \in Workers, Validates(w, n) \/ Plans(w, n) PROVE ToolsStartOnce'
    BY <2>2 DEF Validates, Plans, Moves, ToolsStartOnce, TypeOK
  <2>3. ASSUME NEW w \in Workers, Collects(w, n) \/ Checks(w, n) \/ Accepts(w, n) \/ Asks(w, n)
        PROVE  ToolsStartOnce'
    BY <2>3 DEF Collects, Checks, Accepts, Asks, Moves, ToolsStartOnce, TypeOK
  <2>4. CASE Halts(n) \/ Decides(n)
    BY <2>4 DEF Halts, Decides, Moves, ToolsStartOnce, TypeOK
  <2>5. QED BY <1>2, <2>1, <2>2, <2>3, <2>4 DEF TaskMoves
<1>3. QED BY <1>1, <1>2, TaskShape

\* A task comes to the review with an outcome and a check, and what the review
\* allows has nothing against it.
LEMMA ChecksNext ==
  ASSUME TypeOK, ChecksAreMade, DoubtsNeedAPerson, [Next]_vars
  PROVE  ChecksAreMade' /\ DoubtsNeedAPerson'
<1> USE DEF ChecksAreMade, DoubtsNeedAPerson, TypeOK
<1>1. CASE UNCHANGED <<status, taskVars>> \/ Launches
  BY <1>1 DEF taskVars, Launches
<1>2. ASSUME NEW n \in Nodes, TaskMoves(n) PROVE ChecksAreMade' /\ DoubtsNeedAPerson'
  <2>1. ASSUME NEW w \in Workers, Validates(w, n) \/ Plans(w, n) \/ RunsTools(w, n)
        PROVE  ChecksAreMade' /\ DoubtsNeedAPerson'
    BY <2>1 DEF Validates, Plans, RunsTools, Moves
  <2>2. ASSUME NEW w \in Workers, Collects(w, n) PROVE ChecksAreMade' /\ DoubtsNeedAPerson'
    BY <2>2 DEF Collects, Moves
  <2>3. ASSUME NEW w \in Workers, Checks(w, n) PROVE ChecksAreMade' /\ DoubtsNeedAPerson'
    BY <2>3 DEF Checks, Moves
  <2>4. ASSUME NEW w \in Workers, Accepts(w, n) PROVE ChecksAreMade' /\ DoubtsNeedAPerson'
    <3>1. n # Evidence /\ outcome[n] = "passing" /\ check[n] = "complete"
      BY <2>4 DEF Accepts, Moves, Review
    <3>2. QED BY <2>4, <3>1 DEF Accepts, Moves
  <2>5. ASSUME NEW w \in Workers, Asks(w, n) PROVE ChecksAreMade' /\ DoubtsNeedAPerson'
    BY <2>5 DEF Asks, Moves
  <2>6. CASE Halts(n)
    BY <2>6 DEF Halts
  <2>7. CASE Decides(n)
    BY <2>7 DEF Decides, Moves
  <2>8. QED BY <1>2, <2>1, <2>2, <2>3, <2>4, <2>5, <2>6, <2>7 DEF TaskMoves
<1>3. QED BY <1>1, <1>2, TaskShape

\* What is accepted stays accepted.
LEMMA AcceptedStays ==
  ASSUME TypeOK, [Next]_vars, NEW m \in Nodes, state[m] = "ACCEPTED"
  PROVE  state'[m] = "ACCEPTED"
<1>1. ASSUME NEW n \in Nodes, TaskMoves(n) PROVE state'[m] = "ACCEPTED"
  <2>1. /\ n # m
        /\ \E to : state' = [state EXCEPT ![n] = to]
    BY <1>1 DEF TaskMoves, Validates, Plans, RunsTools, Collects, Checks, Accepts, Asks, Halts,
                Decides, Moves, Terminal
  <2>2. QED BY <2>1 DEF TypeOK
<1>2. QED BY <1>1, TaskShape DEF taskVars, Launches

\* What is accepted upstream stays accepted.
LEMMA UpstreamNext ==
  ASSUME TypeOK, UpstreamFirst, [Next]_vars
  PROVE  UpstreamFirst'
<1>1. \A n \in Nodes : DependsOn[n] \subseteq Nodes
  BY RolesAssumption
<1>2. ASSUME NEW n \in Nodes, state'[n] \notin {"CREATED", "NEEDS_WORK"}
      PROVE  \A m \in DependsOn[n] : state[m] = "ACCEPTED"
  <2>1. CASE state[n] \notin {"CREATED", "NEEDS_WORK"}
    BY <2>1 DEF UpstreamFirst
  <2>2. CASE state[n] \in {"CREATED", "NEEDS_WORK"}
    <3>1. PICK k \in Nodes : TaskMoves(k)
      BY <1>2, <2>2, TaskShape DEF taskVars, Launches
    <3>2. \E to : state' = [state EXCEPT ![k] = to]
      BY <3>1 DEF TaskMoves, Validates, Plans, RunsTools, Collects, Checks, Accepts, Asks, Halts,
                  Decides, Moves
    <3>3. k = n
      BY <1>2, <2>2, <3>2 DEF TypeOK
    <3>4. \E w \in Workers : WorkersMove(w, n)
      BY <1>2, <2>2, <3>1, <3>3
      DEF TaskMoves, Validates, Plans, RunsTools, Collects, Checks, Accepts, Asks, Halts, Decides,
          Moves, WorkersLast, TypeOK
    <3>5. QED BY <3>4 DEF UpstreamFirst, WorkersMove
  <2>3. QED BY <2>1, <2>2
<1>3. ASSUME NEW w \in Workers, pc'[w] \in Stepping
      PROVE  \A m \in DependsOn[task'[w]] : state[m] = "ACCEPTED"
  BY <1>3, PlaceSteps DEF UpstreamFirst, Runnable
<1>4. \A w \in Workers : task'[w] \in Nodes
  BY TypeNext DEF TypeOK
<1>5. QED BY <1>1, <1>2, <1>3, <1>4, AcceptedStays DEF UpstreamFirst

\* The status follows every move that could change it.
LEMMA StatusNext ==
  ASSUME TypeOK, BeforeLaunch, StatusFollows, [Next]_vars
  PROVE  StatusFollows'
<1> USE DEF Pending
<1>1. CASE UNCHANGED <<status, taskVars>>
  BY <1>1 DEF StatusFollows, taskVars
<1>2. CASE Launches
  BY <1>2, NodesType DEF Launches, BeforeLaunch, StatusFollows, taskVars
<1>3. ASSUME NEW n \in Nodes, TaskMoves(n) PROVE StatusFollows'
  <2>1. ASSUME NEW w \in Workers,
               Validates(w, n) \/ RunsTools(w, n) \/ Collects(w, n) \/ Checks(w, n)
        PROVE  StatusFollows'
    <3>1. /\ UNCHANGED <<status, approval>>
          /\ state[n] \in {"CREATED", "APPROVED_IF_REQUIRED", "RUNNING_TOOLS", "EVIDENCE_COLLECTED"}
          /\ state'[n] \in {"CONTEXT_VALIDATED", "RUNNING_TOOLS", "EVIDENCE_COLLECTED", "SELF_CHECKED"}
          /\ \A m \in Nodes \ {n} : state'[m] = state[m]
      BY <2>1 DEF Validates, RunsTools, Collects, Checks, Moves, TypeOK
    <3>2. QED BY <3>1, NodesType DEF StatusFollows
  <2>2. ASSUME NEW w \in Workers, Plans(w, n) \/ Accepts(w, n) PROVE StatusFollows'
    <3>1. /\ UNCHANGED approval /\ Settles
          /\ state[n] \in {"CONTEXT_VALIDATED", "SELF_CHECKED"}
          /\ state'[n] \in {"APPROVED_IF_REQUIRED", "ACCEPTED"}
          /\ \A m \in Nodes \ {n} : state'[m] = state[m]
      BY <2>2 DEF Plans, Accepts, WorkersLast, Moves, TypeOK
    <3>2. QED BY <3>1, NodesType DEF StatusFollows, Settles, Settled
  <2>3. ASSUME NEW w \in Workers, Asks(w, n) PROVE StatusFollows'
    <3>1. /\ Settles /\ state[n] = "SELF_CHECKED" /\ state'[n] = "REVIEW_REQUIRED"
          /\ approval'[n] = "pending"
          /\ \A m \in Nodes \ {n} : state'[m] = state[m] /\ approval'[m] = approval[m]
      BY <2>3 DEF Asks, WorkersLast, Moves, TypeOK
    <3>2. QED BY <3>1, NodesType DEF StatusFollows, Settles, Settled
  <2>4. CASE Halts(n)
    <3>1. /\ UNCHANGED approval /\ Settles
          /\ state[n] # "ACCEPTED" /\ state'[n] = "NEEDS_WORK"
          /\ \A m \in Nodes \ {n} : state'[m] = state[m]
      BY <2>4 DEF Halts, TypeOK, Terminal
    <3>2. QED BY <3>1, NodesType DEF StatusFollows, Settles, Settled
  <2>5. CASE Decides(n)
    <3>1. /\ Settles /\ state[n] = "REVIEW_REQUIRED"
          /\ state'[n] \in {"ACCEPTED", "REJECTED", "NEEDS_WORK"}
          /\ approval'[n] # "pending"
          /\ \A m \in Nodes \ {n} : state'[m] = state[m] /\ approval'[m] = approval[m]
      BY <2>5 DEF Decides, Moves, TypeOK
    <3>2. QED BY <3>1, NodesType DEF StatusFollows, Settles, Settled
  <2>6. QED BY <1>3, <2>1, <2>2, <2>3, <2>4, <2>5 DEF TaskMoves
<1>4. QED BY <1>1, <1>2, <1>3, TaskShape

\* The holder of the lock alone moves tasks, and it stops where one waits.
LEMMA LockNext ==
  ASSUME TypeOK, BeforeLaunch, StatusFollows, LockWorks, [Next]_vars
  PROVE  LockWorks'
<1>1. SUFFICES ASSUME losses' = 0 PROVE LockWorks'
  BY DEF LockWorks
<1>2. losses = 0 /\ losses' = losses
  BY <1>1, LockSteps DEF TypeOK
<1>3. /\ \A w \in Workers : pc[w] # "idle" => lock = w
      /\ \A w \in Workers : pc[w] \in Stepping \cup {"opening"} => status = "running"
      /\ \A n \in Nodes : state[n] = "REVIEW_REQUIRED" =>
           /\ status = "awaiting_approval"
           /\ \A m \in Nodes : state[m] = "REVIEW_REQUIRED" => m = n
  BY <1>2 DEF LockWorks
<1>4. \A w \in Workers : pc'[w] # "idle" => lock' = w
  BY <1>2, <1>3, LockSteps, WorkersAssumption DEF TypeOK
<1>5. ASSUME NEW w \in Workers, pc'[w] \in Stepping \cup {"opening"} PROVE status' = "running"
  <2>1. CASE status = "running" /\ UNCHANGED <<status, taskVars>>
    BY <2>1
  <2>2. CASE pc[w] \in Stepping \cup {"opening"}
    <3>1. status = "running" /\ \A u \in Workers : pc[u] # "idle" => u = w
      BY <1>3, <2>2 DEF Stepping
    <3>2. ASSUME NEW n \in Nodes, TaskMoves(n) PROVE status' = status
      <4>1. ASSUME NEW u \in Workers, Plans(u, n) \/ Accepts(u, n) \/ Asks(u, n) PROVE FALSE
        <5>1. pc[u] \in Stepping /\ pc'[u] \notin Stepping \cup {"opening"}
          BY <4>1 DEF Plans, Accepts, Asks, WorkersLast, WorkersMove
        <5>2. u = w
          BY <3>1, <5>1 DEF Stepping
        <5>3. QED BY <1>5, <5>1, <5>2
      <4>2. CASE Halts(n)
        BY <1>5, <3>1, <4>2 DEF Halts, Stepping
      <4>3. CASE Decides(n)
        BY <1>3, <3>1, <4>3 DEF Decides, Moves
      <4>4. QED
        BY <3>2, <4>1, <4>2, <4>3 DEF TaskMoves, Validates, RunsTools, Collects, Checks
    <3>3. ~Launches
      BY <3>1 DEF Launches
    <3>4. QED BY <3>1, <3>2, <3>3, TaskShape
  <2>3. QED BY <1>5, <2>1, <2>2, PlaceSteps
<1>6. ASSUME NEW n \in Nodes, state'[n] = "REVIEW_REQUIRED"
      PROVE  /\ status' = "awaiting_approval"
             /\ \A m \in Nodes : state'[m] = "REVIEW_REQUIRED" => m = n
  <2>1. CASE UNCHANGED <<status, taskVars>>
    BY <1>3, <1>6, <2>1 DEF taskVars
  <2>2. CASE Launches
    BY <1>6, <2>2 DEF Launches, taskVars, BeforeLaunch
  <2>3. ASSUME NEW k \in Nodes, NEW w \in Workers, Asks(w, k)
        PROVE  /\ status' = "awaiting_approval"
               /\ \A m \in Nodes : state'[m] = "REVIEW_REQUIRED" => m = n
    <3>1. /\ status = "running" /\ Settles
          /\ state[k] = "SELF_CHECKED" /\ state' = [state EXCEPT ![k] = "REVIEW_REQUIRED"]
          /\ approval' = [approval EXCEPT ![k] = "pending"]
      BY <1>3, <2>3 DEF Asks, WorkersLast, WorkersMove, Moves
    <3>2. \A m \in Nodes : state[m] # "REVIEW_REQUIRED"
      BY <1>3, <3>1
    <3>3. \A m \in Nodes : state'[m] = "REVIEW_REQUIRED" => m = k
      BY <3>1, <3>2 DEF TypeOK
    <3>4. /\ \A m \in Nodes : state'[m] \notin {"REJECTED", "NEEDS_WORK"}
          /\ state'[Evidence] # "ACCEPTED" /\ approval'[k] = "pending"
      BY <3>1, NodesType DEF StatusFollows, TypeOK
    <3>5. status' = "awaiting_approval"
      BY <3>1, <3>4 DEF Settles, Settled
    <3>6. QED BY <1>6, <3>3, <3>5
  <2>4. ASSUME NEW k \in Nodes, TaskMoves(k), ~(\E w \in Workers : Asks(w, k))
        PROVE  FALSE
    <3>1. state[n] = "REVIEW_REQUIRED" /\ n # k
      BY <1>6, <2>4 DEF TaskMoves, Validates, Plans, RunsTools, Collects, Checks, Accepts, Halts,
                        Decides, Moves, TypeOK
    <3>2. status = "awaiting_approval" /\ state[k] # "REVIEW_REQUIRED"
      BY <1>3, <3>1
    <3>3. \A w \in Workers : pc[w] \notin Stepping \cup {"opening"}
      BY <1>3, <3>2
    <3>4. QED
      BY <2>4, <3>2, <3>3 DEF TaskMoves, Validates, Plans, RunsTools, Collects, Checks, Accepts,
                              Halts, Decides, Moves, WorkersLast, WorkersMove
  <2>5. QED BY <2>1, <2>2, <2>3, <2>4, TaskShape
<1>7. QED BY <1>4, <1>5, <1>6 DEF LockWorks

-----------------------------------------------------------------------------
(* The budget *)

\* A call is opened within the budget, and what it records was counted while it
\* was open; without the lock, every further worker has one at most.
LEMMA CallsNext ==
  ASSUME TypeOK, LockWorks, CallsFit, [Next]_vars
  PROVE  CallsFit'
<1>1. /\ IsFiniteSet(Workers) /\ Cardinality(Workers) \in Nat
      /\ \A S \in SUBSET Workers : IsFiniteSet(S) /\ Cardinality(S) \in Nat
      /\ \A S, R \in SUBSET Workers : S \subseteq R => Cardinality(S) <= Cardinality(R)
  BY WorkersAssumption, FS_Subset, FS_CardinalityType
<1>2. /\ Calling \in SUBSET Workers /\ Calling' \in SUBSET Workers
      /\ \A n \in Nodes : CallingFor(n) \in SUBSET Workers /\ CallingFor(n)' \in SUBSET Workers
  BY DEF Calling, CallingFor
<1>3. /\ losses \in Nat /\ losses' \in {losses, losses + 1}
      /\ Workers # {} => Slack \in Nat /\ Slack' \in Nat
      /\ losses' = losses => Slack' = Slack
      /\ losses' = losses + 1 => Slack <= Slack'
  <2>1. losses \in Nat /\ losses' \in {losses, losses + 1}
    BY LockSteps DEF TypeOK
  <2>2. Workers # {} => Cardinality(Workers) - 1 \in Nat
    BY <1>1, FS_EmptySet
  <2>3. Workers # {} => MostTokens * (Cardinality(Workers) - 1) \in Nat
    BY <2>2, BudgetAssumption
  <2>4. losses' = losses + 1 => Workers # {}
    BY LockSteps, <2>1 DEF TypeOK
  <2>5. Overrun \in Nat
    BY BudgetAssumption DEF Overrun
  <2>6. QED BY <2>1, <2>3, <2>4, <2>5 DEF Slack
<1>4. used \in Nat /\ usage \in [Nodes -> Nat] /\ MissionTokens \in Nat /\ TaskTokens \in Nat
      /\ Estimate \in Nat /\ MostTokens \in Nat /\ Overrun \in Nat /\ MostTokens <= Estimate + Overrun
  BY BudgetAssumption DEF TypeOK, Overrun
<1>5. CASE UNCHANGED <<used, usage>> /\ \A w \in Workers : pc'[w] \in {"calling", "recording"} =>
             pc[w] \in {"calling", "recording"} /\ task'[w] = task[w]
  <2>1. /\ Calling' \subseteq Calling
        /\ \A n \in Nodes : CallingFor(n)' \subseteq CallingFor(n)
    BY <1>5 DEF Calling, CallingFor
  <2>2. /\ Cardinality(Calling') <= Cardinality(Calling)
        /\ \A n \in Nodes : Cardinality(CallingFor(n)') <= Cardinality(CallingFor(n))
    BY <1>1, <1>2, <2>1
  <2>3. Slack \in Int /\ Slack' \in Int /\ Slack <= Slack'
    BY <1>1, <1>3, <1>4 DEF Slack
  <2>4. ASSUME NEW a \in Nat, NEW b \in Nat, NEW u \in Nat, NEW limit \in Nat,
               a <= b, u + MostTokens * b <= limit + Slack
        PROVE  u + MostTokens * a <= limit + Slack'
    <3>1. MostTokens * a <= MostTokens * b /\ MostTokens * a \in Nat /\ MostTokens * b \in Nat
      BY <1>4, <2>4
    <3>2. QED BY <2>3, <2>4, <3>1
  <2>5. QED BY <1>1, <1>2, <1>4, <1>5, <2>2, <2>4 DEF CallsFit
<1>6. ASSUME NEW w \in Workers, CallModel(w) PROVE CallsFit'
  <2>1. /\ UNCHANGED <<used, usage, task, losses>> /\ pc' = [pc EXCEPT ![w] = "calling"]
        /\ pc[w] = "step" /\ WithinBudget(task[w])
    BY <1>6 DEF CallModel, Calls, At, GoTo, budgetVars, boundVars
  <2>2. /\ Calling' = Calling \cup {w} /\ w \notin Calling
        /\ \A n \in Nodes : CallingFor(n)' = IF n = task[w] THEN CallingFor(n) \cup {w} ELSE CallingFor(n)
    BY <2>1 DEF Calling, CallingFor, TypeOK
  <2>3. used + Estimate <= MissionTokens /\ usage[task[w]] + Estimate <= TaskTokens
    BY <2>1 DEF WithinBudget
  <2>4. Slack' = Slack /\ Slack \in Nat
    BY <1>3, <2>1
  <2>5. \A S \in SUBSET Workers : (losses = 0 => S \subseteq {w}) =>
          MostTokens * Cardinality(S) <= Estimate + Slack
    <3>1. SUFFICES ASSUME NEW S \in SUBSET Workers, losses = 0 => S \subseteq {w}
                   PROVE  MostTokens * Cardinality(S) <= Estimate + Slack
      OBVIOUS
    <3>2. CASE losses = 0
      <4>1. Cardinality(S) <= 1
        BY <1>1, <3>1, <3>2, FS_Singleton
      <4>2. MostTokens * Cardinality(S) <= MostTokens /\ MostTokens * Cardinality(S) \in Nat
        BY <1>1, <1>4, <3>1, <4>1
      <4>3. Slack = Overrun
        BY <1>4, <3>2 DEF Slack
      <4>4. QED BY <1>4, <4>2, <4>3
    <3>3. CASE losses # 0
      <4>1. Cardinality(S) <= Cardinality(Workers)
        BY <1>1, <3>1
      <4>2. MostTokens * Cardinality(S) <= MostTokens * Cardinality(Workers)
        BY <1>1, <1>4, <3>1, <4>1
      <4>3. MostTokens + MostTokens * (Cardinality(Workers) - 1) = MostTokens * Cardinality(Workers)
        BY <1>1, <1>4
      <4>4. MostTokens * (Cardinality(Workers) - 1) \in Int /\ MostTokens * Cardinality(S) \in Int
        BY <1>1, <1>4, <3>1
      <4>5. QED BY <1>4, <3>3, <4>2, <4>3, <4>4 DEF Slack
    <3>4. QED BY <3>2, <3>3
  <2>6. losses = 0 => Calling = {}
    BY <2>1 DEF LockWorks, Calling
  <2>7. used' + MostTokens * Cardinality(Calling') <= MissionTokens + Slack'
    <3>1. MostTokens * Cardinality(Calling') <= Estimate + Slack
      BY <1>2, <2>2, <2>5, <2>6
    <3>2. MostTokens * Cardinality(Calling') \in Nat
      BY <1>1, <1>2, <1>4
    <3>3. QED BY <1>4, <2>1, <2>3, <2>4, <3>1, <3>2
  <2>8. ASSUME NEW n \in Nodes
        PROVE  usage'[n] + MostTokens * Cardinality(CallingFor(n)') <= TaskTokens + Slack'
    <3>1. CASE n = task[w]
      <4>1. MostTokens * Cardinality(CallingFor(n)') <= Estimate + Slack
        <5>1. losses = 0 => CallingFor(n)' \subseteq {w}
          BY <2>2, <2>6 DEF CallingFor
        <5>2. QED BY <1>2, <2>5, <5>1
      <4>2. MostTokens * Cardinality(CallingFor(n)') \in Nat /\ usage[n] \in Nat
        BY <1>1, <1>2, <1>4
      <4>3. QED BY <1>4, <2>1, <2>3, <2>4, <3>1, <4>1, <4>2
    <3>2. CASE n # task[w]
      BY <2>1, <2>2, <2>4, <3>2 DEF CallsFit
    <3>3. QED BY <3>1, <3>2
  <2>9. QED BY <2>7, <2>8 DEF CallsFit
<1>7. ASSUME NEW w \in Workers, RecordUsage(w) PROVE CallsFit'
  <2>1. /\ usage' = [usage EXCEPT ![task[w]] = @ + tokens[w]] /\ used' = used + tokens[w]
        /\ UNCHANGED <<task, losses>> /\ pc' = [pc EXCEPT ![w] = "answered"]
        /\ pc[w] = "recording"
    BY <1>7 DEF RecordUsage, At, GoTo, boundVars
  <2>2. tokens[w] \in Nat /\ tokens[w] <= MostTokens /\ task[w] \in Nodes
    BY <1>4 DEF TypeOK
  <2>3. /\ Calling' = Calling \ {w} /\ w \in Calling
        /\ \A n \in Nodes : CallingFor(n)' = IF n = task[w] THEN CallingFor(n) \ {w} ELSE CallingFor(n)
        /\ w \in CallingFor(task[w])
    BY <2>1 DEF Calling, CallingFor, TypeOK
  <2>4. Slack' = Slack /\ Slack \in Nat
    BY <1>3, <2>1
  <2>5. ASSUME NEW S \in SUBSET Workers, w \in S
        PROVE  MostTokens * Cardinality(S) = MostTokens * Cardinality(S \ {w}) + MostTokens
               /\ MostTokens * Cardinality(S \ {w}) \in Nat
    <3>1. Cardinality(S \ {w}) = Cardinality(S) - 1 /\ Cardinality(S \ {w}) \in Nat
      BY <1>1, <2>5, FS_RemoveElement
    <3>2. QED BY <1>1, <1>4, <2>5, <3>1
  <2>6. used' + MostTokens * Cardinality(Calling') <= MissionTokens + Slack'
    BY <1>2, <1>4, <2>1, <2>2, <2>3, <2>4, <2>5 DEF CallsFit
  <2>7. ASSUME NEW n \in Nodes
        PROVE  usage'[n] + MostTokens * Cardinality(CallingFor(n)') <= TaskTokens + Slack'
    <3>1. usage[n] + MostTokens * Cardinality(CallingFor(n)) <= TaskTokens + Slack
      BY DEF CallsFit
    <3>2. CASE n = task[w]
      <4>1. usage'[n] = usage[n] + tokens[w] /\ usage[n] \in Nat
        BY <1>4, <2>1, <3>2
      <4>2. MostTokens * Cardinality(CallingFor(n)) = MostTokens * Cardinality(CallingFor(n)') + MostTokens
            /\ MostTokens * Cardinality(CallingFor(n)') \in Nat
        BY <1>2, <2>3, <2>5, <3>2
      <4>3. QED BY <1>4, <2>2, <2>4, <3>1, <4>1, <4>2
    <3>3. CASE n # task[w]
      BY <1>4, <2>1, <2>3, <2>4, <3>1, <3>3
    <3>4. QED BY <3>2, <3>3
  <2>8. QED BY <2>6, <2>7 DEF CallsFit
<1>8. QED BY <1>5, <1>6, <1>7, CallSteps

-----------------------------------------------------------------------------
(* The invariant, and what follows from it *)

\* The invariant holds at first.
LEMMA InitInv == Init => IInv
<1> SUFFICES ASSUME Init PROVE IInv
  OBVIOUS
<1>1. TypeOK
  BY TypeInit
<1>2. BeforeLaunch /\ ToolsStartOnce /\ ChecksAreMade /\ DoubtsNeedAPerson
  BY DEF Init, BeforeLaunch, ToolsStartOnce, ChecksAreMade, DoubtsNeedAPerson
<1>3. UpstreamFirst /\ StatusFollows /\ LockWorks
  BY DEF Init, UpstreamFirst, StatusFollows, LockWorks, Stepping, Pending
<1>4. CallsFit
  <2>1. Calling = {} /\ \A n \in Nodes : CallingFor(n) = {}
    BY DEF Init, Calling, CallingFor
  <2>2. Slack \in Nat /\ MostTokens * 0 = 0 /\ MissionTokens \in Nat /\ TaskTokens \in Nat
    <3>1. Slack = Overrun
      BY BudgetAssumption DEF Init, Slack, Overrun
    <3>2. QED BY <3>1, BudgetAssumption DEF Overrun
  <2>3. used + MostTokens * 0 <= MissionTokens + Slack
    BY <2>2 DEF Init
  <2>4. \A n \in Nodes : usage[n] + MostTokens * 0 <= TaskTokens + Slack
    BY <2>2 DEF Init
  <2>5. QED BY <2>1, <2>3, <2>4, FS_EmptySet DEF CallsFit
<1>5. QED BY <1>1, <1>2, <1>3, <1>4 DEF IInv

\* Every step keeps it.
LEMMA InvNext == IInv /\ [Next]_vars => IInv'
BY TypeNext, LaunchNext, ToolsNext, ChecksNext, UpstreamNext, StatusNext, LockNext, CallsNext
DEF IInv

\* The states of the tasks, the requests, the mission's status, the workers'
\* places and the open calls go together as IInv says.
THEOREM InvariantHolds == Spec => []IInv
BY InitInv, InvNext, PTL DEF Spec

\* However often workers and locks are lost, a task's tools start once.
THEOREM ToolsRunOnceHolds == Spec => []ToolsRunOnce
<1>1. IInv => ToolsRunOnce
  BY DEF IInv, ToolsStartOnce, ToolsRunOnce
<1>2. QED BY <1>1, InvariantHolds, PTL

\* What was accepted without a person had nothing against it, and the evidence
\* never is.
THEOREM DoubtsNeedAPersonHolds == Spec => []DoubtsNeedAPerson
<1>1. IInv => DoubtsNeedAPerson
  BY DEF IInv
<1>2. QED BY <1>1, InvariantHolds, PTL

\* Where the evidence is accepted, everything is: whatever is not feeds a later
\* role that is not either, and the last role feeds none but is the evidence.
LEMMA EvidenceIsLast ==
  ASSUME IInv, state[Evidence] = "ACCEPTED"
  PROVE  \A n \in Nodes : state[n] = "ACCEPTED"
<1> DEFINE Open == {i \in DOMAIN Roles : state[Roles[i]] # "ACCEPTED"}
           Distances == {Len(Roles) - i : i \in Open}
<1>1. SUFFICES ASSUME Open # {} PROVE FALSE
  BY DEF Nodes, ToSet
<1>2. DOMAIN Roles = 1..Len(Roles) /\ Len(Roles) \in Nat
  BY RolesAssumption
<1>3. Distances \in SUBSET Nat /\ Distances # {}
  BY <1>1, <1>2
<1>4. PICK d \in Distances : \A e \in Distances : d <= e
  BY <1>3, LeastNumber
<1>5. PICK i \in Open : \A j \in Open : j <= i
  <2>1. PICK i \in Open : d = Len(Roles) - i
    OBVIOUS
  <2>2. \A j \in Open : Len(Roles) - i <= Len(Roles) - j
    BY <1>4, <2>1
  <2>3. Open \subseteq 1..Len(Roles)
    BY <1>2
  <2>4. QED
    <3> HIDE DEF Open, Distances
    <3>1. QED BY <1>2, <2>1, <2>2, <2>3
<1>6. Roles[i] \in Nodes \ {Evidence}
  BY <1>5, NodesType
<1>7. PICK m \in Nodes : Roles[i] \in DependsOn[m]
  BY <1>6, RolesAssumption
<1>8. PICK k \in DOMAIN Roles : Roles[k] = m
  BY DEF Nodes, ToSet
<1>9. PICK j \in 1..(k - 1) : Roles[j] = Roles[i]
  BY <1>7, <1>8, RolesAssumption
<1>10. j = i
  BY <1>2, <1>5, <1>8, <1>9, RolesAssumption DEF IsInjective
<1>11. state[m] = "ACCEPTED"
  BY <1>2, <1>5, <1>8, <1>9, <1>10
<1>12. QED BY <1>5, <1>7, <1>11 DEF IInv, UpstreamFirst

\* No task runs ahead of its launch or its upstream tasks, and a mission is
\* completed by accepting all of them, the evidence by a person.
THEOREM CompletedIsEarnedHolds == Spec => []CompletedIsEarned
<1>1. ASSUME IInv PROVE CompletedIsEarned
  <2>1. \A n \in Nodes : state[n] # "CREATED" /\ state[n] # "NEEDS_WORK" =>
          /\ status # "pending_launch"
          /\ \A m \in DependsOn[n] : state[m] = "ACCEPTED"
    BY <1>1 DEF IInv, BeforeLaunch, UpstreamFirst
  <2>2. ASSUME status = "completed"
        PROVE  (\A n \in Nodes : state[n] = "ACCEPTED") /\ approval[Evidence] = "approved"
    <3>1. state[Evidence] = "ACCEPTED"
      BY <1>1, <2>2 DEF IInv, StatusFollows
    <3>2. approval[Evidence] = "approved"
      BY <1>1, <3>1, NodesType DEF IInv, DoubtsNeedAPerson
    <3>3. QED BY <1>1, <3>1, <3>2, EvidenceIsLast
  <2>3. QED BY <2>1, <2>2 DEF CompletedIsEarned
<1>2. QED BY <1>1, InvariantHolds, PTL

\* Whoever is waited for has been asked, and a mission that is not over has a
\* next move.
THEOREM AskedAndListedHolds == Spec => []AskedAndListed
<1>1. ASSUME IInv PROVE WaitingIsListed
  BY <1>1 DEF IInv, StatusFollows, LockWorks, WaitingIsListed
<1>2. ASSUME IInv, status = "running" PROVE RunnableAt # {}
  <2> DEFINE Open == {i \in DOMAIN Roles : state[Roles[i]] # "ACCEPTED"}
  <2>1. DOMAIN Roles = 1..Len(Roles) /\ Len(Roles) \in Nat
    BY RolesAssumption
  <2>2. state[Evidence] # "ACCEPTED"
    BY <1>2 DEF IInv, StatusFollows
  <2>3. Open # {} /\ Open \in SUBSET Nat
    BY <2>1, <2>2, NodesType DEF Nodes, ToSet
  <2>4. PICK i \in Open : \A j \in Open : i <= j
    BY <2>3, LeastNumber
  <2>5. \A m \in DependsOn[Roles[i]] : state[m] = "ACCEPTED"
    <3>1. SUFFICES ASSUME NEW m \in DependsOn[Roles[i]] PROVE state[m] = "ACCEPTED"
      OBVIOUS
    <3>2. PICK j \in 1..(i - 1) : Roles[j] = m
      BY <2>4, RolesAssumption
    <3>3. QED BY <2>1, <2>4, <3>2
  <2>6. Roles[i] \in Nodes
    BY <2>4, NodesType
  <2>7. state[Roles[i]] \notin Terminal /\ ~Pending(Roles[i])
    BY <1>2, <2>4, <2>6 DEF IInv, StatusFollows, Terminal
  <2>8. QED BY <2>4, <2>5, <2>7 DEF RunnableAt, Runnable
<1>3. ASSUME IInv PROVE NeverIdle
  BY <1>2, <1>3 DEF NeverIdle, IInv, StatusFollows
<1>4. IInv => AskedAndListed
  BY <1>1, <1>3 DEF AskedAndListed, IInv
<1>5. QED BY <1>4, InvariantHolds, PTL

\* Recorded usage passes a ceiling by one call's excess over its estimate at
\* most while the lock works, and by one call more for each further worker
\* when it does not.
THEOREM BudgetHoldsHolds == Spec => []BudgetHolds
<1>1. ASSUME IInv PROVE BudgetHolds
  <2>1. /\ MostTokens * Cardinality(Calling) \in Nat
        /\ \A n \in Nodes : MostTokens * Cardinality(CallingFor(n)) \in Nat
    <3>1. /\ IsFiniteSet(Calling)
          /\ \A n \in Nodes : IsFiniteSet(CallingFor(n))
      BY WorkersAssumption, FS_Subset DEF Calling, CallingFor
    <3>2. QED BY <3>1, FS_CardinalityType, BudgetAssumption
  <2>2. /\ used + MostTokens * Cardinality(Calling) <= MissionTokens + Slack
        /\ \A n \in Nodes :
             usage[n] + MostTokens * Cardinality(CallingFor(n)) <= TaskTokens + Slack
    BY <1>1 DEF IInv, CallsFit
  <2>3. /\ used \in Nat /\ \A n \in Nodes : usage[n] \in Nat
        /\ MissionTokens \in Nat /\ TaskTokens \in Nat
        /\ Slack \in Int
    BY <1>1, BudgetAssumption, WorkersAssumption, FS_CardinalityType DEF IInv, TypeOK, Slack, Overrun
  <2>4. used <= MissionTokens + Slack /\ \A n \in Nodes : usage[n] <= TaskTokens + Slack
    BY <2>1, <2>2, <2>3
  <2>5. QED BY <2>4 DEF BudgetHolds, Slack
<1>2. QED BY <1>1, InvariantHolds, PTL
=============================================================================

------------------------------ MODULE Missions -------------------------------
(***************************************************************************)
(* One agent mission (agents/mission.py, fsm.py, policy.py, gateway.py):   *)
(* people decide its launch and its reviews, workers advance its tasks     *)
(* over the open-node DAG, every model call is checked against a budget.   *)
(*                                                                         *)
(* A transaction is one step: it locks the rows it changes, and the status *)
(* of the mission changes only under the mission's row lock.  What a       *)
(* handler does between two transactions is a step of its own, on the task *)
(* as the worker read it.  Plans never wait for a person, because          *)
(* DESIGN_WRITE_TOOLS is empty (policy.py:30).                             *)
(***************************************************************************)
EXTENDS Integers, Sequences, FiniteSets, SequencesExt

CONSTANTS
  Roles,         \* ROLES: the nodes, in the order in which they are tried
  DependsOn,     \* the upstream nodes of each
  Evidence,      \* the node that bundles the evidence
  ToolNodes,     \* nodes whose plan runs tools that give a verdict
  Workers,       \* processes that call advance
  Nobody,        \* the mission's advisory lock is free
  Estimate,      \* tokens a call is estimated at: characters / 3 and the answer's limit
  MostTokens,    \* bound: tokens a provider reports of a call, below or above it
  TaskTokens, MissionTokens,   \* the ceilings
  MaxMishaps     \* bound: failed transactions and calls, killed workers, and
                 \* advisory locks lost with their connection

Nodes == ToSet(Roles)

ASSUME RolesAssumption ==
  /\ Roles \in Seq(Nodes) /\ IsInjective(Roles) /\ Evidence \in Nodes /\ ToolNodes \subseteq Nodes
  /\ DependsOn \in [Nodes -> SUBSET Nodes]
  \* The roles are listed upstream first, and everything feeds the evidence.
  /\ \A i \in DOMAIN Roles : \A n \in DependsOn[Roles[i]] : \E j \in 1..(i - 1) : Roles[j] = n
  /\ \A n \in Nodes \ {Evidence} : \E m \in Nodes : n \in DependsOn[m]
ASSUME WorkersAssumption == IsFiniteSet(Workers) /\ Nobody \notin Workers
ASSUME BudgetAssumption ==
  /\ Estimate \in Nat \ {0} /\ MostTokens \in Nat /\ TaskTokens \in Nat /\ MissionTokens \in Nat
  /\ MaxMishaps \in Nat

VARIABLES
  status,      \* of the mission
  state,       \* of each task
  approval,    \* each task's request to a person: none, pending, or the decision
  outcome,     \* evidence_json: how the tool runs ended
  check,       \* check_json: what the self-check found
  usage,       \* recorded tokens of each task
  used,        \* recorded tokens of the mission
  spent,       \* tokens the model calls have really used, up to past the ceiling
  lock,        \* holder of the mission's advisory lock
  pc,          \* where each worker is
  task,        \* the task it is advancing
  seen,        \* that task's state when the worker read it
  tokens,      \* tokens of the answer it has not recorded yet
  toolRuns,    \* how often each task's tools were started
  faults, crashes, losses

taskVars == <<state, approval, outcome, check, toolRuns>>
budgetVars == <<usage, used, spent, tokens>>
workerVars == <<pc, task, seen>>
boundVars == <<faults, crashes, losses>>
vars == <<status, taskVars, budgetVars, lock, workerVars, boundVars>>

Terminal == {"ACCEPTED", "REJECTED", "NEEDS_WORK"}
Ended == {"completed", "rejected", "halted"}

Init ==
  /\ status = "pending_launch"
  /\ state = [n \in Nodes |-> "CREATED"]
  /\ approval = [n \in Nodes |-> "none"]
  /\ outcome = [n \in Nodes |-> "none"]
  /\ check = [n \in Nodes |-> "none"]
  /\ usage = [n \in Nodes |-> 0]
  /\ used = 0
  /\ spent = 0
  /\ lock = Nobody
  /\ pc = [w \in Workers |-> "idle"]
  /\ task = [w \in Workers |-> Evidence]
  /\ seen = [w \in Workers |-> "CREATED"]
  /\ tokens = [w \in Workers |-> 0]
  /\ toolRuns = [n \in Nodes |-> 0]
  /\ faults = 0 /\ crashes = 0 /\ losses = 0

-----------------------------------------------------------------------------
(* The mission's status follows its tasks *)

Pending(n) == approval[n] = "pending"

\* Mistake: requests to a person are not looked at.
SettledWithoutRequests(st, ap) ==
  IF status \notin {"running", "awaiting_approval"} THEN status
  ELSE IF \E n \in Nodes : st[n] = "REJECTED" THEN "rejected"
  ELSE IF \E n \in Nodes : st[n] = "NEEDS_WORK" THEN "halted"
  ELSE IF st[Evidence] = "ACCEPTED" THEN "completed"
  ELSE "running"

\* _settle, for the states and approvals a transaction leaves behind.
Settled(st, ap) ==
  IF status \notin {"running", "awaiting_approval"} THEN status
  ELSE IF \E n \in Nodes : st[n] = "REJECTED" THEN "rejected"
  ELSE IF \E n \in Nodes : st[n] = "NEEDS_WORK" THEN "halted"
  ELSE IF st[Evidence] = "ACCEPTED" THEN "completed"
  ELSE IF \E n \in Nodes : ap[n] = "pending" THEN "awaiting_approval"
  ELSE "running"

Move(n, to) == state' = [state EXCEPT ![n] = to]
MoveAndSettle(n, to) == Move(n, to) /\ status' = Settled(state', approval')

\* A task that is open, not waiting for a person, and has its upstream tasks
\* accepted.
Runnable(n) ==
  /\ state[n] \notin Terminal
  /\ ~Pending(n)
  /\ \A m \in DependsOn[n] : state[m] = "ACCEPTED"

\* _next_runnable: the first one in the order of the roles.
RunnableAt == {i \in DOMAIN Roles : Runnable(Roles[i])}
NextRunnable == Roles[CHOOSE i \in RunnableAt : \A j \in RunnableAt : i <= j]

-----------------------------------------------------------------------------
(* People *)

DecideLaunch(decision) ==
  /\ status = "pending_launch"
  /\ status' = IF decision = "approved" THEN "running" ELSE "rejected"
  /\ UNCHANGED <<taskVars, budgetVars, lock, workerVars, boundVars>>

\* Mistake: the mission's status does not follow the decision.
DecideTaskUnsettled(n, decision) ==
  /\ Pending(n)
  /\ state[n] = "REVIEW_REQUIRED"
  /\ approval' = [approval EXCEPT ![n] = decision]
  /\ Move(n, CASE decision = "approved" -> "ACCEPTED"
                [] decision = "rejected" -> "REJECTED"
                [] decision = "needs_work" -> "NEEDS_WORK")
  /\ UNCHANGED <<status, outcome, check, toolRuns, budgetVars, lock, workerVars, boundVars>>

DecideTask(n, decision) ==
  /\ Pending(n)
  /\ state[n] = "REVIEW_REQUIRED"     \* fsm.check, or the decision rolls back
  /\ approval' = [approval EXCEPT ![n] = decision]
  /\ MoveAndSettle(n, CASE decision = "approved" -> "ACCEPTED"
                        [] decision = "rejected" -> "REJECTED"
                        [] decision = "needs_work" -> "NEEDS_WORK")
  /\ UNCHANGED <<outcome, check, toolRuns, budgetVars, lock, workerVars, boundVars>>

-----------------------------------------------------------------------------
(* A worker's advance *)

At(w, place) == pc[w] = place
GoTo(w, place) == pc' = [pc EXCEPT ![w] = place]

\* The task and its state are local to one step; what they held is forgotten.
Forget(w) ==
  /\ task' = [task EXCEPT ![w] = Evidence]
  /\ seen' = [seen EXCEPT ![w] = "CREATED"]

StepDone(w) == GoTo(w, "loop") /\ Forget(w)

\* The lock goes with the advance, unless its connection went before.
Leave(w) ==
  /\ GoTo(w, "idle")
  /\ Forget(w)
  /\ lock' = IF lock = w THEN Nobody ELSE lock

Mishap == faults + crashes + losses < MaxMishaps
Fault == Mishap /\ faults' = faults + 1 /\ UNCHANGED <<crashes, losses>>

\* Mistake: the answer of pg_try_advisory_lock is ignored.
AdvanceUnheld(w) ==
  /\ At(w, "idle")
  /\ status = "running"
  /\ lock' = IF lock = Nobody THEN w ELSE lock
  /\ GoTo(w, "opening")
  /\ UNCHANGED <<status, taskVars, budgetVars, task, seen, boundVars>>

\* A second caller returns at once.
Advance(w) ==
  /\ At(w, "idle")
  /\ status = "running"
  /\ lock = Nobody
  /\ lock' = w
  /\ GoTo(w, "opening")
  /\ UNCHANGED <<status, taskVars, budgetVars, task, seen, boundVars>>

OpenGateway(w) ==
  /\ At(w, "opening")
  /\ GoTo(w, "loop")
  /\ UNCHANGED <<status, taskVars, budgetVars, lock, task, seen, boundVars>>

\* The gateway cannot start: the next task stops.
GatewayFails(w) ==
  /\ At(w, "opening")
  /\ Fault
  /\ IF RunnableAt = {} THEN UNCHANGED <<status, state>>
     ELSE MoveAndSettle(NextRunnable, "NEEDS_WORK")
  /\ Leave(w)
  /\ UNCHANGED <<approval, outcome, check, toolRuns, budgetVars>>

\* Mistake: no handler for a task interrupted while running tools.
PickTaskUninterrupted(w) ==
  /\ At(w, "loop")
  /\ status = "running"
  /\ RunnableAt # {}
  /\ state[NextRunnable] # "RUNNING_TOOLS"
  /\ task' = [task EXCEPT ![w] = NextRunnable]
  /\ seen' = [seen EXCEPT ![w] = state[NextRunnable]]
  /\ GoTo(w, "step")
  /\ UNCHANGED <<status, taskVars, budgetVars, lock, boundVars>>

PickTask(w) ==
  /\ At(w, "loop")
  /\ status = "running"
  /\ RunnableAt # {}
  /\ task' = [task EXCEPT ![w] = NextRunnable]
  /\ seen' = [seen EXCEPT ![w] = state[NextRunnable]]
  /\ GoTo(w, IF state[NextRunnable] = "RUNNING_TOOLS" THEN "stopping" ELSE "step")
  /\ UNCHANGED <<status, taskVars, budgetVars, lock, boundVars>>

Return(w) ==
  /\ At(w, "loop")
  /\ status # "running" \/ RunnableAt = {}
  /\ Leave(w)
  /\ UNCHANGED <<status, taskVars, budgetVars, boundVars>>

ToStopping(w) ==
  /\ GoTo(w, "stopping")
  /\ UNCHANGED <<status, taskVars, budgetVars, lock, task, seen>>

\* The task's row is locked and fsm.check compares its state: this step's
\* transaction starts from the state the worker read.
Holding(w, from) == seen[w] = from /\ state[task[w]] = from

ValidateContext(w) ==
  /\ At(w, "step") /\ Holding(w, "CREATED")
  /\ Move(task[w], "CONTEXT_VALIDATED")
  /\ StepDone(w)
  /\ UNCHANGED <<status, approval, outcome, check, toolRuns, budgetVars, lock, boundVars>>

\* A context file is missing, or changed since it was validated.
ContextRefused(w) ==
  /\ At(w, "step")
  /\ seen[w] \in {"CREATED", "CONTEXT_VALIDATED"}
  /\ ToStopping(w)
  /\ UNCHANGED boundVars

Calls(w) == At(w, "step") /\ seen[w] \in {"CONTEXT_VALIDATED", "EVIDENCE_COLLECTED"}

\* Mistake: the next call's estimate is left out.
WithinBudgetSoFar(n) == usage[n] <= TaskTokens /\ used <= MissionTokens

WithinBudget(n) ==
  usage[n] + Estimate <= TaskTokens /\ used + Estimate <= MissionTokens

CallModel(w) ==
  /\ Calls(w)
  /\ WithinBudget(task[w])
  /\ GoTo(w, "calling")
  /\ UNCHANGED <<status, taskVars, budgetVars, lock, task, seen, boundVars>>

BudgetExceeded(w) ==
  /\ Calls(w)
  /\ ~WithinBudget(task[w])
  /\ ToStopping(w)
  /\ UNCHANGED boundVars

\* Counted no further than past the mission's ceiling.
SpentWith(n) == IF spent + n > MissionTokens THEN MissionTokens + 1 ELSE spent + n

\* What the provider reports is taken as it is, whatever was estimated.
Answer(w, n) ==
  /\ At(w, "calling")
  /\ spent' = SpentWith(n)
  /\ tokens' = [tokens EXCEPT ![w] = n]
  /\ GoTo(w, "recording")
  /\ UNCHANGED <<status, taskVars, usage, used, lock, task, seen, boundVars>>

\* A timeout, a refusal, an unreachable model: tokens may be used all the same.
CallFails(w, n) ==
  /\ At(w, "calling")
  /\ Fault
  /\ spent' = SpentWith(n)
  /\ GoTo(w, "stopping")
  /\ UNCHANGED <<status, taskVars, usage, used, tokens, lock, task, seen>>

\* The llm_call event and the usage of the task and the mission, in one
\* transaction.
RecordUsage(w) ==
  /\ At(w, "recording")
  /\ usage' = [usage EXCEPT ![task[w]] = @ + tokens[w]]
  /\ used' = used + tokens[w]
  /\ tokens' = [tokens EXCEPT ![w] = 0]
  /\ GoTo(w, "answered")
  /\ UNCHANGED <<status, taskVars, spent, lock, task, seen, boundVars>>

\* The answer is cut short or not a JSON object.
BadAnswer(w) ==
  /\ At(w, "answered")
  /\ ToStopping(w)
  /\ UNCHANGED boundVars

\* Mistake: the plan is recorded and its gate forgotten.
ProposePlanUngated(w, allowed) ==
  /\ At(w, "answered") /\ Holding(w, "CONTEXT_VALIDATED")
  /\ Move(task[w], "PLAN_PROPOSED")
  /\ StepDone(w)
  /\ UNCHANGED <<status, approval, outcome, check, toolRuns, budgetVars, lock, boundVars>>

\* PLAN_PROPOSED, and policy.plan's decision in the same transaction.
ProposePlan(w, allowed) ==
  /\ At(w, "answered") /\ Holding(w, "CONTEXT_VALIDATED")
  /\ UNCHANGED approval
  /\ MoveAndSettle(task[w], IF allowed THEN "APPROVED_IF_REQUIRED" ELSE "NEEDS_WORK")
  /\ StepDone(w)
  /\ UNCHANGED <<outcome, check, toolRuns, budgetVars, lock, boundVars>>

\* Mistake: the transition is checked on the task as it was read.
RunToolsUnchecked(w) ==
  /\ At(w, "step") /\ seen[w] = "APPROVED_IF_REQUIRED"
  /\ Move(task[w], "RUNNING_TOOLS")
  /\ toolRuns' = [toolRuns EXCEPT ![task[w]] = @ + 1]
  /\ GoTo(w, "tools")
  /\ UNCHANGED <<status, approval, outcome, check, budgetVars, lock, task, seen, boundVars>>

RunTools(w) ==
  /\ At(w, "step") /\ Holding(w, "APPROVED_IF_REQUIRED")
  /\ Move(task[w], "RUNNING_TOOLS")
  /\ toolRuns' = [toolRuns EXCEPT ![task[w]] = @ + 1]
  /\ GoTo(w, "tools")
  /\ UNCHANGED <<status, approval, outcome, check, budgetVars, lock, task, seen, boundVars>>

\* Tool runs end as RunLifecycle says; run_inline fails for a run that another
\* worker claimed; a write outside the worktree is refused.
ToolRefused(w) ==
  /\ At(w, "tools")
  /\ ToStopping(w)
  /\ UNCHANGED boundVars

Outcomes(n) == IF n \in ToolNodes THEN {"passing", "failing", "unfinished"} ELSE {"passing"}

CollectEvidence(w, result) ==
  /\ At(w, "tools")
  /\ state[task[w]] = "RUNNING_TOOLS"
  /\ outcome' = [outcome EXCEPT ![task[w]] = result]
  /\ Move(task[w], "EVIDENCE_COLLECTED")
  /\ StepDone(w)
  /\ UNCHANGED <<status, approval, check, toolRuns, budgetVars, lock, boundVars>>

\* The deterministic checks on the evidence, and the agent's own opinion.
SelfCheck(w, opinion) ==
  /\ At(w, "answered") /\ Holding(w, "EVIDENCE_COLLECTED")
  /\ check' = [check EXCEPT ![task[w]] =
                 IF outcome[task[w]] = "unfinished" THEN "not_ok" ELSE opinion]
  /\ Move(task[w], "SELF_CHECKED")
  /\ StepDone(w)
  /\ UNCHANGED <<status, approval, outcome, toolRuns, budgetVars, lock, boundVars>>

\* Mistake: a failing verdict does not ask for a person.
ReviewOpinionOnly(n) ==
  IF check[n] = "not_ok" THEN "deny"
  ELSE IF n = Evidence \/ check[n] = "incomplete" THEN "require_approval"
  ELSE "allow"

\* Mistake: the evidence is a task like the others.
ReviewEvidenceAsAny(n) ==
  IF check[n] = "not_ok" THEN "deny"
  ELSE IF outcome[n] = "failing" \/ check[n] = "incomplete" THEN "require_approval"
  ELSE "allow"

\* policy.review
Review(n) ==
  IF check[n] = "not_ok" THEN "deny"
  ELSE IF n = Evidence \/ outcome[n] = "failing" \/ check[n] = "incomplete"
       THEN "require_approval"
       ELSE "allow"

\* REVIEW_REQUIRED and the policy's decision in the same transaction.
GateReview(w) ==
  /\ At(w, "step") /\ Holding(w, "SELF_CHECKED")
  /\ LET n == task[w] IN
       \/ /\ Review(n) = "allow"
          /\ UNCHANGED approval
          /\ MoveAndSettle(n, "ACCEPTED")
       \/ /\ Review(n) = "deny"
          /\ UNCHANGED approval
          /\ MoveAndSettle(n, "NEEDS_WORK")
       \/ /\ Review(n) = "require_approval"
          /\ approval' = [approval EXCEPT ![n] = "pending"]
          /\ MoveAndSettle(n, "REVIEW_REQUIRED")
  /\ StepDone(w)
  /\ UNCHANGED <<outcome, check, toolRuns, budgetVars, lock, boundVars>>

\* IllegalTransition: another worker moved the task since this one read it.
Overtaken(w) ==
  /\ \/ /\ At(w, "answered") \/ (At(w, "step") /\ ~Calls(w))
        /\ state[task[w]] # seen[w]
     \/ At(w, "tools") /\ state[task[w]] # "RUNNING_TOOLS"
  /\ ToStopping(w)
  /\ UNCHANGED boundVars

\* The transaction of this step rolls back.
StepFails(w) ==
  /\ pc[w] \in {"step", "recording", "answered", "tools"}
  /\ Fault
  /\ ToStopping(w)

\* _stop: an ended task stays as it is.
Stop(w) ==
  /\ At(w, "stopping")
  /\ UNCHANGED approval
  /\ \/ /\ state[task[w]] \in Terminal
        /\ UNCHANGED <<status, state>>
     \/ /\ state[task[w]] \notin Terminal
        /\ MoveAndSettle(task[w], "NEEDS_WORK")
  /\ StepDone(w)
  /\ UNCHANGED <<outcome, check, toolRuns, budgetVars, lock, boundVars>>

\* The exception leaves advance; the task stays where it was.
StopFails(w) ==
  /\ At(w, "stopping")
  /\ Fault
  /\ Leave(w)
  /\ UNCHANGED <<status, taskVars, budgetVars>>

-----------------------------------------------------------------------------
(* What goes wrong around it *)

Crash(w) ==
  /\ ~At(w, "idle")
  /\ Mishap
  /\ crashes' = crashes + 1
  /\ tokens' = [tokens EXCEPT ![w] = 0]
  /\ Leave(w)
  /\ UNCHANGED <<status, taskVars, usage, used, spent, faults, losses>>

\* The connection that holds the session lock ends; the worker does not notice.
LoseLock ==
  /\ lock # Nobody
  /\ Mishap
  /\ losses' = losses + 1
  /\ lock' = Nobody
  /\ UNCHANGED <<status, taskVars, budgetVars, workerVars, faults, crashes>>

-----------------------------------------------------------------------------

WorkerStep(w) ==
  \/ OpenGateway(w) \/ PickTask(w) \/ Return(w)
  \/ ValidateContext(w) \/ ContextRefused(w)
  \/ CallModel(w) \/ BudgetExceeded(w) \/ RecordUsage(w) \/ BadAnswer(w)
  \/ \E n \in 0..MostTokens : Answer(w, n)
  \/ \E allowed \in BOOLEAN : ProposePlan(w, allowed)
  \/ RunTools(w) \/ ToolRefused(w)
  \/ \E result \in Outcomes(task[w]) : CollectEvidence(w, result)
  \/ \E opinion \in {"complete", "incomplete"} : SelfCheck(w, opinion)
  \/ GateReview(w) \/ Overtaken(w) \/ Stop(w)

WorkerFault(w) ==
  \/ GatewayFails(w) \/ StepFails(w) \/ StopFails(w) \/ Crash(w)
  \/ \E n \in 0..MostTokens : CallFails(w, n)

Decide ==
  \/ \E decision \in {"approved", "rejected"} : DecideLaunch(decision)
  \/ \E n \in Nodes : \E decision \in {"approved", "rejected", "needs_work"} :
       DecideTask(n, decision)

Next ==
  \/ \E w \in Workers : Advance(w) \/ WorkerStep(w) \/ WorkerFault(w)
  \/ Decide
  \/ LoseLock

Spec == Init /\ [][Next]_vars

\* `mission worker` advances every running mission again and again; a model
\* call ends by its timeout and a tool run by its time limit.
Fairness == \A w \in Workers : WF_vars(Advance(w)) /\ WF_vars(WorkerStep(w))

LiveSpec == Spec /\ Fairness

-----------------------------------------------------------------------------
(* Properties *)

States ==
  {"CREATED", "CONTEXT_VALIDATED", "APPROVED_IF_REQUIRED", "RUNNING_TOOLS",
   "EVIDENCE_COLLECTED", "SELF_CHECKED", "REVIEW_REQUIRED"} \cup Terminal

Places ==
  {"idle", "opening", "loop", "step", "calling", "recording", "answered", "tools", "stopping"}

TypeOK ==
  /\ status \in {"pending_launch", "running", "awaiting_approval"} \cup Ended
  /\ state \in [Nodes -> States]
  /\ approval \in [Nodes -> {"none", "pending", "approved", "rejected", "needs_work"}]
  /\ outcome \in [Nodes -> {"none", "passing", "failing", "unfinished"}]
  /\ check \in [Nodes -> {"none", "not_ok", "complete", "incomplete"}]
  /\ usage \in [Nodes -> Nat] /\ used \in Nat /\ spent \in Nat
  /\ tokens \in [Workers -> 0..MostTokens]
  /\ lock \in Workers \cup {Nobody}
  /\ pc \in [Workers -> Places]
  /\ task \in [Workers -> Nodes]
  /\ seen \in [Workers -> States]
  /\ toolRuns \in [Nodes -> Nat]
  /\ faults \in Nat /\ crashes \in Nat /\ losses \in Nat
  /\ faults + crashes + losses <= MaxMishaps

\* No task starts before the mission is launched and its upstream tasks are
\* accepted, and what is accepted stays accepted: a completed mission has
\* every task accepted, the evidence by a person.
CompletedIsEarned ==
  /\ \A n \in Nodes : state[n] # "CREATED" /\ state[n] # "NEEDS_WORK" =>
       /\ status # "pending_launch"
       /\ \A m \in DependsOn[n] : state[m] = "ACCEPTED"
  /\ status = "completed" =>
       /\ \A n \in Nodes : state[n] = "ACCEPTED"
       /\ approval[Evidence] = "approved"

\* Evidence with a failing verdict or an agent's doubt is accepted by a person
\* or not at all, and unfinished tool runs never are.
DoubtsNeedAPerson ==
  \A n \in Nodes : state[n] = "ACCEPTED" /\ approval[n] # "approved" =>
    /\ n # Evidence
    /\ outcome[n] = "passing"
    /\ check[n] = "complete"

\* A task waiting for a person is in the inbox: the mission is awaiting
\* approval, which is all that pending_approvals lists.  Without the lock
\* another worker may have halted the mission meanwhile.
WaitingIsListed ==
  \A n \in Nodes : state[n] = "REVIEW_REQUIRED" =>
    Pending(n) /\ (losses = 0 => status = "awaiting_approval")

\* A running mission has a task to advance, and one that waits for approval
\* has a decision to make; otherwise nothing would ever move it.
NeverIdle ==
  /\ status = "running" => RunnableAt # {}
  /\ status = "awaiting_approval" => \E n \in Nodes : state[n] = "REVIEW_REQUIRED"

\* Whoever is waited for has been asked, and a mission that is not over has a
\* next move, a worker's or a person's.
AskedAndListed == TypeOK /\ WaitingIsListed /\ NeverIdle

\* A task's tools are started once, whoever believes to hold the lock.
ToolsRunOnce == \A n \in Nodes : toolRuns[n] <= 1

\* Recorded usage passes a ceiling by what one call used beyond its estimate
\* and no more, however many calls follow, while the lock works; every worker
\* that advances without it may add a call of its own.
Overrun == IF MostTokens > Estimate THEN MostTokens - Estimate ELSE 0
BudgetHolds ==
  LET slack == Overrun + (IF losses = 0 THEN 0 ELSE MostTokens * (Cardinality(Workers) - 1))
  IN  used <= MissionTokens + slack /\ \A n \in Nodes : usage[n] <= TaskTokens + slack

\* A running mission completes, stops, or waits for a person.
MissionMoves == status = "running" ~> status # "running"

\* "checks the task and mission token ceilings [...] first; a call that could
\* cross one is refused" (gateway.py:5-7).
CeilingIsHard == spent <= MissionTokens
=============================================================================

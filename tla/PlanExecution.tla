--------------------------- MODULE PlanExecution ---------------------------
(***************************************************************************)
(* Plans, pkg/planner: GetExecutionOrder (planner.go) sorts the steps of a *)
(* plan into levels by their dependencies, and Executor.Execute            *)
(* (executor.go) runs one level after the other, the steps of a level in   *)
(* goroutines of their own, which it joins by a strategy.  A step is       *)
(* retried, or not, by another strategy.                                   *)
(*                                                                         *)
(* What a step does is left to the caller: it succeeds or fails.           *)
(* Goroutines that a join has not waited for run on.                       *)
(***************************************************************************)
EXTENDS Integers, FiniteSets

CONSTANTS
    Steps,      \* steps of the plan
    MaxRetries  \* Executor.maxRetries

ASSUME PlanAssumption == IsFiniteSet(Steps) /\ Steps # {} /\ MaxRetries \in Nat

VARIABLES
    deps,       \* per step its Dependencies
    join,       \* Executor.joinStrategy
    onFail,     \* Executor.failureStrategy
    execution,  \* Execute: "idle", "between" levels, in a "level", "returned"
    levelNo,    \* levels begun
    outcome,    \* what Execute has returned, "none" before
    cancelled,  \* whether its context is
    at,         \* per step, where its goroutine stands
    status,     \* per step Step.Status
    attempts,   \* per step Step.Attempts
    report      \* per step what its goroutine has sent, "none" before

executionVars == <<execution, levelNo, outcome>>
strategyVars == <<deps, join, onFail>>
stepVars == <<at, status, attempts, report>>
planVars == <<strategyVars, executionVars, cancelled, stepVars>>

\* The steps of the first n levels: a step follows its last dependency.
Before[n \in 0..Cardinality(Steps)] ==
    IF n = 0 THEN {} ELSE {s \in Steps : deps[s] \subseteq Before[n - 1]}

Level(n) == Before[n] \ Before[n - 1]
Current == Level(levelNo)

PlanInit ==
    /\ deps \in [Steps -> SUBSET Steps]
    /\ join \in {"all", "first", "any"} /\ onFail \in {"abort", "continue", "retry"}
    /\ execution = "idle" /\ levelNo = 0 /\ outcome = "none" /\ cancelled = FALSE
    /\ at = [s \in Steps |-> "none"] /\ status = [s \in Steps |-> "pending"]
    /\ attempts = [s \in Steps |-> 0] /\ report = [s \in Steps |-> "none"]

-----------------------------------------------------------------------------
\* Execute.

ReturnPlan(result) ==
    /\ execution' = "returned" /\ outcome' = result
    /\ UNCHANGED levelNo

\* GetExecutionOrder fails if steps depend on each other in a circle.
Order ==
    /\ execution = "idle"
    /\ IF Before[Cardinality(Steps)] = Steps
       THEN execution' = "between" /\ UNCHANGED <<levelNo, outcome>>
       ELSE ReturnPlan("error")
    /\ UNCHANGED <<strategyVars, cancelled, stepVars>>

BeginLevel ==
    /\ execution = "between"
    /\ IF Before[levelNo] = Steps
       THEN ReturnPlan("ok") /\ UNCHANGED stepVars
       ELSE /\ execution' = "level" /\ levelNo' = levelNo + 1 /\ UNCHANGED outcome
            /\ at' = [s \in Steps |-> IF s \in Level(levelNo + 1) THEN "start" ELSE at[s]]
            /\ UNCHANGED <<status, attempts, report>>
    /\ UNCHANGED <<strategyVars, cancelled>>

\* A level is over, or with it the plan.
EndLevel(failed) ==
    /\ IF failed THEN ReturnPlan("error")
       ELSE execution' = "between" /\ UNCHANGED <<levelNo, outcome>>
    /\ UNCHANGED <<strategyVars, cancelled, stepVars>>

Reported(result) == {s \in Current : report[s] = result}
Single == Cardinality(Current) = 1

\* The only step of a level is executed without a goroutine or a join.
EndSingle ==
    /\ execution = "level" /\ Single
    /\ Reported("none") = {} /\ EndLevel(Reported("error") # {})

\* A plausible bug: the level is over as soon as one of its steps has succeeded.
JoinAllEarly ==
    /\ execution = "level" /\ ~Single /\ join = "all"
    /\ Reported("ok") # {} /\ EndLevel(onFail = "abort" /\ Reported("error") # {})

JoinLevelAll ==
    /\ execution = "level" /\ ~Single /\ join = "all"
    /\ Reported("none") = {}
    /\ EndLevel(onFail = "abort" /\ Reported("error") # {})

\* The select of "first" and of "any" takes what is there.
JoinLevelFirst ==
    /\ execution = "level" /\ ~Single /\ join = "first"
    /\ \/ Reported("ok") # {} /\ EndLevel(FALSE)
       \/ Reported("error") # {} /\ EndLevel(onFail = "abort")

JoinLevelAny ==
    /\ execution = "level" /\ ~Single /\ join = "any"
    /\ Reported("ok") # {} /\ EndLevel(FALSE)

JoinCancelled ==
    /\ execution = "level" /\ ~Single /\ join \in {"first", "any"}
    /\ cancelled /\ EndLevel(TRUE)

CancelPlan ==
    /\ ~cancelled /\ cancelled' = TRUE
    /\ UNCHANGED <<strategyVars, executionVars, stepVars>>

-----------------------------------------------------------------------------
\* executeStep.

StepGoto(s, place) == at' = [at EXCEPT ![s] = place]

StartStep(s) ==
    /\ at[s] = "start" /\ StepGoto(s, "attempt")
    /\ status' = [status EXCEPT ![s] = "running"]
    /\ attempts' = [attempts EXCEPT ![s] = 1]
    /\ UNCHANGED <<strategyVars, executionVars, cancelled, report>>

EndStep(s, final, result) ==
    /\ StepGoto(s, "done")
    /\ status' = [status EXCEPT ![s] = final]
    /\ report' = [report EXCEPT ![s] = result]
    /\ UNCHANGED <<strategyVars, executionVars, cancelled, attempts>>

Succeed(s) == at[s] = "attempt" /\ EndStep(s, "completed", "ok")

\* An attempt fails: another follows, or the step has failed, which under
\* "continue" is not reported.
FailStep(s) ==
    /\ at[s] = "attempt"
    /\ IF onFail = "retry" /\ attempts[s] <= MaxRetries
       THEN /\ StepGoto(s, "backoff")
            /\ UNCHANGED <<strategyVars, executionVars, cancelled, status, attempts, report>>
       ELSE EndStep(s, "failed", IF onFail = "continue" THEN "ok" ELSE "error")

RetryStep(s) ==
    /\ at[s] = "backoff" /\ StepGoto(s, "attempt")
    /\ attempts' = [attempts EXCEPT ![s] = @ + 1]
    /\ UNCHANGED <<strategyVars, executionVars, cancelled, status, report>>

\* A cancelled step is left as running.
CancelBackoff(s) ==
    /\ at[s] = "backoff" /\ cancelled /\ EndStep(s, status[s], "error")

-----------------------------------------------------------------------------
JoinLevel == EndSingle \/ JoinLevelAll \/ JoinLevelFirst \/ JoinLevelAny \/ JoinCancelled
RunStep(s) == StartStep(s) \/ Succeed(s) \/ FailStep(s) \/ RetryStep(s) \/ CancelBackoff(s)

PlanNext ==
    \/ Order \/ BeginLevel \/ JoinLevel \/ CancelPlan
    \/ \E s \in Steps : RunStep(s)

\* Goroutines are scheduled, timers fire and the caller's function returns.
PlanFairness ==
    /\ WF_planVars(BeginLevel) /\ WF_planVars(JoinLevel)
    /\ \A s \in Steps : WF_planVars(RunStep(s))

PlanSpec == PlanInit /\ [][PlanNext]_planVars /\ PlanFairness

-----------------------------------------------------------------------------
PlanTypeOK ==
    /\ deps \in [Steps -> SUBSET Steps]
    /\ join \in {"all", "first", "any"} /\ onFail \in {"abort", "continue", "retry"}
    /\ execution \in {"idle", "between", "level", "returned"}
    /\ levelNo \in 0..Cardinality(Steps)
    /\ outcome \in {"none", "ok", "error"} /\ cancelled \in BOOLEAN
    /\ at \in [Steps -> {"none", "start", "attempt", "backoff", "done"}]
    /\ status \in [Steps -> {"pending", "running", "completed", "failed"}]
    /\ attempts \in [Steps -> 0..(MaxRetries + 1)]
    /\ report \in [Steps -> {"none", "ok", "error"}]

\* What a step can be reached from by its dependencies, in any number of steps.
Reaches(s, t) ==
    \E path \in [1..Cardinality(Steps) -> Steps], n \in 1..Cardinality(Steps) :
        /\ path[1] \in deps[s] /\ path[n] = t
        /\ \A i \in 1..(n - 1) : path[i + 1] \in deps[path[i]]

\* If levels are joined by "all", a step starts when all it depends on has
\* ended, and under "abort" only if all that has succeeded; a plan whose steps
\* form a circle starts none, and any other is ordered in full.
\* planner.go:134-188, executor.go:47-63, 93-112.
DependenciesFirst ==
    /\ join = "all" =>
           \A s \in Steps : at[s] # "none" =>
               \A d \in deps[s] : /\ at[d] = "done"
                                  /\ onFail = "abort" => status[d] = "completed"
    /\ outcome = "ok" => \A s \in Steps : at[s] # "none"
    /\ (\E s \in Steps : at[s] # "none") => \A s \in Steps : ~Reaches(s, s)

\* Under "all" no step is left behind when Execute returns, and under "abort"
\* it succeeds only if every step has.  executor.go:93-112, 204-211.
PlanOutcomeIsHonest ==
    outcome # "none" /\ join = "all" =>
        /\ \A s \in Steps : at[s] \in {"none", "done"}
        /\ onFail = "abort" => (outcome = "ok" <=> \A s \in Steps : status[s] = "completed")

\* The order of the steps and what Execute says of them are those of the plan.
PlansAreHonest == PlanTypeOK /\ DependenciesFirst /\ PlanOutcomeIsHonest

\* Execute returns, except that "any" waits for a success or its context.
\* executor.go:114-136.
PlanAtWork == execution \notin {"idle", "returned"} /\ join # "any"
PlansEnd == PlanAtWork ~> ~PlanAtWork
=============================================================================

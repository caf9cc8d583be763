--------------------------- MODULE Orchestration ---------------------------
(***************************************************************************)
(* Agents that run for others, pkg/orchestrator: a request makes agents    *)
(* run in parallel and joins them (parallel.go), one after the other       *)
(* (captains_chair.go), or is one step of a plan that the daemon runs      *)
(* under an instance (runtime_pipeline.go).  The Spawner keeps the state   *)
(* of every instance in the Orchestrator's table and in a file of its      *)
(* own, from which a restarted daemon recovers.                            *)
(*                                                                         *)
(* An instance's ID is new for every spawn and stands for it here.         *)
(* Configurations, prompts, outputs and durations are left out.            *)
(***************************************************************************)
EXTENDS Integers, Sequences, FiniteSets

CONSTANTS
    Requests,       \* calls of Execute, and steps of plans
    Size,           \* spawns of a request; the captain's chair has four
    MaxConcurrent,  \* Orchestrator.maxConcurrent
    MaxOps,         \* bound: calls of StopInstance, Cleanup and Shutdown
    MaxIOErrors,    \* bound: files that cannot be written or deleted
    MaxCrashes      \* bound: crashes of the daemon

ASSUME OrchestrationAssumption ==
    /\ IsFiniteSet(Requests) /\ Size \in Nat \ {0} /\ MaxConcurrent \in Nat
    /\ MaxOps \in Nat /\ MaxIOErrors \in Nat /\ MaxCrashes \in Nat

Parallel == {"all", "first", "any"}
Kinds == Parallel \cup {"chair", "step"}
Statuses == {"idle", "running", "stopped", "failed"}
Members == 1..Size
Spawns == Requests \X Members
None == 0

VARIABLES
    kind, abort,    \* per request what it is, and whether OnFail is "abort"
    req,            \* per request "idle", "wait", "returned" or "lost"
    verdict,        \* per request "none", "ok" or "error"
    picked,         \* per request the member whose result it returned, or None
    ended,          \* requests whose execCtx is cancelled
    abandoned,      \* requests whose caller's context is cancelled
    arrived,        \* per request, its spawns in the order they report
    errorsSeen,     \* per request, errors the loop of JoinFirst has received
    pc, result,     \* per spawn, where it stands and what it came to
    expired,        \* spawns whose timeout has passed
    inst,           \* Orchestrator.agents: per spawn its status, or "none"
    file,           \* FileStore: likewise; "torn" cannot be read
    ioErrors,       \* how often that has failed
    down, ops, crashes

requestVars == <<kind, abort, req, verdict, picked, ended, abandoned, arrived, errorsSeen>>
spawnVars == <<pc, result, expired>>
storeVars == <<inst, file, ioErrors>>
boundVars == <<down, ops, crashes>>
vars == <<requestVars, spawnVars, storeVars, boundVars>>

Init ==
    /\ kind = [r \in Requests |-> "step"] /\ abort = [r \in Requests |-> FALSE]
    /\ req = [r \in Requests |-> "idle"] /\ verdict = [r \in Requests |-> "none"]
    /\ picked = [r \in Requests |-> None]
    /\ ended = {} /\ abandoned = {}
    /\ arrived = [r \in Requests |-> <<>>] /\ errorsSeen = [r \in Requests |-> 0]
    /\ pc = [s \in Spawns |-> "none"] /\ result = [s \in Spawns |-> "none"]
    /\ expired = {}
    /\ inst = [s \in Spawns |-> "none"] /\ file = [s \in Spawns |-> "none"]
    /\ ioErrors = 0
    /\ down = FALSE /\ ops = 0 /\ crashes = 0

SpawnsOf(r) == {r} \X Members
Active == {s \in Spawns : inst[s] = "running"}
Failures(r) == {i \in DOMAIN arrived[r] : result[<<r, arrived[r][i]>>] = "error"}
Successes(r) == DOMAIN arrived[r] \ Failures(r)

Goto(s, place) == pc' = [pc EXCEPT ![s] = place]

\* Spawn comes to an end with an error.
Fail(s, place) == Goto(s, place) /\ result' = [result EXCEPT ![s] = "error"]

\* A file is written in place: if that fails, it may be cut short.
Saves(s, status) == file' = [file EXCEPT ![s] = status] /\ UNCHANGED ioErrors
Errors(n) == ioErrors + n <= MaxIOErrors /\ ioErrors' = ioErrors + n
SaveFails(s) ==
    /\ Errors(1)
    /\ \E left \in {file[s], "torn"} : file' = [file EXCEPT ![s] = left]

-----------------------------------------------------------------------------
\* A spawn.

\* Spawn checks the number of running instances and gives the lock up ...
MaySpawn(s) ==
    /\ pc[s] = "check" /\ Cardinality(Active) < MaxConcurrent
    /\ Goto(s, "create")
    /\ UNCHANGED <<requestVars, result, expired, storeVars, boundVars>>

\* ... or refuses: for the limit, for an unknown agent, for its policy.
Refuse(s) ==
    /\ pc[s] = "check" /\ Fail(s, "report")
    /\ UNCHANGED <<requestVars, expired, storeVars, boundVars>>

\* An instance whose first save fails stays in the table.
Create(s) ==
    /\ pc[s] = "create"
    /\ inst' = [inst EXCEPT ![s] = "idle"]
    /\ \/ Saves(s, "idle") /\ Goto(s, "created") /\ UNCHANGED result
       \/ SaveFails(s) /\ Fail(s, "report")
    /\ UNCHANGED <<requestVars, expired, boundVars>>

\* Where a spawn goes on that could not be marked as running.
AfterFailedMark(s) == IF kind[s[1]] = "step" THEN "stop" ELSE "report"

MarkRunning(s) ==
    /\ pc[s] = "created"
    /\ IF inst[s] = "none"
       THEN Fail(s, AfterFailedMark(s)) /\ UNCHANGED storeVars
       ELSE /\ inst' = [inst EXCEPT ![s] = "running"]
            /\ \/ Saves(s, "running") /\ Goto(s, "run") /\ UNCHANGED result
               \/ SaveFails(s) /\ Fail(s, AfterFailedMark(s))
    /\ UNCHANGED <<requestVars, expired, boundVars>>

\* The runner ends: it is asked to when the context is done, see Fairness.
RunReturns(s) ==
    /\ pc[s] = "run" /\ Goto(s, "ended")
    /\ \E outcome \in {"ok", "error"} : result' = [result EXCEPT ![s] = outcome]
    /\ UNCHANGED <<requestVars, expired, storeVars, boundVars>>

ContextDone(s) == s \in expired \/ s[1] \in ended

\* What became of the update is ignored, but for a step that went well.
MarkEnded(s) ==
    LET final == IF result[s] = "ok" THEN "stopped" ELSE "failed"
        step == kind[s[1]] = "step"
    IN
    /\ pc[s] = "ended"
    /\ \/ /\ inst[s] # "none" /\ inst' = [inst EXCEPT ![s] = final]
          /\ Saves(s, final) /\ UNCHANGED result
       \/ /\ inst[s] # "none" /\ inst' = [inst EXCEPT ![s] = final]
          /\ SaveFails(s)
          /\ result' = IF step THEN [result EXCEPT ![s] = "error"] ELSE result
       \/ /\ inst[s] = "none" /\ UNCHANGED storeVars
          /\ result' = IF step THEN [result EXCEPT ![s] = "error"] ELSE result
    /\ Goto(s, IF step THEN "stop" ELSE "report")
    /\ UNCHANGED <<requestVars, expired, boundVars>>

\* A step stops its instance, which nobody writes to the file.
StopStep(s) ==
    /\ pc[s] = "stop" /\ Goto(s, "report")
    /\ IF inst[s] = "none"
       THEN result' = [result EXCEPT ![s] = "error"] /\ UNCHANGED inst
       ELSE inst' = [inst EXCEPT ![s] = "stopped"] /\ UNCHANGED result
    /\ UNCHANGED <<requestVars, expired, file, ioErrors, boundVars>>

\* A step is run without a timeout.
Expire(s) ==
    /\ pc[s] = "run" /\ ~ContextDone(s) /\ kind[s[1]] # "step"
    /\ expired' = expired \cup {s}
    /\ UNCHANGED <<requestVars, pc, result, storeVars, boundVars>>

-----------------------------------------------------------------------------
\* Requests.

\* The goroutines of a parallel request, the first stage of the chair, or the
\* step, which asks for no leave.  Nothing but "all" looks at OnFail.
Start(r) ==
    /\ req[r] = "idle" /\ req' = [req EXCEPT ![r] = "wait"]
    /\ \E k \in Kinds, f \in BOOLEAN :
           /\ f => k = "all"
           /\ kind' = [kind EXCEPT ![r] = k] /\ abort' = [abort EXCEPT ![r] = f]
           /\ pc' = [s \in Spawns |->
                        IF s \in SpawnsOf(r) /\ (k \in Parallel \/ s[2] = 1)
                        THEN IF k = "step" THEN "create" ELSE "check"
                        ELSE pc[s]]
    /\ UNCHANGED <<verdict, picked, ended, abandoned, arrived, errorsSeen, result, expired,
                   storeVars, boundVars>>

\* Execute returns, and cancels what it leaves behind.
Return(r, v, member) ==
    /\ req' = [req EXCEPT ![r] = "returned"]
    /\ verdict' = [verdict EXCEPT ![r] = v]
    /\ picked' = [picked EXCEPT ![r] = member]
    /\ ended' = ended \cup {r}

\* A goroutine of a parallel request reports, and perhaps aborts the others.
Report(s) ==
    LET r == s[1] IN
    /\ pc[s] = "report" /\ kind[r] \in Parallel /\ Goto(s, "done")
    /\ arrived' = [arrived EXCEPT ![r] = Append(@, s[2])]
    /\ ended' = IF abort[r] /\ result[s] = "error"
                THEN ended \cup {r} ELSE ended
    /\ UNCHANGED <<kind, abort, req, verdict, picked, abandoned, errorsSeen, result, expired,
                   storeVars, boundVars>>

\* A stage of the chair, or a step, is over: the next stage, or the end.
NextStage(s) ==
    LET r == s[1] IN
    /\ pc[s] = "report" /\ kind[r] \notin Parallel
    /\ arrived' = [arrived EXCEPT ![r] = Append(@, s[2])]
    /\ IF kind[r] = "chair" /\ result[s] = "ok" /\ s[2] < Size
       THEN /\ pc' = [pc EXCEPT ![s] = "done", ![<<r, s[2] + 1>>] = "check"]
            /\ UNCHANGED <<req, verdict, picked, ended>>
       ELSE Goto(s, "done") /\ Return(r, result[s], s[2])
    /\ UNCHANGED <<kind, abort, abandoned, errorsSeen, result, expired, storeVars, boundVars>>

Joins(r, k) == req[r] = "wait" /\ kind[r] = k

JoinAll(r) ==
    /\ Joins(r, "all") /\ Len(arrived[r]) = Size
    /\ Return(r, IF abort[r] /\ Failures(r) # {} THEN "error" ELSE "ok", None)
    /\ UNCHANGED <<kind, abort, abandoned, arrived, errorsSeen, spawnVars, storeVars, boundVars>>

\* The channels are buffered: the first of the results is received, if there
\* is one, or one of the errors.
ReceiveResult(r) ==
    /\ Joins(r, "first")
    /\ \E i \in Successes(r) :
           /\ \A j \in Successes(r) : i <= j
           /\ Return(r, "ok", arrived[r][i])
    /\ UNCHANGED <<kind, abort, abandoned, arrived, errorsSeen, spawnVars, storeVars, boundVars>>

ReceiveError(r) ==
    /\ Joins(r, "first") /\ errorsSeen[r] < Cardinality(Failures(r))
    /\ errorsSeen' = [errorsSeen EXCEPT ![r] = @ + 1]
    /\ IF errorsSeen[r] + 1 = Size THEN Return(r, "error", None)
       ELSE UNCHANGED <<req, verdict, picked, ended>>
    /\ UNCHANGED <<kind, abort, abandoned, arrived, spawnVars, storeVars, boundVars>>

ReceiveAny(r) ==
    /\ Joins(r, "any") /\ arrived[r] # <<>>
    /\ Return(r, "ok", arrived[r][1])
    /\ UNCHANGED <<kind, abort, abandoned, arrived, errorsSeen, spawnVars, storeVars, boundVars>>

\* The select of "first" and "any" sees the caller's context.
SeeCancel(r) ==
    /\ Joins(r, "first") \/ Joins(r, "any")
    /\ r \in abandoned /\ Return(r, "error", None)
    /\ UNCHANGED <<kind, abort, abandoned, arrived, errorsSeen, spawnVars, storeVars, boundVars>>

Abandon(r) ==
    /\ req[r] = "wait" /\ r \notin abandoned
    /\ abandoned' = abandoned \cup {r} /\ ended' = ended \cup {r}
    /\ UNCHANGED <<kind, abort, req, verdict, picked, arrived, errorsSeen, spawnVars,
                   storeVars, boundVars>>

-----------------------------------------------------------------------------
\* Others use the Orchestrator, too.

Operate == ops < MaxOps /\ ops' = ops + 1

\* The instance's own context is cancelled, in which nothing runs.
StopInstance(s) ==
    /\ Operate /\ inst[s] # "none"
    /\ inst' = [inst EXCEPT ![s] = "stopped"]
    /\ UNCHANGED <<requestVars, spawnVars, file, ioErrors, down, crashes>>

Final == {s \in Spawns : inst[s] \in {"stopped", "failed"}}

\* A file that cannot be deleted is left.
Cleanup ==
    /\ Operate /\ Final # {}
    /\ inst' = [s \in Spawns |-> IF s \in Final THEN "none" ELSE inst[s]]
    /\ \E left \in SUBSET Final :
           /\ Errors(Cardinality(left))
           /\ file' = [s \in Spawns |-> IF s \in Final \ left THEN "none" ELSE file[s]]
    /\ UNCHANGED <<requestVars, spawnVars, down, crashes>>

Shutdown ==
    LET known == {s \in Spawns : inst[s] # "none"} IN
    /\ Operate /\ known # {}
    /\ inst' = [s \in Spawns |-> IF s \in known THEN "stopped" ELSE "none"]
    /\ \E failing \in SUBSET known : \E torn \in SUBSET failing :
           /\ Errors(Cardinality(failing))
           /\ file' = [s \in Spawns |-> CASE s \in torn -> "torn"
                                          [] s \in known \ failing -> "stopped"
                                          [] OTHER -> file[s]]
    /\ UNCHANGED <<requestVars, spawnVars, down, crashes>>

Saving == {s \in Spawns : pc[s] \in {"create", "created", "ended"}}

\* The daemon dies with all it has in memory, perhaps in the middle of a save.
Crash ==
    LET lost == {r \in Requests : req[r] = "wait"}
        left == {s \in Spawns : pc[s] # "none" /\ (s[1] \in lost \/ pc[s] # "done")}
    IN
    /\ crashes < MaxCrashes /\ crashes' = crashes + 1
    /\ down' = TRUE
    /\ req' = [r \in Requests |-> IF r \in lost THEN "lost" ELSE req[r]]
    /\ arrived' = [r \in Requests |-> IF r \in lost THEN <<>> ELSE arrived[r]]
    /\ errorsSeen' = [r \in Requests |-> IF r \in lost THEN 0 ELSE errorsSeen[r]]
    /\ ended' = ended \ lost /\ abandoned' = abandoned \ lost
    /\ pc' = [s \in Spawns |-> IF s \in left THEN "lost" ELSE pc[s]]
    /\ result' = [s \in Spawns |-> IF s \in left THEN "none" ELSE result[s]]
    /\ expired' = expired \ left
    /\ inst' = [s \in Spawns |-> "none"]
    /\ \/ UNCHANGED file
       \/ \E s \in Saving : file' = [file EXCEPT ![s] = "torn"]
    /\ UNCHANGED <<kind, abort, verdict, picked, ioErrors, ops>>

\* Plausible bugs: recovery takes every status as it is; it does not skip a
\* file that it cannot read.
RecoverAsIs ==
    /\ down /\ down' = FALSE
    /\ inst' = [s \in Spawns |-> IF file[s] = "torn" THEN "none" ELSE file[s]]
    /\ UNCHANGED <<requestVars, spawnVars, file, ioErrors, ops, crashes>>

\* Files that cannot be read are skipped; one that cannot be rewritten is left.
Recover ==
    /\ down /\ down' = FALSE
    /\ inst' = [s \in Spawns |-> CASE file[s] = "torn" -> "none"
                                   [] file[s] = "running" -> "failed"
                                   [] OTHER -> file[s]]
    /\ \E left \in SUBSET {s \in Spawns : file[s] = "running"} :
           /\ Errors(Cardinality(left))
           /\ file' = [s \in Spawns |-> IF file[s] = "running" /\ s \notin left
                                        THEN "failed" ELSE file[s]]
    /\ UNCHANGED <<requestVars, spawnVars, ops, crashes>>

-----------------------------------------------------------------------------
SpawnStep(s) ==
    \/ MaySpawn(s) \/ Refuse(s) \/ Create(s) \/ MarkRunning(s) \/ MarkEnded(s)
    \/ StopStep(s) \/ Report(s) \/ NextStage(s)

JoinStep(r) ==
    \/ JoinAll(r) \/ ReceiveResult(r) \/ ReceiveError(r) \/ ReceiveAny(r) \/ SeeCancel(r)

Next ==
    \/ ~down /\ \/ \E s \in Spawns : SpawnStep(s) \/ RunReturns(s) \/ Expire(s) \/ StopInstance(s)
                \/ \E r \in Requests : Start(r) \/ JoinStep(r) \/ Abandon(r)
                \/ Cleanup \/ Shutdown \/ Crash
    \/ Recover

\* Goroutines are scheduled, timers fire, and a runner whose context is done
\* comes to an end.
Fairness ==
    /\ \A s \in Spawns :
           /\ WF_vars(SpawnStep(s)) /\ WF_vars(Expire(s))
           /\ WF_vars(ContextDone(s) /\ RunReturns(s))
    /\ \A r \in Requests : WF_vars(JoinStep(r))

Spec == Init /\ [][Next]_vars /\ Fairness

-----------------------------------------------------------------------------
TypeOK ==
    /\ kind \in [Requests -> Kinds] /\ abort \in [Requests -> BOOLEAN]
    /\ req \in [Requests -> {"idle", "wait", "returned", "lost"}]
    /\ verdict \in [Requests -> {"none", "ok", "error"}]
    /\ picked \in [Requests -> Members \cup {None}]
    /\ ended \in SUBSET Requests /\ abandoned \in SUBSET Requests
    /\ arrived \in [Requests -> Seq(Members)]
    /\ errorsSeen \in [Requests -> 0..Size]
    /\ pc \in [Spawns -> {"none", "check", "create", "created", "run", "ended", "stop",
                          "report", "done", "lost"}]
    /\ result \in [Spawns -> {"none", "ok", "error"}]
    /\ expired \in SUBSET Spawns
    /\ inst \in [Spawns -> Statuses \cup {"none"}]
    /\ file \in [Spawns -> Statuses \cup {"none", "torn"}]
    /\ ioErrors \in 0..MaxIOErrors
    /\ down \in BOOLEAN /\ ops \in 0..MaxOps /\ crashes \in 0..MaxCrashes

\* An instance that both the table and its file call running has a run, whoever
\* stops, cleans up, shuts down or restarts: it takes a slot of the limit for as
\* long as that run lasts.  A table that disagrees with the file says that a
\* save has failed, and then the slot may be lost.  orchestrator.go:88-181.
RunningIsLive ==
    \A s \in Spawns : inst[s] = "running" /\ file[s] = "running" => pc[s] \in {"run", "ended"}

\* What a request that has returned says of its spawns.  "all" waits for
\* every one and fails for an abort only; "first" gives up only if all have
\* failed or the caller has, and returns the first that succeeded; the chair
\* succeeds with its last stage, to which every other has led.
\* parallel.go:80-234, captains_chair.go:50-121.
JoinsAreHonest ==
    \A r \in Requests : req[r] = "returned" =>
        CASE kind[r] = "all" ->
                 /\ \A s \in SpawnsOf(r) : pc[s] = "done"
                 /\ verdict[r] = "error" <=> abort[r] /\ \E s \in SpawnsOf(r) : result[s] = "error"
          [] kind[r] = "first" ->
                 IF verdict[r] = "ok" THEN result[<<r, picked[r]>>] = "ok"
                 ELSE r \in abandoned \/ \A s \in SpawnsOf(r) : result[s] = "error"
          [] kind[r] = "any" ->
                 IF verdict[r] = "ok" THEN picked[r] = Head(arrived[r]) ELSE r \in abandoned
          [] kind[r] = "chair" ->
                 verdict[r] = "ok" <=> \A s \in SpawnsOf(r) : result[s] = "ok"
          [] OTHER -> verdict[r] = result[<<r, 1>>]

\* What the registry, its files and the callers are told of agents is true.
AgentsAreHonest == TypeOK /\ RunningIsLive /\ JoinsAreHonest

\* Every request comes to an end, however its runs fare and whoever stops
\* them; but a step ends with its run, which nothing here ends in time.
\* parallel.go:133-140, spawner.go:106-125, runtime_pipeline.go:287.
RunsStep(r) == kind[r] = "step" /\ pc[<<r, 1>>] = "run" /\ r \notin ended
RequestsAtWork == \E r \in Requests : req[r] = "wait" /\ ~RunsStep(r)
RequestsReturn == RequestsAtWork ~> ~RequestsAtWork
=============================================================================

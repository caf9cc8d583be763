----------------------------- MODULE ToolCalls -----------------------------
(***************************************************************************)
(* Tool calls, pkg/toolexecutor (executor.go, sandbox_integration.go):     *)
(* ExecuteWithRetry runs Execute up to MaxAttempts times.  An attempt      *)
(* looks the tool up, passes the policy, the approval and the sandbox      *)
(* gate, and runs the tool's handler in a goroutine.  That goroutine       *)
(* outlives the attempt when the attempt ends by its timeout.              *)
(*                                                                         *)
(* An approval is its verdict here; module Approvals is how it comes       *)
(* about, and shows that it comes.  Policy, parameters and paths are a     *)
(* verdict too.  Outputs, metadata and audit records are left out.         *)
(***************************************************************************)
EXTENDS Integers, FiniteSets

CONSTANTS
    Calls,      \* calls of ExecuteWithRetry
    Tools,      \* tool names
    ToolOf,     \* per call, the tool it names
    KeyOf,      \* per call, the key of its sandbox: its session or its agent
    Offered,    \* definitions that tools are registered with
    None,       \* stands for "no definition"
    MaxAttempts,\* retryConfig.MaxAttempts
    MaxChanges  \* bound: registrations and removals of tools

\* What Execute asks of a tool's definition.
Definition == [plugin : BOOLEAN, risky : BOOLEAN, sensitive : BOOLEAN,
               sandbox : BOOLEAN, approval : BOOLEAN]

ASSUME CallAssumption ==
    /\ ToolOf \in [Calls -> Tools] /\ DOMAIN KeyOf = Calls
    /\ Offered \subseteq Definition /\ None \notin Definition
    /\ MaxAttempts \in Nat \ {0} /\ MaxChanges \in Nat

VARIABLES
    registry,   \* per name the definition, None if there is none
    changes,
    pc,         \* where the call stands
    attempt,    \* the loop variable of ExecuteWithRetry
    def,        \* per attempt, the definition it looked up
    outcome,    \* per attempt, how it ended, "none" before
    cancelled,  \* calls whose context was cancelled
    expired,    \* calls whose handler's timeout has passed
    run,        \* per attempt, its handler's goroutine
    sandboxes,  \* the keys of SandboxManager.sandboxes
    approved,   \* history: attempts that were approved
    gated       \* history: attempts that passed the sandbox gate

callVars == <<pc, attempt, def, outcome, cancelled, expired, approved, gated>>
vars == <<registry, changes, callVars, run, sandboxes>>

Keys == {KeyOf[c] : c \in Calls}
Attempts == Calls \X (1..MaxAttempts)
Now(c) == <<c, attempt[c]>>

\* A plausible bug: the text of a denial counts as one that may pass.
TransientWithDenial == {"timeout", "transient", "denied"}

\* isRetryableToolError looks for markers in an error's text, whatever the error
\* is.  The text of a timeout has one and that of a denial none; in all others
\* they may be part of a name, a parameter, a path or a cause: "transient" stands
\* for an error with a marker in its text.
Transient == {"timeout", "transient"}
Outcomes == {"ok", "refused", "denied", "failed"} \cup Transient

\* A plugin's tool may also need an approval for the plugin's permissions.
RequiresApproval(d) == d.approval \/ (d.plugin /\ d.sensitive)

\* A sandbox mode of "off" changes nothing: registration has asked for a
\* sandbox for every tool of a risky category.
RequiresSandbox(d) == d.sandbox \/ d.risky

\* What RegisterTool and RegisterPluginTool make of a definition.
Registered(d) == [d EXCEPT !.sandbox = @ \/ d.risky,
                           !.approval = @ \/ (d.risky /\ ~d.plugin)]

Init ==
    /\ registry = [t \in Tools |-> None] /\ changes = 0
    /\ pc = [c \in Calls |-> "idle"]
    /\ attempt = [c \in Calls |-> 1]
    /\ def = [a \in Attempts |-> None]
    /\ outcome = [a \in Attempts |-> "none"]
    /\ cancelled = {} /\ expired = {}
    /\ run = [a \in Attempts |-> "none"]
    /\ sandboxes = {}
    /\ approved = {} /\ gated = {}

-----------------------------------------------------------------------------
\* Tools are registered, replaced and removed under attempts that have looked
\* them up.
Change(t, d) ==
    /\ changes < MaxChanges
    /\ changes' = changes + 1
    /\ registry' = [registry EXCEPT ![t] = d]
    /\ UNCHANGED <<callVars, run, sandboxes>>

RegisterTool(t) == \E d \in Offered : Change(t, Registered(d))
UnregisterTool(t) == registry[t] # None /\ Change(t, None)

-----------------------------------------------------------------------------
\* A call.

Goto(c, place) == pc' = [pc EXCEPT ![c] = place]

\* Where an attempt goes on with definition d after the approval.
AfterApproval(d) == IF RequiresSandbox(d) THEN "sandbox" ELSE "ready"

\* Plausible bugs: one attempt too many; the backoff of a cancelled call.
FinishOffByOne(c, result) ==
    /\ outcome' = [outcome EXCEPT ![Now(c)] = result]
    /\ Goto(c, IF result \in Transient /\ attempt[c] <= MaxAttempts /\ c \notin cancelled
               THEN "backoff" ELSE "done")
    /\ UNCHANGED <<registry, changes, attempt, def, cancelled, expired, approved, gated,
                   run, sandboxes>>

FinishIgnoresCancel(c, result) ==
    /\ outcome' = [outcome EXCEPT ![Now(c)] = result]
    /\ Goto(c, IF result \in Transient /\ attempt[c] < MaxAttempts THEN "backoff" ELSE "done")
    /\ UNCHANGED <<registry, changes, attempt, def, cancelled, expired, approved, gated,
                   run, sandboxes>>

\* Execute returns.  ExecuteWithRetry returns too, or backs off; a call that
\* is cancelled does not wait for its next attempt.
Finish(c, result) ==
    /\ outcome' = [outcome EXCEPT ![Now(c)] = result]
    /\ Goto(c, IF result \in Transient /\ attempt[c] < MaxAttempts /\ c \notin cancelled
               THEN "backoff" ELSE "done")
    /\ UNCHANGED <<registry, changes, attempt, def, cancelled, expired, approved, gated,
                   run, sandboxes>>

Begin(c) ==
    /\ pc[c] = "idle" /\ Goto(c, "execute")
    /\ UNCHANGED <<registry, changes, attempt, def, outcome, cancelled, expired, approved,
                   gated, run, sandboxes>>

\* There is no such tool, or its policy, parameters or paths are refused, in a
\* text that has the tool's name, the parameters or the paths in it.
Refuse(c) == pc[c] = "execute" /\ \E result \in {"refused", "transient"} : Finish(c, result)

LookUp(c) ==
    LET d == registry[ToolOf[c]] IN
    /\ pc[c] = "execute" /\ d # None
    /\ def' = [def EXCEPT ![Now(c)] = d]
    /\ Goto(c, IF RequiresApproval(d) THEN "approval" ELSE AfterApproval(d))
    /\ UNCHANGED <<registry, changes, attempt, outcome, cancelled, expired, approved,
                   gated, run, sandboxes>>

\* RequestApproval returns that the attempt is approved, ...
Approve(c) ==
    /\ pc[c] = "approval" /\ Goto(c, AfterApproval(def[Now(c)]))
    /\ approved' = approved \cup {Now(c)}
    /\ UNCHANGED <<registry, changes, attempt, def, outcome, cancelled, expired, gated,
                   run, sandboxes>>

\* ... or that it is denied, or an error: its timeout, or one of the chat.
Deny(c) ==
    /\ pc[c] = "approval"
    /\ \E result \in {"denied", "failed", "transient"} : Finish(c, result)

\* GetOrCreateSandbox looks the key up; if it has no sandbox, or one that does not
\* run any more, it creates one without the lock, starts it and enters it.
FindSandbox(c) ==
    /\ pc[c] = "sandbox"
    /\ (KeyOf[c] \in sandboxes /\ Goto(c, "gate")) \/ Goto(c, "create")
    /\ UNCHANGED <<registry, changes, attempt, def, outcome, cancelled, expired, approved,
                   gated, run, sandboxes>>

CreateSandbox(c) ==
    /\ pc[c] = "create" /\ Goto(c, "gate")
    /\ sandboxes' = sandboxes \cup {KeyOf[c]}
    /\ UNCHANGED <<registry, changes, attempt, def, outcome, cancelled, expired, approved,
                   gated, run>>

\* A command is tried in the sandbox.
PassGate(c) ==
    /\ pc[c] = "gate" /\ Goto(c, "ready")
    /\ gated' = gated \cup {Now(c)}
    /\ UNCHANGED <<registry, changes, attempt, def, outcome, cancelled, expired, approved,
                   run, sandboxes>>

\* It cannot be created or started, or the command fails in it.
SandboxFails(c) ==
    /\ pc[c] \in {"create", "gate"}
    /\ \E result \in {"failed", "transient"} : Finish(c, result)

\* A plausible bug: the tool is looked up again for its handler.
StartLatestHandler(c) ==
    /\ pc[c] = "ready" /\ Goto(c, "run")
    /\ run' = [run EXCEPT ![Now(c)] = "running"]
    /\ expired' = expired \ {c}
    /\ def' = IF registry[ToolOf[c]] = None THEN def
              ELSE [def EXCEPT ![Now(c)] = registry[ToolOf[c]]]
    /\ UNCHANGED <<registry, changes, attempt, outcome, cancelled, approved, gated,
                   sandboxes>>

\* The handler's goroutine starts, under a new timeout.
StartHandler(c) ==
    /\ pc[c] = "ready" /\ Goto(c, "run")
    /\ run' = [run EXCEPT ![Now(c)] = "running"]
    /\ expired' = expired \ {c}
    /\ UNCHANGED <<registry, changes, attempt, def, outcome, cancelled, approved, gated,
                   sandboxes>>

\* The select at the end of Execute: if the result is there and the context is
\* done, either is taken.
TakeResult(c) ==
    /\ pc[c] = "run" /\ run[Now(c)] # "running"
    /\ Finish(c, run[Now(c)])

TimeOut(c) ==
    /\ pc[c] = "run" /\ c \in expired \cup cancelled
    /\ Finish(c, "timeout")

\* The select of ExecuteWithRetry, likewise.
Retry(c) ==
    /\ pc[c] = "backoff" /\ Goto(c, "execute")
    /\ attempt' = [attempt EXCEPT ![c] = @ + 1]
    /\ UNCHANGED <<registry, changes, def, outcome, cancelled, expired, approved, gated,
                   run, sandboxes>>

GiveUp(c) ==
    /\ pc[c] = "backoff" /\ c \in cancelled /\ Goto(c, "done")
    /\ UNCHANGED <<registry, changes, attempt, def, outcome, cancelled, expired, approved,
                   gated, run, sandboxes>>

-----------------------------------------------------------------------------
\* What happens around a call: its handler's time is over, the run it belongs
\* to is aborted, a handler returns, in its attempt or long after.

Expire(c) ==
    /\ pc[c] = "run" /\ c \notin expired
    /\ expired' = expired \cup {c}
    /\ UNCHANGED <<registry, changes, pc, attempt, def, outcome, cancelled, approved, gated,
                   run, sandboxes>>

Cancel(c) ==
    /\ pc[c] \notin {"idle", "done"} /\ c \notin cancelled
    /\ cancelled' = cancelled \cup {c}
    /\ UNCHANGED <<registry, changes, pc, attempt, def, outcome, expired, approved, gated,
                   run, sandboxes>>

HandlerReturns(a) ==
    /\ run[a] = "running"
    /\ \E result \in {"ok", "failed", "transient"} : run' = [run EXCEPT ![a] = result]
    /\ UNCHANGED <<registry, changes, callVars, sandboxes>>

-----------------------------------------------------------------------------
Step(c) ==
    \/ Refuse(c) \/ LookUp(c) \/ Approve(c) \/ Deny(c)
    \/ FindSandbox(c) \/ CreateSandbox(c) \/ PassGate(c) \/ SandboxFails(c)
    \/ StartHandler(c) \/ TakeResult(c) \/ TimeOut(c) \/ Retry(c) \/ GiveUp(c)

Next ==
    \/ \E t \in Tools : RegisterTool(t) \/ UnregisterTool(t)
    \/ \E c \in Calls : Begin(c) \/ Step(c) \/ Expire(c) \/ Cancel(c)
    \/ \E a \in Attempts : HandlerReturns(a)

\* Calls are scheduled, timers fire and approvals come to an end, see Approvals.
\* A handler need not return.
Fairness == \A c \in Calls : WF_vars(Step(c)) /\ WF_vars(Expire(c))

Spec == Init /\ [][Next]_vars /\ Fairness

-----------------------------------------------------------------------------
TypeOK ==
    /\ registry \in [Tools -> Definition \cup {None}] /\ changes \in 0..MaxChanges
    /\ pc \in [Calls -> {"idle", "execute", "approval", "sandbox", "create", "gate",
                         "ready", "run", "backoff", "done"}]
    /\ attempt \in [Calls -> 1..MaxAttempts]
    /\ def \in [Attempts -> Definition \cup {None}]
    /\ outcome \in [Attempts -> Outcomes \cup {"none"}]
    /\ cancelled \in SUBSET Calls /\ expired \in SUBSET Calls
    /\ run \in [Attempts -> {"none", "running", "ok", "failed", "transient"}]
    /\ sandboxes \in SUBSET Keys
    /\ approved \in SUBSET Attempts /\ gated \in SUBSET Attempts

\* A handler runs behind the gates that its own definition asks for, and
\* every attempt passes them anew, whatever becomes of the tool's registration
\* and whatever was decided for an earlier attempt.  executor.go:519-687.
RunsAreGated ==
    \A a \in Attempts : run[a] # "none" =>
        /\ RequiresApproval(def[a]) => a \in approved
        /\ RequiresSandbox(def[a]) => a \in gated

\* A handler runs again only if every attempt before it ended with an error whose
\* text says that it may pass: none was denied by a user, none ended well.  If a
\* handler ran in such an attempt, it failed with that error itself, or it was
\* given up for its timeout, and then it may still be running or have succeeded
\* after all.  executor.go:795-835, 1078-1112.
RerunsFollowFailures ==
    \A c \in Calls, m, n \in 1..MaxAttempts :
        m < n /\ run[<<c, n>>] # "none" =>
            /\ outcome[<<c, m>>] \in {"timeout", "transient"}
            /\ run[<<c, m>>] \in {"running", "ok", "failed"} => outcome[<<c, m>>] = "timeout"
            /\ outcome[<<c, m>>] = "timeout" => run[<<c, m>>] # "none"

\* A call that was cancelled starts no other attempt, unless it was already
\* waiting for one.  executor.go:823-834.
CancelEndsRetries ==
    [][\A c \in Calls : c \in cancelled /\ pc[c] # "backoff" =>
          pc'[c] # "backoff" /\ attempt'[c] = attempt[c]]_vars

\* Every call returns, also if its handlers never do.  executor.go:667-777.
CallsReturn == \A c \in Calls : pc[c] = "execute" ~> pc[c] = "done"

=============================================================================

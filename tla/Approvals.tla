----------------------------- MODULE Approvals -----------------------------
(***************************************************************************)
(* Approvals of tool calls, pkg/toolexecutor (approval.go,                 *)
(* chat_approval.go, allowlist.go).                                        *)
(*                                                                         *)
(* A request has two goroutines.  The one in ApprovalManager waits for the *)
(* other's result or for the timeout.  The other, in ChatApprovalHandler,  *)
(* looks into the allowlist, puts the request into h.pending, announces it *)
(* in a chat and waits for a response or for the end of its context.       *)
(*                                                                         *)
(* Users answer with ResolveApproval, from several chats at once; "always" *)
(* first enters the tool in the allowlist: in memory, under its lock, and  *)
(* in its file, written in place under the read lock.                      *)
(*                                                                         *)
(* An allowlist entry is a tool's name, as requests carry no arguments.    *)
(* Nothing in the program removes an entry.                                *)
(***************************************************************************)
EXTENDS Integers, FiniteSets

CONSTANTS
    Requests,   \* request IDs
    RiskyTools,
    Users,      \* those who answer requests
    Nothing,       \* stands for "no request", "no tool" and "no list"
    MaxAnswers, \* bound: calls of ResolveApproval
    MaxCrashes  \* bound: ends of the program

ASSUME ApprovalAssumption ==
    /\ Nothing \notin Requests \cup RiskyTools
    /\ \A list \in SUBSET RiskyTools : list # Nothing
    /\ {MaxAnswers, MaxCrashes} \subseteq Nat

Actions == {"once", "always", "deny"}

VARIABLES
    tool,       \* per request, the tool it is for, None before it is made
    manager,    \* per request, "new", "waiting", or what RequestApproval returned
    over,       \* requests whose context is done
    handler,    \* per request, where the ChatApprovalHandler's goroutine stands
    answer,     \* per request, its response channel, "none" when it is empty
    user,       \* per user, where ResolveApproval stands
    allowlist,  \* the tools in the AllowlistManager's memory
    disk,       \* the tools in its file, None if the file is cut short
    up,         \* the program is running
    answers, crashes,
    first,      \* history: per request, the first response sent to it
    saved,      \* history: tools whose entry a user was told is saved
    broken      \* history: a write of the file was cut short

requestVars == <<tool, manager, over, handler, answer, first>>
listVars    == <<allowlist, disk, saved, broken>>
programVars == <<up, answers, crashes>>
approvalVars == <<requestVars, listVars, user, programVars>>

Idle == [at |-> "idle", id |-> Nothing, action |-> "none", copy |-> {}]

\* The keys of h.pending.
Pending == {r \in Requests : handler[r] \in {"forwarding", "waiting"}}

\* Users who hold the allowlist's read lock.
Writers == {u \in Users : user[u].at = "write"}

ApprovalInit ==
    /\ tool = [r \in Requests |-> Nothing]
    /\ manager = [r \in Requests |-> "new"]
    /\ over = {}
    /\ handler = [r \in Requests |-> "none"]
    /\ answer = [r \in Requests |-> "none"]
    /\ first = [r \in Requests |-> "none"]
    /\ user = [u \in Users |-> Idle]
    /\ allowlist = {} /\ disk = {} /\ saved = {} /\ broken = FALSE
    /\ up = TRUE /\ answers = 0 /\ crashes = 0

-----------------------------------------------------------------------------
\* ApprovalManager.RequestApproval.

\* It starts the handler.
RequestApproval(r, t) ==
    /\ up /\ manager[r] = "new"
    /\ tool' = [tool EXCEPT ![r] = t]
    /\ manager' = [manager EXCEPT ![r] = "waiting"]
    /\ handler' = [handler EXCEPT ![r] = "asked"]
    /\ UNCHANGED <<over, answer, first, listVars, user, programVars>>

\* The timeout passes, or the caller is cancelled, perhaps before the request.
EndContext(r) ==
    /\ manager[r] = "waiting" /\ r \notin over
    /\ over' = over \cup {r}
    /\ UNCHANGED <<tool, manager, handler, answer, first, listVars, user, programVars>>

\* When it returns, its context ends.
Return(r, verdict) ==
    /\ manager[r] = "waiting"
    /\ manager' = [manager EXCEPT ![r] = verdict]
    /\ over' = over \cup {r}
    /\ UNCHANGED <<tool, handler, answer, first, listVars, user, programVars>>

TakeAnswer(r) == handler[r] \in {"approved", "denied", "failed"} /\ Return(r, handler[r])

ApprovalTimesOut(r) == r \in over /\ Return(r, "timeout")

-----------------------------------------------------------------------------
\* ChatApprovalHandler.RequestApproval.

Handler(r, state) ==
    /\ handler' = [handler EXCEPT ![r] = state]
    /\ UNCHANGED <<tool, manager, over, first, listVars, user, programVars>>

Ask(r) ==
    /\ handler[r] = "asked"
    /\ Handler(r, IF tool[r] \in allowlist THEN "approved" ELSE "forwarding")
    /\ UNCHANGED answer

Forward(r) ==
    /\ handler[r] = "forwarding"
    /\ Handler(r, "waiting") \/ Handler(r, "failed")
    /\ UNCHANGED answer

Hear(r) ==
    /\ handler[r] = "waiting" /\ answer[r] # "none"
    /\ Handler(r, IF answer[r] = "deny" THEN "denied" ELSE "approved")
    /\ answer' = [answer EXCEPT ![r] = "none"]

\* A plausible bug: the handler waits for a response only.
LapseNever(r) ==
    /\ handler[r] = "waiting" /\ r \in over
    /\ UNCHANGED approvalVars

Lapse(r) ==
    /\ handler[r] = "waiting" /\ r \in over
    /\ Handler(r, "failed")
    /\ UNCHANGED answer

-----------------------------------------------------------------------------
\* ResolveApproval, step by step.

At(u, place) == [user EXCEPT ![u].at = place]

\* The request is looked up; its channel is kept.
Resolve(u, r, action) ==
    /\ user[u].at = "idle" /\ r \in Pending
    /\ answers < MaxAnswers /\ answers' = answers + 1
    /\ user' = [user EXCEPT ![u] = [at |-> IF action = "always" THEN "add" ELSE "send",
                                    id |-> r, action |-> action, copy |-> {}]]
    /\ UNCHANGED <<requestVars, listVars, up, crashes>>

AddEntry(u) ==
    /\ user[u].at = "add"
    /\ allowlist' = allowlist \cup {tool[user[u].id]}
    /\ user' = At(u, "save")
    /\ UNCHANGED <<requestVars, disk, saved, broken, programVars>>

\* A plausible bug: Add without the lock.
AddUnlocked(u) == AddEntry(u)

\* Add takes the lock, which waits for those who save.
Add(u) == Writers = {} /\ AddEntry(u)

\* Save takes the read lock, and truncates and writes the file.
OpenFile(u) ==
    /\ user[u].at = "save"
    /\ disk' = Nothing
    /\ user' = [user EXCEPT ![u].at = "write", ![u].copy = allowlist]
    /\ UNCHANGED <<requestVars, allowlist, saved, broken, programVars>>

WriteFile(u) ==
    /\ user[u].at = "write"
    /\ disk' = user[u].copy
    /\ saved' = saved \cup {tool[user[u].id]}
    /\ user' = [user EXCEPT ![u].at = "send", ![u].copy = {}]
    /\ UNCHANGED <<requestVars, allowlist, broken, programVars>>

\* Save fails, before it opens the file or while it writes: the user is given
\* the error, and the request no response.
SaveFails(u) ==
    /\ user[u].at \in {"save", "write"}
    /\ broken' = (broken \/ user[u].at = "write")
    /\ user' = [user EXCEPT ![u] = Idle]
    /\ UNCHANGED <<requestVars, allowlist, disk, saved, programVars>>

\* A plausible bug: a response replaces the one that was not yet received.
SendOverwrites(u) ==
    LET r == user[u].id IN
    /\ user[u].at = "send"
    /\ answer' = [answer EXCEPT ![r] = user[u].action]
    /\ first' = IF first[r] = "none" THEN [first EXCEPT ![r] = user[u].action] ELSE first
    /\ user' = [user EXCEPT ![u] = Idle]
    /\ UNCHANGED <<tool, manager, over, handler, listVars, programVars>>

\* The response goes into the request's channel, unless one is in it; the
\* handler may have given up meanwhile.
Send(u) ==
    LET r == user[u].id
        room == answer[r] = "none"
    IN
    /\ user[u].at = "send"
    /\ answer' = IF room THEN [answer EXCEPT ![r] = user[u].action] ELSE answer
    /\ first' = IF room /\ first[r] = "none"
                THEN [first EXCEPT ![r] = user[u].action] ELSE first
    /\ user' = [user EXCEPT ![u] = Idle]
    /\ UNCHANGED <<tool, manager, over, handler, listVars, programVars>>

-----------------------------------------------------------------------------
\* The program ends with all it has in memory.  It starts again if it can
\* parse the file.
Crash ==
    /\ up /\ crashes < MaxCrashes
    /\ up' = FALSE /\ crashes' = crashes + 1
    /\ tool' = [r \in Requests |-> Nothing]
    /\ manager' = [r \in Requests |-> "new"]
    /\ over' = {}
    /\ handler' = [r \in Requests |-> "none"]
    /\ answer' = [r \in Requests |-> "none"]
    /\ first' = [r \in Requests |-> "none"]
    /\ user' = [u \in Users |-> Idle]
    /\ allowlist' = {}
    /\ broken' = (broken \/ Writers # {})
    /\ UNCHANGED <<disk, saved, answers>>

Restart ==
    /\ ~up /\ disk # Nothing
    /\ up' = TRUE
    /\ allowlist' = disk
    /\ UNCHANGED <<requestVars, disk, saved, broken, user, answers, crashes>>

-----------------------------------------------------------------------------
Manage(r) == TakeAnswer(r) \/ ApprovalTimesOut(r)
Handle(r) == Ask(r) \/ Forward(r) \/ Hear(r) \/ Lapse(r)
AnswerStep(u) ==
    \/ \E r \in Requests, action \in Actions : Resolve(u, r, action)
    \/ Add(u) \/ OpenFile(u) \/ WriteFile(u) \/ SaveFails(u) \/ Send(u)

ApprovalNext ==
    \/ \E r \in Requests, t \in RiskyTools : RequestApproval(r, t)
    \/ \E r \in Requests : Manage(r) \/ Handle(r) \/ EndContext(r)
    \/ \E u \in Users : AnswerStep(u)
    \/ Crash \/ Restart

\* Goroutines are scheduled, so that one that waits for a result or a timeout
\* goes on with either, and announcing a request in a chat comes to an end.
\* Nobody has to answer.
ApprovalFairness == \A r \in Requests :
    WF_approvalVars(Manage(r) \/ EndContext(r)) /\ WF_approvalVars(Handle(r))

ApprovalSpec == ApprovalInit /\ [][ApprovalNext]_approvalVars /\ ApprovalFairness

-----------------------------------------------------------------------------
ApprovalTypeOK ==
    /\ tool \in [Requests -> RiskyTools \cup {Nothing}]
    /\ manager \in [Requests -> {"new", "waiting", "approved", "denied", "failed", "timeout"}]
    /\ over \subseteq Requests
    /\ handler \in [Requests -> {"none", "asked", "forwarding", "waiting", "approved",
                                 "denied", "failed"}]
    /\ answer \in [Requests -> Actions \cup {"none"}]
    /\ first \in [Requests -> Actions \cup {"none"}]
    /\ user \in [Users -> [at : {"idle", "add", "save", "write", "send"},
                           id : Requests \cup {Nothing}, action : Actions \cup {"none"},
                           copy : SUBSET RiskyTools]]
    /\ allowlist \in SUBSET RiskyTools /\ saved \in SUBSET RiskyTools
    /\ disk \in (SUBSET RiskyTools) \cup {Nothing}
    /\ broken \in BOOLEAN /\ up \in BOOLEAN
    /\ answers \in 0..MaxAnswers /\ crashes \in 0..MaxCrashes

\* The first response a request gets decides it, whatever other users send
\* meanwhile or later; without a response it is approved only if its tool is
\* in the allowlist.  chat_approval.go:67-137.
FirstAnswerDecides == \A r \in Requests :
    /\ manager[r] = "approved" =>
          first[r] \in {"once", "always"} \/ (first[r] = "none" /\ tool[r] \in allowlist)
    /\ manager[r] = "denied" => first[r] = "deny"

\* What a user was told is allowed always stays so: in memory, in the file and
\* after a restart.  The file is cut short only while it is written, or after
\* a write was cut short.  chat_approval.go:146-165, allowlist.go:83-142.
AlwaysIsKept ==
    /\ up => saved \subseteq allowlist
    /\ disk # Nothing => saved \subseteq disk
    /\ disk = Nothing => Writers # {} \/ broken

\* RequestApproval returns, and its request leaves h.pending, also when nobody
\* answers, a user answers too late or the chat fails.  approval.go:67-125,
\* chat_approval.go:92-111.
Open(r) == manager[r] = "waiting" \/ r \in Pending
RequestsEnd == \A r \in Requests : Open(r) ~> ~Open(r)

=============================================================================

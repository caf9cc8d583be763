------------------------------- MODULE Nodes -------------------------------
(***************************************************************************)
(* Nodes and what they are asked to do, pkg/node: a registry of nodes, a   *)
(* monitor that marks the silent ones as offline, and invocations, each of *)
(* which waits on the lane of its node for a response or its timeout.      *)
(*                                                                         *)
(* Whatever changes the registry is queued on lane "main", which runs one  *)
(* task at a time.  So are the methods of the gateway, those that change   *)
(* the registry twice: a task of the method enqueues the task of the       *)
(* manager, and waits for it.  Responses come by such a method as well.    *)
(*                                                                         *)
(* Invocations have distinct IDs; LastSeen is whether the node is silent.  *)
(* The daemon does not call NodeManager.Start, which loads the nodes and   *)
(* starts the monitor: both may happen here, and neither has to.           *)
(***************************************************************************)
EXTENDS Naturals, FiniteSets

CONSTANTS
    NodeIds,
    NodeCallers,    \* who calls the manager or a method, one call at a time
    Invocations,
    MaxMissed,      \* NodeConfig.MaxMissedHeartbeats
    DegradedThreshold,
    Counts,         \* bound: what the counters of a saved node may have come to
    MaxSilences     \* bound: how often nodes fall silent

ASSUME NodesAssumption ==
    IsFiniteSet(Invocations) /\ DegradedThreshold \in Nat \ {0} /\ Counts \subseteq Nat

Absent == [known |-> FALSE, online |-> FALSE, missed |-> 0, timeouts |-> 0,
           degraded |-> FALSE, granted |-> FALSE]
Nobody == "no node"
NoNodeCall == [op |-> "none", on |-> Nobody]

\* A node as it was saved.
SavedNodes ==
    {n \in [known : {TRUE}, online : BOOLEAN, missed : Counts, timeouts : Counts,
            degraded : BOOLEAN, granted : BOOLEAN] :
        n.degraded <=> n.timeouts >= DegradedThreshold}

VARIABLES
    node,       \* NodeRegistry.nodes
    charged,    \* history: per node, the timeouts it was loaded with
    defaultNode,
    silent,     \* nodes whose LastSeen is longer ago than HeartbeatTimeout
    silences,
    nodeCall,   \* per caller [op, on]
    nodeCallAt, \* per caller, its task of the method and its task of the manager:
                \* "idle", "queued", "task" or "wait"
    target,     \* per invocation, its node
    invocation, \* "new", "queued", "invoke", "wait", "late" or "over"
    answer,     \* "none", "answered", "timeout" or "error"
    active,     \* activeInvocations
    box,        \* invocations with a response in their channel
    responded,  \* history: invocations a response was accepted for
    toCheck,    \* nodes that the monitor's copy shows as online and silent
    marking     \* the node it is about to mark, or Nobody

callVars == <<nodeCall, nodeCallAt>>
invocationVars == <<target, invocation, answer, active, box, responded>>
monitorVars == <<toCheck, marking>>
nodeVars == <<node, charged, defaultNode, silent, silences, callVars, invocationVars, monitorVars>>

\* What LoadNodes may find.
NodeInit ==
    /\ \E known \in SUBSET NodeIds : \E saved \in [known -> SavedNodes] :
           node = [n \in NodeIds |-> IF n \in known THEN saved[n] ELSE Absent]
    /\ charged = [n \in NodeIds |-> node[n].timeouts]
    /\ defaultNode \in {Nobody} \cup {n \in NodeIds : node[n].known}
    /\ silent = {} /\ silences = 0
    /\ nodeCall = [c \in NodeCallers |-> NoNodeCall]
    /\ nodeCallAt = [c \in NodeCallers \X {"method", "manager"} |-> "idle"]
    /\ target = [i \in Invocations |-> Nobody]
    /\ invocation = [i \in Invocations |-> "new"] /\ answer = [i \in Invocations |-> "none"]
    /\ active = {} /\ box = {} /\ responded = {} /\ toCheck = {} /\ marking = Nobody

-----------------------------------------------------------------------------
\* The registry.  RegisterNode keeps what it knows of a node, but for its
\* being online; a new node has no permission.
RegisterNode(n) ==
    /\ node' = [node EXCEPT ![n] =
                   IF @.known THEN [@ EXCEPT !.online = TRUE, !.missed = 0]
                   ELSE [Absent EXCEPT !.known = TRUE, !.online = TRUE]]
    /\ silent' = silent \ {n}
    /\ UNCHANGED <<defaultNode, invocationVars>>

\* The queued invocations of the node are dropped as well.
UnregisterNode(n) ==
    /\ node' = [node EXCEPT ![n] = Absent]
    /\ defaultNode' = IF defaultNode = n THEN Nobody ELSE defaultNode
    /\ invocation' = [i \in Invocations |->
           IF node[n].known /\ invocation[i] = "queued" /\ target[i] = n
           THEN "over" ELSE invocation[i]]
    /\ answer' = [i \in Invocations |->
           IF invocation'[i] # invocation[i] THEN "error" ELSE answer[i]]
    /\ UNCHANGED <<silent, target, active, box, responded>>

SetPermission(n, allow) ==
    /\ node' = [node EXCEPT ![n].granted = IF node[n].known THEN allow ELSE @]
    /\ UNCHANGED <<defaultNode, silent, invocationVars>>

SetDefaultNode(n) ==
    /\ defaultNode' = IF node[n].known THEN n ELSE defaultNode
    /\ UNCHANGED <<node, silent, invocationVars>>

HandleHeartbeat(n) ==
    /\ node' = IF node[n].known
               THEN [node EXCEPT ![n].online = TRUE, ![n].missed = 0] ELSE node
    /\ silent' = IF node[n].known THEN silent \ {n} ELSE silent
    /\ UNCHANGED <<defaultNode, invocationVars>>

\* Variant: a response is taken for an invocation that is no longer waited for.
HandleResponseLate(i) ==
    /\ box' = box \cup {i} /\ responded' = responded \cup {i}
    /\ invocation' = [invocation EXCEPT ![i] = "over"]
    /\ answer' = [answer EXCEPT ![i] = "answered"]
    /\ UNCHANGED <<node, defaultNode, silent, target, active>>

\* The response is put in the channel, if the invocation is active and the
\* channel is empty.
HandleResponse(i) ==
    /\ IF i \in active \ box
       THEN box' = box \cup {i} /\ responded' = responded \cup {i}
       ELSE UNCHANGED <<box, responded>>
    /\ UNCHANGED <<node, defaultNode, silent, target, invocation, answer, active>>

Perform(op, on) ==
    CASE op = "register"   -> RegisterNode(on)
      [] op = "unregister" -> UnregisterNode(on)
      [] op = "grant"      -> SetPermission(on, TRUE)
      [] op = "revoke"     -> SetPermission(on, FALSE)
      [] op = "default"    -> SetDefaultNode(on)
      [] op = "heartbeat"  -> HandleHeartbeat(on)
      [] op = "respond"    -> HandleResponse(on)

-----------------------------------------------------------------------------
\* Lane "main".
OneTask == {"heartbeat", "respond"}
TwoTasks == {"register", "unregister", "grant", "revoke", "default"}
LaneTasks == NodeCallers \X {"method", "manager"}
NoCallOf(c) == nodeCallAt[<<c, "method">>] = "idle" /\ nodeCallAt[<<c, "manager">>] = "idle"

\* Heartbeats and responses come by methods only, and these do not enqueue a
\* second task.
EnqueueCall(c, by) ==
    /\ NoCallOf(c) /\ nodeCallAt' = [nodeCallAt EXCEPT ![<<c, by>>] = "queued"]
    /\ nodeCall' \in {[nodeCall EXCEPT ![c] = call] : call \in
           [op : TwoTasks, on : NodeIds]
           \cup (IF by = "manager" THEN {} ELSE [op : {"heartbeat"}, on : NodeIds]
                                            \cup [op : {"respond"}, on : Invocations])}
    /\ UNCHANGED <<node, charged, defaultNode, silent, silences, invocationVars,
                   monitorVars>>

StartTask(t) ==
    /\ nodeCallAt[t] = "queued" /\ \A o \in LaneTasks : nodeCallAt[o] \notin {"task", "wait"}
    /\ nodeCallAt' = [nodeCallAt EXCEPT ![t] = "task"]
    /\ UNCHANGED <<node, charged, defaultNode, silent, silences, nodeCall,
                   invocationVars, monitorVars>>

CallEnds(c) ==
    /\ nodeCallAt' = [t \in LaneTasks |-> IF t[1] = c THEN "idle" ELSE nodeCallAt[t]]
    /\ nodeCall' = [nodeCall EXCEPT ![c] = NoNodeCall]

\* The parameters are refused, or the node is not paired: ensureNodePairing.
RefuseTask(c) == CallEnds(c) /\ UNCHANGED <<node, defaultNode, silent, invocationVars>>

\* The task of a method may be refused; or it has the manager enqueue the task
\* that changes the registry, and waits for it.
RunTask(t) ==
    /\ nodeCallAt[t] = "task"
    /\ LET c == t[1] IN
       \/ /\ t[2] = "manager" \/ nodeCall[c].op \in OneTask
          /\ Perform(nodeCall[c].op, nodeCall[c].on) /\ CallEnds(c)
       \/ t[2] = "method" /\ RefuseTask(c)
       \/ /\ t[2] = "method" /\ nodeCall[c].op \in TwoTasks
          /\ nodeCallAt' = [nodeCallAt EXCEPT ![t] = "wait", ![<<c, "manager">>] = "queued"]
          /\ UNCHANGED <<node, defaultNode, silent, nodeCall, invocationVars>>
    /\ UNCHANGED <<charged, silences, monitorVars>>

-----------------------------------------------------------------------------
InvGoes(i, at) == invocation' = [invocation EXCEPT ![i] = at]
InvEnds(i, r) == InvGoes(i, "over") /\ answer' = [answer EXCEPT ![i] = r]

\* InvokeCapability: without a node it is the default one.
InvokeCapability(i) ==
    /\ invocation[i] = "new"
    /\ \/ defaultNode = Nobody /\ InvEnds(i, "error") /\ UNCHANGED target
       \/ /\ target' \in {[target EXCEPT ![i] = n] : n \in
                               NodeIds \cup ({defaultNode} \ {Nobody})}
          /\ InvGoes(i, "queued") /\ UNCHANGED answer
    /\ UNCHANGED <<node, charged, defaultNode, silent, silences, callVars, active, box,
                   responded, monitorVars>>

\* The node's lane runs one at a time.
StartInvocation(i) ==
    /\ invocation[i] = "queued"
    /\ \A o \in Invocations : target[o] = target[i] =>
           invocation[o] \notin {"invoke", "wait", "late"}
    /\ InvGoes(i, "invoke")
    /\ UNCHANGED <<node, charged, defaultNode, silent, silences, callVars, target,
                   answer, active, box, responded, monitorVars>>

\* The node has to be online and allowed; it may lack the capability.
Invoke(i) ==
    /\ invocation[i] = "invoke"
    /\ \/ InvEnds(i, "error") /\ UNCHANGED active
       \/ /\ node[target[i]].online /\ node[target[i]].granted
          /\ InvGoes(i, "wait") /\ active' = active \cup {i} /\ UNCHANGED answer
    /\ UNCHANGED <<node, charged, defaultNode, silent, silences, callVars, target, box,
                   responded, monitorVars>>

TakeResponse(i) ==
    /\ invocation[i] = "wait" /\ i \in box
    /\ InvEnds(i, "answered") /\ active' = active \ {i} /\ box' = box \ {i}
    /\ UNCHANGED <<node, charged, defaultNode, silent, silences, callVars, target,
                   responded, monitorVars>>

\* The timeout may be chosen although there is a response; until the
\* invocation is no longer active, one is still accepted, and lost.
InvocationExpires(i) ==
    /\ invocation[i] = "wait" /\ InvGoes(i, "late") /\ UNCHANGED <<answer, active>>
    /\ UNCHANGED <<node, charged, defaultNode, silent, silences, callVars, target, box,
                   responded, monitorVars>>

IncrementTimeoutCount(n) ==
    node' = IF ~node[n].known THEN node ELSE
            [node EXCEPT ![n].timeouts = @ + 1,
                         ![n].degraded = @ \/ node[n].timeouts + 1 >= DegradedThreshold]

GiveUp(i) ==
    /\ invocation[i] = "late" /\ InvEnds(i, "timeout")
    /\ active' = active \ {i} /\ box' = box \ {i}
    /\ IncrementTimeoutCount(target[i])
    /\ UNCHANGED <<charged, defaultNode, silent, silences, callVars, target, responded,
                   monitorVars>>

-----------------------------------------------------------------------------
FallSilent(n) ==
    /\ silences < MaxSilences /\ n \notin silent /\ node[n].known
    /\ silences' = silences + 1 /\ silent' = silent \cup {n}
    /\ UNCHANGED <<node, charged, defaultNode, callVars, invocationVars, monitorVars>>

\* checkHeartbeats works on a copy of the nodes ...
CheckHeartbeats ==
    /\ toCheck = {} /\ marking = Nobody
    /\ toCheck' = {n \in silent : node[n].online} /\ toCheck' # {}
    /\ UNCHANGED <<node, charged, defaultNode, silent, silences, callVars,
                   invocationVars, marking>>

\* ... and on the nodes themselves, each step under a lock of its own.
MissHeartbeat(n) ==
    /\ n \in toCheck /\ marking = Nobody /\ toCheck' = toCheck \ {n}
    /\ IF ~node[n].known THEN UNCHANGED <<node, marking>>
       ELSE /\ node' = [node EXCEPT ![n].missed = @ + 1]
            /\ marking' = IF node'[n].missed >= MaxMissed THEN n ELSE Nobody
    /\ UNCHANGED <<charged, defaultNode, silent, silences, callVars, invocationVars>>

MarkNodeOffline ==
    /\ marking # Nobody /\ marking' = Nobody
    /\ node' = [node EXCEPT ![marking].online = FALSE]
    /\ UNCHANGED <<charged, defaultNode, silent, silences, callVars, invocationVars,
                   toCheck>>

InvocationStep(i) ==
    \/ StartInvocation(i) \/ Invoke(i) \/ TakeResponse(i) \/ InvocationExpires(i) \/ GiveUp(i)
MonitorStep == CheckHeartbeats \/ (\E n \in NodeIds : MissHeartbeat(n)) \/ MarkNodeOffline

NodeNext ==
    \/ \E c \in NodeCallers, by \in {"method", "manager"} : EnqueueCall(c, by)
    \/ \E t \in LaneTasks : StartTask(t) \/ RunTask(t)
    \/ \E i \in Invocations : InvokeCapability(i) \/ InvocationStep(i)
    \/ (\E n \in NodeIds : FallSilent(n)) \/ MonitorStep

\* The queue runs what it can, and timeouts pass.
NodeFairness ==
    /\ \A t \in LaneTasks : WF_nodeVars(StartTask(t) \/ RunTask(t))
    /\ \A i \in Invocations : WF_nodeVars(InvocationStep(i))

NodeSpec == NodeInit /\ [][NodeNext]_nodeVars /\ NodeFairness

-----------------------------------------------------------------------------
Timeouts(n) == {i \in Invocations : target[i] = n /\ answer[i] = "timeout"}

\* An invocation returns a response only if the node sent one for it; a node
\* has one invocation at a time, is charged with none that it answered, beyond what
\* it was saved with, and is degraded just if it has left enough of them unanswered.
InvocationsAreHonest ==
    /\ \A i \in Invocations : answer[i] = "answered" => i \in responded /\ i \notin active
    /\ active = {i \in Invocations : invocation[i] \in {"wait", "late"}}
    /\ \A i, j \in active : target[i] = target[j] => i = j
    /\ \A n \in NodeIds :
           /\ node[n].timeouts <= charged[n] + Cardinality(Timeouts(n))
           /\ node[n].degraded <=> node[n].known /\ node[n].timeouts >= DegradedThreshold

\* Whatever happens to lane "main", an invocation ends.
NodesAtWork == \E i \in Invocations : invocation[i] \notin {"new", "over"}
InvocationsEnd == NodesAtWork ~> ~NodesAtWork

\* "node.register - Register a new node": a method that is called returns.
MethodsReturn == \A c \in NodeCallers :
    nodeCallAt[<<c, "method">>] = "queued" ~> nodeCallAt[<<c, "method">>] = "idle"
=============================================================================

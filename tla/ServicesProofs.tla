--------------------------- MODULE ServicesProofs ---------------------------
(***************************************************************************)
(* Proofs about the services: the nodes, the life of the daemon, plans,    *)
(* routes and agents, each with an inductive invariant of its own, and     *)
(* about their composition.                                                *)
(***************************************************************************)
EXTENDS MCServices, TLAPS, FiniteSetTheorems, WellFoundedInduction

-----------------------------------------------------------------------------
\* The nodes.
NodeRecords == [known : BOOLEAN, online : BOOLEAN, missed : Nat, timeouts : Nat,
                degraded : BOOLEAN, granted : BOOLEAN]
NodeCalls == [op : TwoTasks \cup {"heartbeat"}, on : NodeIds]
             \cup [op : {"respond"}, on : Invocations]

NodeTypes ==
    /\ node \in [NodeIds -> NodeRecords] /\ charged \in [NodeIds -> Nat]
    /\ nodeCallAt \in [LaneTasks -> {"idle", "queued", "task", "wait"}]
    /\ DOMAIN nodeCall = NodeCallers
    /\ DOMAIN target = Invocations
    /\ invocation \in [Invocations -> {"new", "queued", "invoke", "wait", "late", "over"}]
    /\ answer \in [Invocations -> {"none", "answered", "timeout", "error"}]

\* A task on lane "main" has a call.
NodeCallInv == \A c \in NodeCallers, by \in {"method", "manager"} :
    nodeCallAt[<<c, by>>] # "idle" => nodeCall[c] \in NodeCalls

\* An invocation has no answer before it is over, and none of the node before
\* the node sent one; a node's lane holds one.
InLaneOf(i) == invocation[i] \in {"invoke", "wait", "late"}
InvocationInv ==
    /\ \A i \in Invocations : answer[i] # "none" => invocation[i] = "over"
    /\ \A i \in Invocations : answer[i] = "answered" => i \in responded
    /\ box \subseteq responded
    /\ active = {i \in Invocations : invocation[i] \in {"wait", "late"}}
    /\ \A i, j \in Invocations : target[i] = target[j] /\ InLaneOf(i) /\ InLaneOf(j) => i = j

\* What a node is charged with, beyond what it was saved with.
ChargeInv == \A n \in NodeIds :
    /\ node[n].timeouts <= charged[n] + Cardinality(Timeouts(n))
    /\ node[n].degraded <=> node[n].known /\ node[n].timeouts >= DegradedThreshold

NodeInv == NodeTypes /\ NodeCallInv /\ InvocationInv /\ ChargeInv

\* No missed heartbeat is not yet too many.
LEMMA ThresholdIsPositive == DegradedThreshold \in Nat /\ ~(0 >= DegradedThreshold)
<1>1. DegradedThreshold \in Nat /\ DegradedThreshold # 0
  BY NodesAssumption, Zenon
<1> QED BY <1>1

\* Before the first invocation all parts hold.
LEMMA NodeInitInv == NodeInit => NodeInv
<1> SUFFICES ASSUME NodeInit PROVE NodeInv
  OBVIOUS
<1> USE DEF NodeInit
<1>0. PICK known \in SUBSET NodeIds : \E saved \in [known -> SavedNodes] :
           node = [n \in NodeIds |-> IF n \in known THEN saved[n] ELSE Absent]
  OBVIOUS
<1>1. PICK saved \in [known -> SavedNodes] :
           node = [n \in NodeIds |-> IF n \in known THEN saved[n] ELSE Absent]
  BY <1>0
<1>2. \A n \in NodeIds : /\ node[n] \in NodeRecords
                         /\ node[n].degraded <=>
                                node[n].known /\ node[n].timeouts >= DegradedThreshold
  <2>1. SavedNodes \subseteq NodeRecords
        /\ \A rec \in SavedNodes : rec.known /\ (rec.degraded <=> rec.timeouts >= DegradedThreshold)
    BY NodesAssumption DEF SavedNodes, NodeRecords
  <2>2. Absent \in NodeRecords /\ ~Absent.known /\ ~Absent.degraded
    BY DEF Absent, NodeRecords
  <2> HIDE DEF NodeInit
  <2> QED BY <1>1, <2>1, <2>2
<1>3. NodeTypes
  <2>1. node \in [NodeIds -> NodeRecords]
    BY <1>1, <1>2
  <2>2. charged \in [NodeIds -> Nat]
    BY <1>2 DEF NodeRecords
  <2> QED BY <2>1, <2>2 DEF NodeTypes, LaneTasks
<1>4. NodeCallInv /\ InvocationInv
  BY DEF NodeCallInv, InvocationInv, InLaneOf
<1>5. ASSUME NEW n \in NodeIds PROVE node[n].timeouts <= charged[n] + Cardinality(Timeouts(n))
  <2>1. Timeouts(n) = {}
    BY DEF Timeouts
  <2>2. charged[n] = node[n].timeouts /\ node[n].timeouts \in Nat
    BY <1>2 DEF NodeRecords
  <2> HIDE DEF NodeInit
  <2> QED BY <2>1, <2>2, FS_EmptySet
<1>6. ChargeInv
  BY <1>2, <1>5 DEF ChargeInv
<1> QED BY <1>3, <1>4, <1>6 DEF NodeInv

\* The timeouts of a node can be counted, and are not taken back.
LEMMA TimeoutsKept ==
    ASSUME NodeTypes, NEW n,
           \A i \in Invocations : answer[i] = "timeout" =>
               answer'[i] = "timeout" /\ target'[i] = target[i]
    PROVE  /\ Cardinality(Timeouts(n)) \in Nat /\ Cardinality(Timeouts(n)') \in Nat
           /\ Cardinality(Timeouts(n)) <= Cardinality(Timeouts(n)')
<1>1. Timeouts(n) \subseteq Timeouts(n)' /\ Timeouts(n)' \subseteq Invocations
  BY DEF Timeouts
<1>2. IsFiniteSet(Timeouts(n)')
  BY <1>1, NodesAssumption, FS_Subset
<1> QED BY <1>1, <1>2, FS_Subset, FS_CardinalityType

\* The tasks of lane "main" find the calls that they were made for.
LEMMA NodeCallStep == NodeInv /\ [NodeNext]_nodeVars => NodeCallInv'
<1> SUFFICES ASSUME NodeInv, [NodeNext]_nodeVars PROVE NodeCallInv'
  OBVIOUS
<1>0. NodeTypes /\ NodeCallInv
  BY DEF NodeInv
<1>1. ASSUME NEW c \in NodeCallers, NEW by \in {"method", "manager"}, EnqueueCall(c, by)
      PROVE  NodeCallInv'
  <2>1. PICK call \in NodeCalls : nodeCall' = [nodeCall EXCEPT ![c] = call]
    BY <1>1 DEF EnqueueCall, NodeCalls
  <2>2. nodeCallAt' = [nodeCallAt EXCEPT ![<<c, by>>] = "queued"]
    BY <1>1 DEF EnqueueCall
  <2> QED BY <1>0, <2>1, <2>2 DEF NodeTypes, NodeCallInv, LaneTasks
<1>2. ASSUME NEW t \in LaneTasks, StartTask(t) PROVE NodeCallInv'
  BY <1>0, <1>2 DEF StartTask, NodeTypes, NodeCallInv, LaneTasks
<1>3. ASSUME NEW t \in LaneTasks, RunTask(t) PROVE NodeCallInv'
  <2> DEFINE c == t[1]
  <2>0. c \in NodeCallers /\ t[2] \in {"method", "manager"} /\ t = <<c, t[2]>>
    BY DEF LaneTasks
  <2>1. CASE CallEnds(c)
    <3>1. \A o \in NodeCallers, by \in {"method", "manager"} :
              nodeCallAt'[<<o, by>>] = IF o = c THEN "idle" ELSE nodeCallAt[<<o, by>>]
      BY <2>1 DEF CallEnds, LaneTasks
    <3>2. \A o \in NodeCallers \ {c} : nodeCall'[o] = nodeCall[o]
      BY <1>0, <2>1 DEF CallEnds, NodeTypes
    <3> QED BY <1>0, <3>1, <3>2 DEF NodeCallInv
  <2>2. CASE nodeCallAt' = [nodeCallAt EXCEPT ![t] = "wait", ![<<c, "manager">>] = "queued"]
             /\ nodeCall' = nodeCall
    <3>1. nodeCall[c] \in NodeCalls
      BY <1>0, <1>3, <2>0 DEF NodeCallInv, RunTask
    <3>2. \A o \in NodeCallers, by \in {"method", "manager"} :
              o # c => nodeCallAt'[<<o, by>>] = nodeCallAt[<<o, by>>]
      BY <1>0, <2>0, <2>2 DEF NodeTypes, LaneTasks
    <3> QED BY <1>0, <2>2, <3>1, <3>2 DEF NodeCallInv
  <2> QED BY <1>3, <2>1, <2>2 DEF RunTask, RefuseTask
<1>4. CASE UNCHANGED callVars
  BY <1>0, <1>4 DEF callVars, NodeCallInv
<1> QED BY <1>1, <1>2, <1>3, <1>4 DEF NodeNext, InvocationStep, MonitorStep, InvokeCapability,
        StartInvocation, Invoke, TakeResponse, InvocationExpires, GiveUp, FallSilent,
        CheckHeartbeats, MissHeartbeat, MarkNodeOffline, nodeVars

\* What a step does to the calls, besides.
LEMMA NodeLaneTypeStep ==
    ASSUME NodeInv, [NodeNext]_nodeVars
    PROVE  /\ nodeCallAt' \in [LaneTasks -> {"idle", "queued", "task", "wait"}]
           /\ DOMAIN nodeCall' = NodeCallers
<1>0. NodeTypes
  BY DEF NodeInv
<1>1. ASSUME NEW c \in NodeCallers, NEW by \in {"method", "manager"}, EnqueueCall(c, by)
      PROVE  /\ nodeCallAt' \in [LaneTasks -> {"idle", "queued", "task", "wait"}]
             /\ DOMAIN nodeCall' = NodeCallers
  <2>1. \E call : nodeCall' = [nodeCall EXCEPT ![c] = call]
    BY <1>1 DEF EnqueueCall
  <2> QED BY <1>0, <1>1, <2>1 DEF NodeTypes, EnqueueCall
<1>2. ASSUME NEW t \in LaneTasks, StartTask(t) \/ RunTask(t)
      PROVE  /\ nodeCallAt' \in [LaneTasks -> {"idle", "queued", "task", "wait"}]
             /\ DOMAIN nodeCall' = NodeCallers
  BY <1>0, <1>2 DEF NodeTypes, StartTask, RunTask, RefuseTask, CallEnds
<1>4. CASE UNCHANGED callVars
  BY <1>0, <1>4 DEF callVars, NodeTypes
<1> QED BY <1>1, <1>2, <1>4 DEF NodeNext, InvocationStep, MonitorStep, InvokeCapability,
        StartInvocation, Invoke, TakeResponse, InvocationExpires, GiveUp, FallSilent,
        CheckHeartbeats, MissHeartbeat, MarkNodeOffline, nodeVars

\* The registry and the invocations through one step: what of it matters.
LEMMA RegistryStep ==
    ASSUME NodeInv, NEW op, NEW on, [op |-> op, on |-> on] \in NodeCalls, Perform(op, on)
    PROVE  /\ node' \in [NodeIds -> NodeRecords]
           /\ \A n \in NodeIds : /\ node'[n].timeouts \in {0, node[n].timeouts}
                                 /\ node'[n].degraded <=>
                                        node'[n].known /\ node'[n].timeouts >= DegradedThreshold
           /\ target' = target /\ active' = active /\ responded \subseteq responded'
           /\ box' \subseteq responded' \cap (box \cup active)
           /\ invocation' \in [Invocations -> {"new", "queued", "invoke", "wait", "late", "over"}]
           /\ answer' \in [Invocations -> {"none", "answered", "timeout", "error"}]
           /\ \A i \in Invocations :
                 \/ invocation'[i] = invocation[i] /\ answer'[i] = answer[i]
                 \/ invocation[i] = "queued" /\ invocation'[i] = "over" /\ answer'[i] = "error"
<1>0. NodeTypes /\ InvocationInv /\ ChargeInv
  BY DEF NodeInv
<1> USE NodesAssumption
<1>1. \/ op \in TwoTasks \cup {"heartbeat"} /\ on \in NodeIds
      \/ op = "respond" /\ on \in Invocations
  BY DEF NodeCalls
<1> DEFINE Fine == \A n \in NodeIds :
               /\ node'[n].timeouts \in {0, node[n].timeouts}
               /\ node'[n].degraded <=> node'[n].known /\ node'[n].timeouts >= DegradedThreshold
\* A record of the registry that is charged with nothing new.
<1>2. ASSUME NEW n \in NodeIds, NEW rec \in NodeRecords, node' = [node EXCEPT ![n] = rec],
             \/ rec.known = node[n].known /\ rec.timeouts = node[n].timeouts
                /\ rec.degraded = node[n].degraded
             \/ rec.timeouts = 0 /\ rec.degraded = FALSE
      PROVE  node' \in [NodeIds -> NodeRecords] /\ Fine
  <2>1. node' \in [NodeIds -> NodeRecords] /\ node'[n] = rec
        /\ \A o \in NodeIds \ {n} : node'[o] = node[o]
    BY <1>0, <1>2 DEF NodeTypes
  <2>2. rec.timeouts \in {0, node[n].timeouts}
        /\ (rec.degraded <=> rec.known /\ rec.timeouts >= DegradedThreshold)
    BY <1>0, <1>2 DEF ChargeInv
  <2> QED BY <1>0, <2>1, <2>2 DEF ChargeInv
<1>3. ASSUME node' = node PROVE node' \in [NodeIds -> NodeRecords] /\ Fine
  BY <1>0, <1>3 DEF NodeTypes, ChargeInv
<1>4. CASE UNCHANGED invocationVars /\ node' \in [NodeIds -> NodeRecords] /\ Fine
  BY <1>0, <1>4 DEF invocationVars, InvocationInv, NodeTypes
<1>5. \A n \in NodeIds : node[n] \in NodeRecords
  BY <1>0 DEF NodeTypes
<1> HIDE DEF Fine
<1>6. CASE op = "register" /\ RegisterNode(on)
  <2> DEFINE rec == IF node[on].known THEN [node[on] EXCEPT !.online = TRUE, !.missed = 0]
                    ELSE [Absent EXCEPT !.known = TRUE, !.online = TRUE]
  <2>1. on \in NodeIds /\ node' = [node EXCEPT ![on] = rec] /\ UNCHANGED invocationVars
    BY <1>0, <1>1, <1>6 DEF RegisterNode, NodeTypes
  <2>2. rec \in NodeRecords
    BY <1>5, <2>1 DEF NodeRecords, Absent
  <2>3. \/ rec.known = node[on].known /\ rec.timeouts = node[on].timeouts
           /\ rec.degraded = node[on].degraded
        \/ rec.timeouts = 0 /\ rec.degraded = FALSE
    BY <1>5, <2>1 DEF NodeRecords, Absent
  <2> HIDE DEF rec
  <2> QED BY <1>2, <1>4, <2>1, <2>2, <2>3
<1>7. CASE op = "unregister" /\ UnregisterNode(on)
  <2>1. on \in NodeIds /\ node' = [node EXCEPT ![on] = Absent]
    BY <1>1, <1>7 DEF UnregisterNode
  <2>2. Absent \in NodeRecords /\ Absent.timeouts = 0 /\ Absent.degraded = FALSE
    BY DEF NodeRecords, Absent
  <2>3. node' \in [NodeIds -> NodeRecords] /\ Fine
    BY <1>2, <2>1, <2>2
  <2>4. /\ target' = target /\ active' = active /\ box' = box /\ responded' = responded
        /\ invocation' \in [Invocations -> {"new", "queued", "invoke", "wait", "late", "over"}]
        /\ answer' \in [Invocations -> {"none", "answered", "timeout", "error"}]
        /\ \A i \in Invocations :
              \/ invocation'[i] = invocation[i] /\ answer'[i] = answer[i]
              \/ invocation[i] = "queued" /\ invocation'[i] = "over" /\ answer'[i] = "error"
    BY <1>0, <1>7 DEF UnregisterNode, NodeTypes
  <2> QED BY <1>0, <2>3, <2>4 DEF Fine, InvocationInv
<1>8. CASE op \in {"grant", "revoke"} /\ \E allow \in BOOLEAN : SetPermission(on, allow)
  <2>1. PICK allow \in BOOLEAN : SetPermission(on, allow)
    BY <1>8
  <2> DEFINE rec == [node[on] EXCEPT !.granted = IF node[on].known THEN allow ELSE node[on].granted]
  <2>2. on \in NodeIds /\ node' = [node EXCEPT ![on] = rec] /\ UNCHANGED invocationVars
    BY <1>0, <1>1, <1>8, <2>1 DEF SetPermission, NodeTypes
  <2>3. /\ rec \in NodeRecords /\ rec.known = node[on].known
        /\ rec.timeouts = node[on].timeouts /\ rec.degraded = node[on].degraded
    BY <1>5, <2>2 DEF NodeRecords
  <2> HIDE DEF rec
  <2> QED BY <1>2, <1>4, <2>2, <2>3
<1>9. CASE SetDefaultNode(on)
  BY <1>3, <1>4, <1>9 DEF SetDefaultNode
<1>10. CASE op = "heartbeat" /\ HandleHeartbeat(on)
  <2>0. CASE ~node[on].known
    BY <1>3, <1>4, <1>10, <2>0 DEF HandleHeartbeat
  <2>1. CASE node[on].known
    <3> DEFINE rec == [node[on] EXCEPT !.online = TRUE, !.missed = 0]
    <3>1. on \in NodeIds /\ node' = [node EXCEPT ![on] = rec] /\ UNCHANGED invocationVars
      BY <1>0, <1>1, <1>10, <2>1 DEF HandleHeartbeat, NodeTypes
    <3>2. /\ rec \in NodeRecords /\ rec.known = node[on].known
          /\ rec.timeouts = node[on].timeouts /\ rec.degraded = node[on].degraded
      BY <1>5, <3>1 DEF NodeRecords
    <3> HIDE DEF rec
    <3> QED BY <1>2, <1>4, <3>1, <3>2
  <2> QED BY <2>0, <2>1
<1>11. CASE HandleResponse(on)
  <2>1. node' \in [NodeIds -> NodeRecords] /\ Fine
    BY <1>3, <1>11 DEF HandleResponse
  <2>2. /\ responded \subseteq responded' /\ box' \subseteq responded' \cap (box \cup active)
        /\ UNCHANGED <<target, active, invocation, answer>>
    BY <1>0, <1>11 DEF HandleResponse, InvocationInv
  <2> QED BY <1>0, <2>1, <2>2 DEF Fine, NodeTypes
<1> QED BY <1>1, <1>6, <1>7, <1>8, <1>9, <1>10, <1>11 DEF Perform, TwoTasks

\* A step that charges no node with anything new.
LEMMA NothingChargedStep ==
    ASSUME NodeInv, node' \in [NodeIds -> NodeRecords], UNCHANGED charged,
           \A n \in NodeIds : /\ node'[n].timeouts \in {0, node[n].timeouts}
                              /\ node'[n].degraded <=>
                                     node'[n].known /\ node'[n].timeouts >= DegradedThreshold,
           \A i \in Invocations : answer[i] = "timeout" =>
               answer'[i] = "timeout" /\ target'[i] = target[i]
    PROVE  ChargeInv'
<1>1. ASSUME NEW n \in NodeIds PROVE node'[n].timeouts <= charged'[n] + Cardinality(Timeouts(n)')
  <2>1. /\ Cardinality(Timeouts(n)) \in Nat /\ Cardinality(Timeouts(n)') \in Nat
        /\ Cardinality(Timeouts(n)) <= Cardinality(Timeouts(n)')
    BY TimeoutsKept DEF NodeInv
  <2>2. /\ node[n].timeouts <= charged[n] + Cardinality(Timeouts(n))
        /\ node[n].timeouts \in Nat /\ charged[n] \in Nat
    BY DEF NodeInv, ChargeInv, NodeTypes, NodeRecords
  <2>3. node'[n].timeouts = 0 \/ node'[n].timeouts = node[n].timeouts
    OBVIOUS
  <2> QED BY <2>1, <2>2, <2>3
<1> QED BY <1>1 DEF ChargeInv

\* Calls come and go: the registry and the invocations stay what they are.
LEMMA NodeLaneStep ==
    ASSUME NodeInv, UNCHANGED <<node, charged, invocationVars>>
    PROVE  /\ node' \in [NodeIds -> NodeRecords] /\ DOMAIN target' = Invocations
           /\ invocation' \in [Invocations -> {"new", "queued", "invoke", "wait", "late", "over"}]
           /\ answer' \in [Invocations -> {"none", "answered", "timeout", "error"}]
           /\ InvocationInv' /\ ChargeInv'
<1>1. \A n : Timeouts(n)' = Timeouts(n)
  BY DEF Timeouts, invocationVars
<1> QED BY <1>1 DEF NodeInv, NodeTypes, InvocationInv, InLaneOf, ChargeInv, invocationVars

\* A task of lane "main", when it runs.
LEMMA NodeTaskStep ==
    ASSUME NodeInv, NEW t \in LaneTasks, RunTask(t)
    PROVE  /\ node' \in [NodeIds -> NodeRecords] /\ DOMAIN target' = Invocations
           /\ invocation' \in [Invocations -> {"new", "queued", "invoke", "wait", "late", "over"}]
           /\ answer' \in [Invocations -> {"none", "answered", "timeout", "error"}]
           /\ InvocationInv' /\ ChargeInv'
<1> DEFINE c == t[1]
<1>0. c \in NodeCallers /\ t[2] \in {"method", "manager"} /\ t = <<c, t[2]>>
  BY DEF LaneTasks
<1>1. CASE UNCHANGED <<node, invocationVars>>
  BY <1>1, NodeLaneStep DEF RunTask
<1>2. CASE Perform(nodeCall[c].op, nodeCall[c].on)
  <2>1. nodeCall[c] \in NodeCalls
    BY <1>0 DEF NodeInv, NodeCallInv, RunTask
  <2>2. [op |-> nodeCall[c].op, on |-> nodeCall[c].on] \in NodeCalls
    BY <2>1 DEF NodeCalls
  <2> DEFINE op == nodeCall[c].op
             on == nodeCall[c].on
  <2>3. Perform(op, on) /\ [op |-> op, on |-> on] \in NodeCalls
    BY <1>2, <2>2
  <2> HIDE DEF op, on
  <2>4. /\ node' \in [NodeIds -> NodeRecords]
        /\ \A n \in NodeIds : /\ node'[n].timeouts \in {0, node[n].timeouts}
                              /\ node'[n].degraded <=>
                                     node'[n].known /\ node'[n].timeouts >= DegradedThreshold
        /\ target' = target /\ active' = active /\ responded \subseteq responded'
        /\ box' \subseteq responded' \cap (box \cup active)
        /\ invocation' \in [Invocations -> {"new", "queued", "invoke", "wait", "late", "over"}]
        /\ answer' \in [Invocations -> {"none", "answered", "timeout", "error"}]
        /\ \A i \in Invocations :
              \/ invocation'[i] = invocation[i] /\ answer'[i] = answer[i]
              \/ invocation[i] = "queued" /\ invocation'[i] = "over" /\ answer'[i] = "error"
    BY <2>3, RegistryStep
  <2>5. InvocationInv
    BY DEF NodeInv
  <2>6. \A i \in Invocations : answer[i] = "timeout" =>
            answer'[i] = "timeout" /\ target'[i] = target[i]
    BY <2>4, <2>5 DEF InvocationInv
  <2>7. ChargeInv'
    BY <2>4, <2>6, NothingChargedStep DEF RunTask
  <2>8. \A i \in Invocations : InLaneOf(i)' <=> InLaneOf(i)
    BY <2>4 DEF InLaneOf
  <2>9. InvocationInv'
    <3>1. \A i \in Invocations : invocation'[i] \in {"wait", "late"} <=>
                                 invocation[i] \in {"wait", "late"}
      BY <2>4
    <3>2. active' = {i \in Invocations : invocation'[i] \in {"wait", "late"}}
      BY <2>4, <2>5, <3>1 DEF InvocationInv
    <3>3. \A i \in Invocations : answer'[i] # "none" => invocation'[i] = "over"
      BY <2>4, <2>5 DEF InvocationInv
    <3>4. \A i \in Invocations : answer'[i] = "answered" => i \in responded'
      BY <2>4, <2>5 DEF InvocationInv
    <3>5. \A i, j \in Invocations :
              target'[i] = target'[j] /\ InLaneOf(i)' /\ InLaneOf(j)' => i = j
      BY <2>4, <2>5, <2>8 DEF InvocationInv
    <3> QED BY <2>4, <3>2, <3>3, <3>4, <3>5 DEF InvocationInv
  <2> QED BY <2>4, <2>7, <2>9 DEF NodeInv, NodeTypes
<1> QED BY <1>1, <1>2 DEF RunTask, RefuseTask

\* An invocation, on its way through the lane of its node.
LEMMA InvocationMoves ==
    ASSUME NodeInv, NEW i \in Invocations, InvokeCapability(i) \/ InvocationStep(i)
    PROVE  /\ DOMAIN target' = Invocations
           /\ invocation' \in [Invocations -> {"new", "queued", "invoke", "wait", "late", "over"}]
           /\ answer' \in [Invocations -> {"none", "answered", "timeout", "error"}]
           /\ InvocationInv'
<1>0. NodeTypes /\ InvocationInv
  BY DEF NodeInv
<1>1. CASE InvokeCapability(i)
  BY <1>0, <1>1 DEF InvokeCapability, InvEnds, InvGoes, NodeTypes, InvocationInv, InLaneOf
<1>2. CASE StartInvocation(i)
  BY <1>0, <1>2 DEF StartInvocation, InvGoes, NodeTypes, InvocationInv, InLaneOf
<1>3. CASE Invoke(i)
  BY <1>0, <1>3 DEF Invoke, InvEnds, InvGoes, NodeTypes, InvocationInv, InLaneOf
<1>4. CASE TakeResponse(i)
  BY <1>0, <1>4 DEF TakeResponse, InvEnds, InvGoes, NodeTypes, InvocationInv, InLaneOf
<1>5. CASE InvocationExpires(i)
  BY <1>0, <1>5 DEF InvocationExpires, InvGoes, NodeTypes, InvocationInv, InLaneOf
<1>6. CASE GiveUp(i)
  BY <1>0, <1>6 DEF GiveUp, InvEnds, InvGoes, NodeTypes, InvocationInv, InLaneOf
<1> QED BY <1>1, <1>2, <1>3, <1>4, <1>5, <1>6 DEF InvocationStep

\* The registry, while an invocation moves: who gives up on a node charges it.
LEMMA InvocationCharges ==
    ASSUME NodeInv, NEW i \in Invocations, InvokeCapability(i) \/ InvocationStep(i)
    PROVE  node' \in [NodeIds -> NodeRecords] /\ ChargeInv'
<1>0. NodeTypes /\ InvocationInv /\ ChargeInv /\ UNCHANGED charged
  BY DEF NodeInv, InvokeCapability, InvocationStep, StartInvocation, Invoke, TakeResponse,
         InvocationExpires, GiveUp
<1>1. CASE node' = node /\ answer[i] = "none"
           /\ \A j \in Invocations \ {i} : answer'[j] = answer[j] /\ target'[j] = target[j]
  <2>1. \A j \in Invocations : answer[j] = "timeout" =>
            answer'[j] = "timeout" /\ target'[j] = target[j]
    BY <1>1
  <2>2. node' \in [NodeIds -> NodeRecords]
        /\ \A n \in NodeIds : /\ node'[n].timeouts \in {0, node[n].timeouts}
                              /\ node'[n].degraded <=>
                                     node'[n].known /\ node'[n].timeouts >= DegradedThreshold
    BY <1>0, <1>1 DEF ChargeInv, NodeTypes
  <2> QED BY <1>0, <2>1, <2>2, NothingChargedStep
<1>2. answer[i] = "none"
  BY <1>0 DEF InvokeCapability, InvocationStep, StartInvocation, Invoke, TakeResponse,
        InvocationExpires, GiveUp, InvocationInv, NodeTypes
<1>3. CASE InvokeCapability(i)
  BY <1>0, <1>1, <1>2, <1>3 DEF InvokeCapability, InvEnds, NodeTypes
<1>4. CASE StartInvocation(i) \/ Invoke(i) \/ TakeResponse(i) \/ InvocationExpires(i)
  BY <1>0, <1>1, <1>2, <1>4 DEF StartInvocation, Invoke, TakeResponse, InvocationExpires,
        InvEnds, NodeTypes
<1>5. CASE GiveUp(i)
  <2>0. PICK o : o = target[i]
    OBVIOUS
  <2>1. /\ target' = target /\ answer' = [answer EXCEPT ![i] = "timeout"]
        /\ node' = IF ~node[o].known THEN node ELSE
               [node EXCEPT ![o].timeouts = @ + 1,
                            ![o].degraded = @ \/ node[o].timeouts + 1 >= DegradedThreshold]
    BY <1>5, <2>0 DEF GiveUp, InvEnds, IncrementTimeoutCount
  <2>2. \A j \in Invocations : answer[j] = "timeout" =>
            answer'[j] = "timeout" /\ target'[j] = target[j]
    BY <1>0, <2>1 DEF NodeTypes
  <2>3. CASE node' = node
    <3>1. \A j \in Invocations \ {i} : answer'[j] = answer[j] /\ target'[j] = target[j]
      BY <1>0, <2>1 DEF NodeTypes
    <3> QED BY <1>1, <1>2, <2>3, <3>1
  <2>4. CASE o \in NodeIds /\ node[o].known
    <3> DEFINE count == node[o].timeouts + 1
               rec == [node[o] EXCEPT !.timeouts = count,
                                      !.degraded = @ \/ count >= DegradedThreshold]
    <3>1. node[o] \in NodeRecords
      BY <1>0, <2>4 DEF NodeTypes
    <3>2. count \in Nat /\ DegradedThreshold \in Nat
      BY <3>1, ThresholdIsPositive DEF NodeRecords
    <3>3. rec \in NodeRecords /\ rec.timeouts = count /\ rec.known
          /\ (rec.degraded <=> count >= DegradedThreshold)
      <4>1. node[o].degraded <=> node[o].timeouts >= DegradedThreshold
        BY <1>0, <2>4 DEF ChargeInv
      <4>2. node[o].degraded \/ count >= DegradedThreshold <=> count >= DegradedThreshold
        BY <3>1, <3>2, <4>1 DEF NodeRecords
      <4>3. CASE count >= DegradedThreshold
        <5>1. rec = [node[o] EXCEPT !.timeouts = count, !.degraded = TRUE]
          BY <3>1, <4>2, <4>3 DEF NodeRecords
        <5> QED BY <2>4, <3>1, <3>2, <4>3, <5>1 DEF NodeRecords
      <4>4. CASE ~(count >= DegradedThreshold)
        <5>1. rec = [node[o] EXCEPT !.timeouts = count, !.degraded = FALSE]
          BY <3>1, <4>2, <4>4 DEF NodeRecords
        <5> QED BY <2>4, <3>1, <3>2, <4>4, <5>1 DEF NodeRecords
      <4> QED BY <4>3, <4>4
    <3>4. node' = [node EXCEPT ![o] = rec]
      BY <1>0, <2>1, <2>4 DEF NodeTypes, NodeRecords
    <3> HIDE DEF rec, count
    <3>5. node' \in [NodeIds -> NodeRecords] /\ node'[o] = rec
          /\ \A n \in NodeIds \ {o} : node'[n] = node[n]
      BY <1>0, <2>4, <3>3, <3>4 DEF NodeTypes
    <3>6. ASSUME NEW n \in NodeIds \ {o}
          PROVE  node'[n].timeouts <= charged'[n] + Cardinality(Timeouts(n)')
      <4>1. /\ node[n].timeouts <= charged[n] + Cardinality(Timeouts(n))
            /\ node[n].timeouts \in Nat /\ charged[n] \in Nat
        BY <1>0 DEF ChargeInv, NodeTypes, NodeRecords
      <4>2. /\ Cardinality(Timeouts(n)) \in Nat /\ Cardinality(Timeouts(n)') \in Nat
            /\ Cardinality(Timeouts(n)) <= Cardinality(Timeouts(n)')
        BY <1>0, <2>2, TimeoutsKept
      <4> QED BY <1>0, <3>5, <4>1, <4>2
    <3>7. count <= charged[o] + Cardinality(Timeouts(o)')
      <4>1. Timeouts(o)' = Timeouts(o) \cup {i} /\ i \notin Timeouts(o)
        BY <1>0, <1>2, <2>0, <2>1 DEF Timeouts, NodeTypes
      <4>2. IsFiniteSet(Timeouts(o))
        BY NodesAssumption, FS_Subset DEF Timeouts
      <4>3. Cardinality(Timeouts(o)') = Cardinality(Timeouts(o)) + 1
            /\ Cardinality(Timeouts(o)) \in Nat
        BY <4>1, <4>2, FS_AddElement, FS_CardinalityType
      <4>4. /\ node[o].timeouts <= charged[o] + Cardinality(Timeouts(o))
            /\ node[o].timeouts \in Nat /\ charged[o] \in Nat
        BY <1>0, <2>4, <3>1 DEF ChargeInv, NodeTypes, NodeRecords
      <4> QED BY <4>3, <4>4 DEF count
    <3>8. \A n \in NodeIds : node'[n].degraded <=>
              node'[n].known /\ node'[n].timeouts >= DegradedThreshold
      BY <1>0, <3>3, <3>5 DEF ChargeInv
    <3>9. \A n \in NodeIds : node'[n].timeouts <= charged'[n] + Cardinality(Timeouts(n)')
      BY <1>0, <3>3, <3>5, <3>6, <3>7
    <3> QED BY <3>5, <3>8, <3>9 DEF ChargeInv
  <2>5. o \notin NodeIds => node' = node
    BY <1>0, <2>1 DEF NodeTypes
  <2> QED BY <2>1, <2>3, <2>4, <2>5
<1> QED BY <1>3, <1>4, <1>5 DEF InvocationStep

\* The monitor, and nodes that fall silent: none of it is charged.
LEMMA MonitorCharges ==
    ASSUME NodeInv, MonitorStep \/ \E n \in NodeIds : FallSilent(n)
    PROVE  node' \in [NodeIds -> NodeRecords] /\ InvocationInv' /\ ChargeInv'
<1>0. NodeTypes /\ InvocationInv /\ ChargeInv
  BY DEF NodeInv
<1>1. UNCHANGED <<charged, invocationVars>>
  BY DEF MonitorStep, FallSilent, CheckHeartbeats, MissHeartbeat, MarkNodeOffline
<1>2. node' \in [NodeIds -> NodeRecords]
      /\ \A n \in NodeIds : /\ node'[n].known = node[n].known
                            /\ node'[n].timeouts = node[n].timeouts
                            /\ node'[n].degraded = node[n].degraded
  <2>1. CASE node' = node
    BY <1>0, <2>1 DEF NodeTypes
  <2>2. ASSUME NEW n \in NodeIds, MissHeartbeat(n), node' # node
        PROVE  node' = [node EXCEPT ![n].missed = @ + 1]
    BY <2>2 DEF MissHeartbeat
  <2>3. ASSUME MarkNodeOffline PROVE node' = [node EXCEPT ![marking].online = FALSE]
    BY <2>3 DEF MarkNodeOffline
  <2>4. ASSUME NEW n \in NodeIds, node' = [node EXCEPT ![n].missed = @ + 1]
        PROVE  /\ node' \in [NodeIds -> NodeRecords]
               /\ \A o \in NodeIds : /\ node'[o].known = node[o].known
                                     /\ node'[o].timeouts = node[o].timeouts
                                     /\ node'[o].degraded = node[o].degraded
    BY <1>0, <2>4 DEF NodeTypes, NodeRecords
  <2>5. ASSUME node' = [node EXCEPT ![marking].online = FALSE]
        PROVE  /\ node' \in [NodeIds -> NodeRecords]
               /\ \A o \in NodeIds : /\ node'[o].known = node[o].known
                                     /\ node'[o].timeouts = node[o].timeouts
                                     /\ node'[o].degraded = node[o].degraded
    <3>1. CASE marking \in NodeIds
      BY <1>0, <2>5, <3>1 DEF NodeTypes, NodeRecords
    <3>2. CASE marking \notin NodeIds
      BY <1>0, <2>5, <3>2 DEF NodeTypes
    <3> QED BY <3>1, <3>2
  <2> QED BY <2>1, <2>2, <2>3, <2>4, <2>5 DEF MonitorStep, FallSilent, CheckHeartbeats
<1>3. ChargeInv'
  <2>1. \A i \in Invocations : answer[i] = "timeout" =>
            answer'[i] = "timeout" /\ target'[i] = target[i]
    BY <1>1 DEF invocationVars
  <2>2. \A n \in NodeIds : /\ node'[n].timeouts \in {0, node[n].timeouts}
                           /\ node'[n].degraded <=>
                                  node'[n].known /\ node'[n].timeouts >= DegradedThreshold
    BY <1>0, <1>2 DEF ChargeInv
  <2> QED BY <1>1, <1>2, <2>1, <2>2, NothingChargedStep
<1>4. InvocationInv'
  BY <1>0, <1>1 DEF InvocationInv, InLaneOf, invocationVars
<1> QED BY <1>2, <1>3, <1>4

\* No step breaks the invariant: that is what makes it inductive.
LEMMA NodeStepInv == NodeInv /\ [NodeNext]_nodeVars => NodeInv'
<1> SUFFICES ASSUME NodeInv, [NodeNext]_nodeVars PROVE NodeInv'
  OBVIOUS
<1> DEFINE Types ==
        /\ node' \in [NodeIds -> NodeRecords] /\ DOMAIN target' = Invocations
        /\ invocation' \in [Invocations -> {"new", "queued", "invoke", "wait", "late", "over"}]
        /\ answer' \in [Invocations -> {"none", "answered", "timeout", "error"}]
<1>0. UNCHANGED charged
  BY DEF NodeNext, EnqueueCall, StartTask, RunTask, InvokeCapability, InvocationStep,
         StartInvocation, Invoke, TakeResponse, InvocationExpires, GiveUp, FallSilent,
         MonitorStep, CheckHeartbeats, MissHeartbeat, MarkNodeOffline, nodeVars
<1>1. Types /\ InvocationInv' /\ ChargeInv'
  <2>1. CASE UNCHANGED <<node, invocationVars>>
    BY <1>0, <2>1, NodeLaneStep
  <2>2. ASSUME NEW t \in LaneTasks, RunTask(t) PROVE Types /\ InvocationInv' /\ ChargeInv'
    BY <2>2, NodeTaskStep
  <2>3. ASSUME NEW i \in Invocations, InvokeCapability(i) \/ InvocationStep(i)
        PROVE  Types /\ InvocationInv' /\ ChargeInv'
    BY <2>3, InvocationMoves, InvocationCharges
  <2>4. CASE MonitorStep \/ \E n \in NodeIds : FallSilent(n)
    <3>1. UNCHANGED invocationVars
      BY <2>4 DEF MonitorStep, FallSilent, CheckHeartbeats, MissHeartbeat, MarkNodeOffline
    <3> QED BY <2>4, <3>1, MonitorCharges DEF NodeInv, NodeTypes, invocationVars
  <2> QED BY <2>1, <2>2, <2>3, <2>4 DEF NodeNext, EnqueueCall, StartTask, nodeVars
<1>2. NodeTypes'
  BY <1>0, <1>1, NodeLaneTypeStep DEF NodeInv, NodeTypes
<1> QED BY <1>1, <1>2, NodeCallStep DEF NodeInv

\* The parts imply the property.
LEMMA NodeInvHonest == NodeInv => InvocationsAreHonest
<1> SUFFICES ASSUME NodeInv PROVE InvocationsAreHonest
  OBVIOUS
<1>1. NodeTypes /\ InvocationInv /\ ChargeInv
  BY DEF NodeInv
<1>2. \A i \in Invocations : answer[i] = "answered" => i \in responded /\ i \notin active
  BY <1>1 DEF InvocationInv
<1>3. \A i, j \in active : target[i] = target[j] => i = j
  BY <1>1 DEF InvocationInv, InLaneOf
<1> QED BY <1>1, <1>2, <1>3 DEF InvocationsAreHonest, InvocationInv, ChargeInv

\* What an invocation returns is what its node sent for it, a node has one
\* invocation at a time, is charged with no more than the timeouts it caused, beyond
\* what it was saved with, and is degraded just if they are enough: however calls,
\* responses, timeouts and the monitor interleave, and for any number of nodes and
\* invocations.
THEOREM InvocationsAreHonestHolds == NodeSpec => []InvocationsAreHonest
<1>1. NodeInit => NodeInv
  BY NodeInitInv
<1>2. NodeInv /\ [NodeNext]_nodeVars => NodeInv'
  BY NodeStepInv
<1>3. NodeInv => InvocationsAreHonest
  BY NodeInvHonest
<1> QED BY <1>1, <1>2, <1>3, PTL DEF NodeSpec

-----------------------------------------------------------------------------
\* The life of the daemon.
Parts == {"queue", "sessions", "memory", "mcp", "browser", "plugins", "orchestrator",
          "subagents", "lifecycle", "workspace", "gateway", "webhook", "cron",
          "routing", "channels", "telegram", "archiver", "loop"}
ProcessStates == {"none", "new", "made", "starting", "waiting", "stopping", "stopped",
                  "leaving", "exited"}

LifeTypes ==
    /\ state \in [Processes -> ProcessStates]
    /\ commandStep \in [Processes -> Nat \ {0}]
    /\ open \in [Processes -> SUBSET Parts]

\* What Stop has been at is closed, and the queue is open until it is its turn.
LifeOf(p) ==
    /\ state[p] \in {"made", "starting", "waiting"} => "queue" \in open[p]
    /\ state[p] = "stopping" =>
          /\ commandStep[p] <= 6 => "queue" \in open[p]
          /\ \A k \in 1..Len(Stopped) : k < commandStep[p] => Stopped[k] \notin open[p]
    /\ state[p] \in {"stopped", "leaving"} => open[p] = {}

LifeInv == LifeTypes /\ \A p \in Processes : LifeOf(p)

\* The order in which Stop stops what it stops: all there is, what brings calls
\* to the queue before the queue.
LEMMA StoppedParts ==
    /\ Len(Stopped) = 18 /\ Parts = {Stopped[k] : k \in 1..18}
    /\ Intake = {Stopped[k] : k \in 1..5} /\ Stopped[6] = "queue"
    /\ \A j, k \in 1..18 : Stopped[j] = Stopped[k] => j = k
<1> DEFINE s == Stopped
<1>1. /\ Len(s) = 18
      /\ s[1] = "channels" /\ s[2] = "telegram" /\ s[3] = "webhook" /\ s[4] = "gateway"
      /\ s[5] = "cron" /\ s[6] = "queue" /\ s[7] = "routing" /\ s[8] = "workspace"
      /\ s[9] = "archiver" /\ s[10] = "browser" /\ s[11] = "plugins" /\ s[12] = "mcp"
      /\ s[13] = "orchestrator" /\ s[14] = "subagents" /\ s[15] = "loop"
      /\ s[16] = "lifecycle" /\ s[17] = "memory" /\ s[18] = "sessions"
  BY DEF Stopped
<1> HIDE DEF s
<1>2. 1..18 = {1, 2, 3, 4, 5, 6, 7, 8, 9, 10, 11, 12, 13, 14, 15, 16, 17, 18}
      /\ 1..5 = {1, 2, 3, 4, 5}
  OBVIOUS
<1>3. /\ \A x : x \in {s[k] : k \in 1..18} <=>
                 x \in {s[1], s[2], s[3], s[4], s[5], s[6], s[7], s[8], s[9], s[10], s[11],
                        s[12], s[13], s[14], s[15], s[16], s[17], s[18]}
      /\ \A x : x \in {s[k] : k \in 1..5} <=> x \in {s[1], s[2], s[3], s[4], s[5]}
  BY <1>2
<1>4. Parts = {s[k] : k \in 1..18}
  BY <1>1, <1>3 DEF Parts
<1>5. Intake = {s[k] : k \in 1..5}
  BY <1>1, <1>3 DEF Intake
<1>6. \A j, k \in 1..18 : s[j] = s[k] => j = k
  BY <1>1, SMTT(60)
<1> QED BY <1>1, <1>4, <1>5, <1>6 DEF s

\* What New makes and Start starts are parts.
LEMMA StartedParts ==
    /\ ToSet(Made) \subseteq Parts /\ "queue" \in ToSet(Made)
    /\ \A k \in 1..Len(Started) : Started[k] \in Parts
<1>1. ToSet(Made) \subseteq Parts
  BY DEF ToSet, Made, Parts
<1>2. "queue" \in ToSet(Made)
  <2>1. Made[1] = "queue" /\ 1 \in DOMAIN Made
    BY DEF Made
  <2> QED BY <2>1, Zenon DEF ToSet
<1> DEFINE first == <<"lifecycle", "workspace", "gateway">>
           middle == IF WebhookEnabled THEN <<"webhook">> ELSE <<>>
           last == <<"cron", "routing", "channels", "telegram", "archiver", "loop">>
<1>3. first \in Seq(Parts) /\ middle \in Seq(Parts) /\ last \in Seq(Parts)
  <2>1. {"lifecycle", "workspace", "gateway", "webhook", "cron", "routing", "channels",
         "telegram", "archiver", "loop"} \subseteq Parts
    BY DEF Parts
  <2> HIDE DEF Parts
  <2>2. first \in Seq(Parts)
    BY <2>1
  <2>3. middle \in Seq(Parts)
    <3>1. <<"webhook">> \in Seq(Parts) /\ <<>> \in Seq(Parts)
      BY <2>1
    <3> QED BY <3>1
  <2>4. last \in Seq(Parts)
    BY <2>1
  <2> QED BY <2>2, <2>3, <2>4
<1>4. Started \in Seq(Parts)
  <2>1. Started = first \o middle \o last
    BY Zenon DEF Started
  <2> HIDE DEF first, middle, last
  <2> QED BY <1>3, <2>1
<1> QED BY <1>1, <1>2, <1>4

\* A process goes, and its parts with it.
LEMMA ExitStep ==
    ASSUME LifeInv, NEW p \in Processes, Exits(p),
           \A q \in Processes \ {p} : commandStep'[q] = commandStep[q],
           commandStep' \in [Processes -> Nat \ {0}]
    PROVE  LifeInv'
<1>1. LifeTypes' /\ state'[p] = "exited"
  BY DEF LifeInv, LifeTypes, Exits, Become, ProcessStates
<1>2. \A q \in Processes \ {p} : state'[q] = state[q] /\ open'[q] = open[q]
  BY DEF LifeInv, LifeTypes, Exits, Become
<1> QED BY <1>1, <1>2 DEF LifeInv, LifeOf

\* A step of one process leaves the others where they are.
LEMMA LifeStep ==
    ASSUME LifeInv, NEW p \in Processes, NEW s \in ProcessStates, NEW n \in Nat \ {0},
           NEW o \in SUBSET Parts,
           state' = [state EXCEPT ![p] = s], commandStep' = [commandStep EXCEPT ![p] = n],
           open' = [open EXCEPT ![p] = o],
           s \in {"made", "starting", "waiting"} => "queue" \in o,
           s = "stopping" => /\ n <= 6 => "queue" \in o
                             /\ \A k \in 1..Len(Stopped) : k < n => Stopped[k] \notin o,
           s \in {"stopped", "leaving"} => o = {}
    PROVE  LifeInv'
<1>1. LifeTypes' /\ state'[p] = s /\ commandStep'[p] = n /\ open'[p] = o
  BY DEF LifeInv, LifeTypes
<1>2. \A q \in Processes \ {p} :
          state'[q] = state[q] /\ commandStep'[q] = commandStep[q] /\ open'[q] = open[q]
  BY DEF LifeInv, LifeTypes
<1>3. LifeOf(p)'
  BY <1>1 DEF LifeOf
<1>4. \A q \in Processes \ {p} : LifeOf(q)'
  BY <1>2 DEF LifeInv, LifeOf
<1> QED BY <1>1, <1>3, <1>4 DEF LifeInv

\* Before the first process nothing is open.
LEMMA LifeInitInv == LifecycleInit => LifeInv
  BY DEF LifecycleInit, LifeInv, LifeTypes, LifeOf, ProcessStates

\* Every step keeps the order of the parts.
LEMMA LifeNextInv == LifeInv /\ [LifecycleNext]_lifecycleVars => LifeInv'
<1> SUFFICES ASSUME LifeInv, [LifecycleNext]_lifecycleVars PROVE LifeInv'
  OBVIOUS
<1>0. LifeTypes /\ \A p \in Processes : LifeOf(p)
  BY DEF LifeInv
<1>1. ASSUME UNCHANGED <<state, commandStep, open>> PROVE LifeInv'
  BY <1>0, <1>1 DEF LifeInv, LifeTypes, LifeOf
<1>2. ASSUME NEW p \in Processes, StartCommand(p) PROVE LifeInv'
  <2>1. LifeTypes' /\ state'[p] = "new" /\ \A q \in Processes \ {p} : state'[q] = state[q]
    BY <1>0, <1>2 DEF StartCommand, Become, LifeTypes, ProcessStates
  <2>2. UNCHANGED <<commandStep, open>>
    BY <1>2 DEF StartCommand
  <2> QED BY <1>0, <2>1, <2>2 DEF LifeInv, LifeOf
<1>3. ASSUME NEW p \in Processes, Exits(p), UNCHANGED commandStep PROVE LifeInv'
  <2>1. commandStep' \in [Processes -> Nat \ {0}]
        /\ \A q \in Processes \ {p} : commandStep'[q] = commandStep[q]
    BY <1>0, <1>3 DEF LifeTypes
  <2> QED BY <1>3, <2>1, ExitStep
<1>4. ASSUME NEW p \in Processes, Construct(p) PROVE LifeInv'
  <2>1. CASE Become(p, "made") /\ open' = [open EXCEPT ![p] = ToSet(Made)]
    <3>1. commandStep' = [commandStep EXCEPT ![p] = commandStep[p]] /\ commandStep[p] \in Nat \ {0}
      BY <1>0, <1>4 DEF Construct, LifeTypes
    <3>2. state' = [state EXCEPT ![p] = "made"] /\ "made" \in ProcessStates
      BY <2>1 DEF Become, ProcessStates
    <3> QED BY <2>1, <3>1, <3>2, StartedParts, LifeStep
  <2> QED BY <1>3, <1>4, <2>1 DEF Construct
<1>5. ASSUME NEW p \in Processes, WritePidFile(p) PROVE LifeInv'
  <2>1. CASE Become(p, "starting") /\ UNCHANGED open
    <3>1. commandStep' = [commandStep EXCEPT ![p] = commandStep[p]] /\ commandStep[p] \in Nat \ {0}
          /\ open' = [open EXCEPT ![p] = open[p]] /\ open[p] \in SUBSET Parts
      BY <1>0, <1>5, <2>1 DEF WritePidFile, LifeTypes
    <3>2. state' = [state EXCEPT ![p] = "starting"] /\ "starting" \in ProcessStates
      BY <2>1 DEF Become, ProcessStates
    <3>3. "queue" \in open[p]
      BY <1>0, <1>5 DEF WritePidFile, LifeOf
    <3> QED BY <3>1, <3>2, <3>3, LifeStep
  <2> QED BY <1>3, <1>5, <2>1 DEF WritePidFile
<1>6. ASSUME NEW p \in Processes, NEW n \in Nat \ {0}, NEW o \in SUBSET Parts, open[p] \subseteq o,
             state[p] = "starting", UNCHANGED state,
             commandStep' = [commandStep EXCEPT ![p] = n], open' = [open EXCEPT ![p] = o]
      PROVE  LifeInv'
  <2>1. state' = [state EXCEPT ![p] = "starting"] /\ "starting" \in ProcessStates
    BY <1>0, <1>6 DEF LifeTypes, ProcessStates
  <2>2. "queue" \in o
    BY <1>0, <1>6 DEF LifeOf
  <2> QED BY <1>6, <2>1, <2>2, LifeStep
<1>7. ASSUME NEW p \in Processes, StartPart(p) PROVE LifeInv'
  <2>1. commandStep[p] \in 1..Len(Started)
    BY <1>0, <1>7 DEF StartPart, LifeTypes
  <2> DEFINE n == IF Part(p) = "webhook" THEN commandStep[p] ELSE commandStep[p] + 1
             o == open[p] \cup {Part(p)}
  <2>2. n \in Nat \ {0} /\ o \in SUBSET Parts /\ open[p] \subseteq o
    BY <1>0, <2>1, StartedParts DEF Part, LifeTypes
  <2>3. /\ state[p] = "starting" /\ UNCHANGED state
        /\ commandStep' = [commandStep EXCEPT ![p] = n] /\ open' = [open EXCEPT ![p] = o]
    BY <1>0, <1>7 DEF StartPart, LifeTypes
  <2> HIDE DEF n, o
  <2> QED BY <1>6, <2>2, <2>3
<1>8. ASSUME NEW p \in Processes, StartFails(p) PROVE LifeInv'
  <2>1. CASE Exits(p) /\ UNCHANGED commandStep
    BY <1>3, <2>1
  <2>2. CASE commandStep' = [commandStep EXCEPT ![p] = @ + 1] /\ UNCHANGED <<state, open>>
    <3>1. /\ commandStep' = [commandStep EXCEPT ![p] = commandStep[p] + 1]
          /\ commandStep[p] + 1 \in Nat \ {0}
          /\ open' = [open EXCEPT ![p] = open[p]] /\ open[p] \in SUBSET Parts
      BY <1>0, <2>2 DEF LifeTypes
    <3>2. state[p] = "starting"
      BY <1>8 DEF StartFails
    <3> QED BY <1>6, <2>2, <3>1, <3>2
  <2> QED BY <1>8, <2>1, <2>2 DEF StartFails
<1>9. ASSUME NEW p \in Processes, BeginWait(p) PROVE LifeInv'
  <2>1. /\ commandStep' = [commandStep EXCEPT ![p] = commandStep[p]] /\ commandStep[p] \in Nat \ {0}
        /\ open' = [open EXCEPT ![p] = open[p]] /\ open[p] \in SUBSET Parts
    BY <1>0, <1>9 DEF BeginWait, LifeTypes
  <2>2. state' = [state EXCEPT ![p] = "waiting"] /\ "waiting" \in ProcessStates
        /\ "queue" \in open[p]
    BY <1>0, <1>9 DEF BeginWait, Become, ProcessStates, LifeOf
  <2> QED BY <2>1, <2>2, LifeStep
<1>10. ASSUME StopCommand PROVE LifeInv'
  <2>1. PICK p : p = pidFile
    OBVIOUS
  <2>2. CASE p \notin Processes
    <3>1. UNCHANGED <<state, commandStep, open>>
      BY <1>0, <1>10, <2>1, <2>2 DEF StopCommand, LifeTypes, Become, Exits
    <3> QED BY <1>1, <3>1
  <2>3. CASE p \in Processes /\ state[p] = "waiting"
    <3>1. /\ state' = [state EXCEPT ![p] = "stopping"] /\ "stopping" \in ProcessStates
          /\ commandStep' = [commandStep EXCEPT ![p] = 1]
          /\ open' = [open EXCEPT ![p] = open[p]] /\ open[p] \in SUBSET Parts
      <4>1. Become(p, "stopping") /\ commandStep' = [commandStep EXCEPT ![p] = 1] /\ UNCHANGED open
        BY <1>10, <2>1, <2>3 DEF StopCommand, Ending
      <4> QED BY <1>0, <2>3, <4>1 DEF Become, ProcessStates, LifeTypes
    <3>2. "queue" \in open[p] /\ \A k \in 1..Len(Stopped) : ~(k < 1)
      BY <1>0, <2>3, StoppedParts DEF LifeOf
    <3>3. PICK one \in Nat \ {0}, here \in SUBSET Parts : one = 1 /\ here = open[p]
      BY <3>1
    <3>4. /\ commandStep' = [commandStep EXCEPT ![p] = one]
          /\ open' = [open EXCEPT ![p] = here] /\ "queue" \in here
          /\ \A k \in 1..Len(Stopped) : k < one => Stopped[k] \notin here
      BY <3>1, <3>2, <3>3
    <3> QED BY <2>3, <3>1, <3>4, LifeStep
  <2>4. CASE p \in Processes /\ state[p] \in Ending
    BY <1>1, <1>10, <2>1, <2>4 DEF StopCommand, Ending
  <2>5. CASE p \in Processes /\ state[p] \notin {"waiting"} \cup Ending
    BY <1>3, <1>10, <2>1, <2>5 DEF StopCommand
  <2> QED BY <2>2, <2>3, <2>4, <2>5
<1>11. ASSUME KillDaemon PROVE LifeInv'
  <2>1. CASE pidFile \in Processes
    BY <1>3, <1>11, <2>1 DEF KillDaemon
  <2>2. CASE pidFile \notin Processes
    BY <1>0, <1>1, <1>11, <2>2 DEF KillDaemon, Exits, Become, LifeTypes
  <2> QED BY <2>1, <2>2
<1>12. ASSUME NEW p \in Processes, StopPart(p) PROVE LifeInv'
  <2> DEFINE n == commandStep[p] + 1
             o == open[p] \ {Stopped[commandStep[p]]}
  <2>1. /\ state' = [state EXCEPT ![p] = "stopping"] /\ "stopping" \in ProcessStates
        /\ commandStep' = [commandStep EXCEPT ![p] = n] /\ n \in Nat \ {0}
        /\ open' = [open EXCEPT ![p] = o] /\ o \in SUBSET Parts
    BY <1>0, <1>12 DEF StopPart, LifeTypes, ProcessStates
  <2>2. n <= 6 => "queue" \in o
    <3>1. ASSUME n <= 6 PROVE commandStep[p] <= 5 /\ commandStep[p] \in Nat \ {0}
      BY <1>0, <3>1 DEF LifeTypes
    <3>2. ASSUME n <= 6 PROVE "queue" \in open[p]
      BY <1>0, <1>12, <3>1, <3>2 DEF LifeOf, StopPart
    <3>3. ASSUME n <= 6 PROVE Stopped[commandStep[p]] # "queue"
      BY <1>0, <3>1, <3>3, StoppedParts DEF LifeTypes
    <3> QED BY <3>2, <3>3
  <2>3. \A k \in 1..Len(Stopped) : k < n => Stopped[k] \notin o
    BY <1>0, <1>12 DEF LifeOf, LifeTypes, StopPart
  <2> HIDE DEF n, o
  <2> QED BY <2>1, <2>2, <2>3, LifeStep
<1>13. ASSUME NEW p \in Processes, EndStop(p) PROVE LifeInv'
  <2>1. /\ state' = [state EXCEPT ![p] = "stopped"] /\ "stopped" \in ProcessStates
        /\ commandStep' = [commandStep EXCEPT ![p] = commandStep[p]]
        /\ commandStep[p] \in Nat \ {0}
        /\ open' = [open EXCEPT ![p] = open[p]] /\ open[p] \in SUBSET Parts
    BY <1>0, <1>13 DEF EndStop, Become, LifeTypes, ProcessStates
  <2>2. commandStep[p] > 18 /\ \A k \in 1..18 : k < commandStep[p] => Stopped[k] \notin open[p]
    BY <1>0, <1>13, StoppedParts DEF EndStop, LifeOf
  <2>3. \A k \in 1..18 : Stopped[k] \notin open[p]
    BY <2>1, <2>2
  <2>4. open[p] = {}
    BY <2>1, <2>3, StoppedParts
  <2> QED BY <2>1, <2>4, LifeStep
<1>14. ASSUME NEW p \in Processes, Leave(p) \/ CrashDaemon(p) PROVE LifeInv'
  BY <1>3, <1>14 DEF Leave, CrashDaemon
<1>15. CASE SeeStopped \/ UNCHANGED lifecycleVars
  BY <1>1, <1>15 DEF SeeStopped, lifecycleVars
<1>16. ASSUME NEW p \in Processes, RemovePidFile(p) PROVE LifeInv'
  <2>1. /\ state' = [state EXCEPT ![p] = "leaving"] /\ "leaving" \in ProcessStates
        /\ commandStep' = [commandStep EXCEPT ![p] = commandStep[p]]
        /\ commandStep[p] \in Nat \ {0}
        /\ open' = [open EXCEPT ![p] = open[p]] /\ open[p] \in SUBSET Parts
    BY <1>0, <1>16 DEF RemovePidFile, Become, LifeTypes, ProcessStates
  <2>2. open[p] = {}
    BY <1>0, <1>16 DEF RemovePidFile, LifeOf
  <2> QED BY <2>1, <2>2, LifeStep
<1> QED BY <1>2, <1>4, <1>5, <1>7, <1>8, <1>9, <1>10, <1>11, <1>12, <1>13, <1>14, <1>15, <1>16
        DEF LifecycleNext, Starting

\* The parts imply the property.
LEMMA LifeInvInOrder == LifeInv => StopsInOrder
<1> SUFFICES ASSUME LifeInv, NEW p \in Processes
    PROVE  /\ state[p] \in {"stopped", "leaving"} => open[p] = {}
           /\ state[p] = "waiting" \/ state[p] \in {"stopping", "stopped", "leaving"} =>
                 ("queue" \in open[p] \/ open[p] \cap Intake = {})
  BY DEF StopsInOrder, Ending
<1>1. LifeOf(p) /\ commandStep[p] \in Nat
  BY DEF LifeInv, LifeTypes
<1>2. CASE state[p] = "stopping" /\ ~(commandStep[p] <= 6)
  <2>1. \A k \in 1..5 : k \in 1..Len(Stopped) /\ k < commandStep[p]
    BY <1>1, <1>2, StoppedParts
  <2>2. \A k \in 1..5 : Stopped[k] \notin open[p]
    BY <1>1, <1>2, <2>1 DEF LifeOf
  <2> QED BY <1>2, <2>2, StoppedParts
<1> QED BY <1>1, <1>2 DEF LifeOf

\* Whatever failed at the start, and whenever the signal came, Stop closes the
\* queue only when nothing is open that brings it calls, and has closed all
\* there is when it returns: for any number of daemons, one after the other or
\* at once, with the webhook server or without it.
THEOREM StopsInOrderHolds == LifecycleSpec => []StopsInOrder
<1>1. LifecycleInit => LifeInv
  BY LifeInitInv
<1>2. LifeInv /\ [LifecycleNext]_lifecycleVars => LifeInv'
  BY LifeNextInv
<1>3. LifeInv => StopsInOrder
  BY LifeInvInOrder
<1> QED BY <1>1, <1>2, <1>3, PTL DEF LifecycleSpec

-----------------------------------------------------------------------------
(***************************************************************************)
(* Numbers.                                                                *)
(***************************************************************************)

\* A set of numbers that is not empty has a least one.
LEMMA Least ==
    ASSUME NEW T \in SUBSET Nat, T # {}
    PROVE  \E n \in T : \A m \in T : n <= m
<1>1. PICK n \in T : \A m \in T : <<m, n>> \notin OpToRel(<, Nat)
  BY NatLessThanWellFounded, WFMin
<1>2. \A m \in T : ~(m < n)
  BY <1>1 DEF OpToRel
<1>3. \A m \in T : n <= m
  BY <1>2
<1> QED BY <1>3

\* Induction, over a set in the place of a predicate.
LEMMA Induction ==
    ASSUME NEW S \in SUBSET Nat, 0 \in S, \A n \in S : n + 1 \in S
    PROVE  S = Nat
<1> SUFFICES ASSUME Nat \ S # {} PROVE FALSE
  OBVIOUS
<1>1. PICK n \in Nat \ S : \A m \in Nat \ S : n <= m
  BY Least
<1>2. n # 0 /\ n - 1 \in Nat
  BY <1>1
<1>3. n - 1 \in S
  BY <1>1, <1>2
<1> QED BY <1>1, <1>2, <1>3

\* A function is defined by its first value and what makes a value the next.
LEMMA Recursion ==
    ASSUME NEW V, NEW a \in V, NEW F \in [V -> V], NEW N \in Nat
    PROVE  \E B \in [0..N -> V] : B = [n \in 0..N |-> IF n = 0 THEN a ELSE F[B[n - 1]]]
<1> DEFINE Upto(n, B) == /\ B \in [0..n -> V]
                         /\ B = [i \in 0..n |-> IF i = 0 THEN a ELSE F[B[i - 1]]]
           S == {n \in Nat : \E B : Upto(n, B)}
<1>1. 0 \in S
  <2>1. Upto(0, [i \in 0..0 |-> a])
    OBVIOUS
  <2> HIDE DEF Upto
  <2> QED BY <2>1
<1>2. ASSUME NEW n \in S PROVE n + 1 \in S
  <2>1. PICK B : Upto(n, B)
    BY <1>2
  <2>2. n \in Nat /\ n \in 0..n /\ B[n] \in V
    BY <1>2, <2>1
  <2> DEFINE C == [i \in 0..(n + 1) |-> IF i <= n THEN B[i] ELSE F[B[n]]]
  <2>3. ASSUME NEW i \in 0..(n + 1)
        PROVE  C[i] \in V /\ C[i] = IF i = 0 THEN a ELSE F[C[i - 1]]
    <3>1. CASE i = 0
      BY <2>1, <2>2, <3>1
    <3>2. CASE i # 0 /\ i <= n
      <4>1. i \in 0..n /\ i - 1 \in 0..(n + 1) /\ i - 1 <= n
        BY <2>2, <3>2
      <4>2. C[i] = B[i] /\ C[i - 1] = B[i - 1]
        BY <3>2, <4>1
      <4>3. B[i] \in V /\ B[i] = F[B[i - 1]]
        BY <2>1, <3>2, <4>1
      <4> QED BY <3>2, <4>2, <4>3
    <3>3. CASE i = n + 1
      <4>1. i # 0 /\ i - 1 = n /\ n \in 0..(n + 1) /\ ~(i <= n)
        BY <2>2, <3>3
      <4>2. C[i] = F[B[n]] /\ C[n] = B[n]
        BY <2>2, <4>1
      <4> QED BY <2>2, <4>1, <4>2
    <3> QED BY <2>2, <3>1, <3>2, <3>3
  <2>4. C = [i \in 0..(n + 1) |-> IF i = 0 THEN a ELSE F[C[i - 1]]]
    <3>1. [i \in 0..(n + 1) |-> IF i = 0 THEN a ELSE F[C[i - 1]]] = [i \in 0..(n + 1) |-> C[i]]
      BY <2>3
    <3>2. C = [i \in 0..(n + 1) |-> C[i]]
      OBVIOUS
    <3> QED BY <3>1, <3>2
  <2>5. C \in [0..(n + 1) -> V]
    <3>1. C = [i \in 0..(n + 1) |-> C[i]]
      OBVIOUS
    <3> HIDE DEF C
    <3> QED BY <2>3, <3>1
  <2>6. Upto(n + 1, C)
    BY <2>4, <2>5
  <2> HIDE DEF C, Upto
  <2> QED BY <2>2, <2>6
<1>3. S = Nat
  <2> HIDE DEF S
  <2>1. S \in SUBSET Nat
    BY DEF S
  <2> QED BY <1>1, <1>2, <2>1, Induction
<1>4. PICK B : Upto(N, B)
  BY <1>3
<1> QED BY <1>4

-----------------------------------------------------------------------------
(***************************************************************************)
(* Plans.  The levels are a recursive function, so that what is said of    *)
(* them is proved by induction: it has the least of a set of numbers to    *)
(* rest on.  A step of a circle is in no level, and levels only grow.      *)
(***************************************************************************)

StepCount == Cardinality(Steps)

\* There are only so many steps.
LEMMA StepsAreCounted == StepCount \in Nat
  BY PlanAssumption, FS_CardinalityType DEF StepCount

\* The steps that depend on none but these.
Ready(d, done) == {s \in Steps : d[s] \subseteq done}

\* The function gives for every n what the first n levels hold.
Levels(d, B) ==
    B = [n \in 0..StepCount |-> IF n = 0 THEN {} ELSE Ready(d, B[n - 1])]

\* The first level takes what depends on nothing, and every other what
\* depends on the levels before.
LEMMA LevelsAre ==
    ASSUME NEW d, NEW B, Levels(d, B), NEW n \in 0..StepCount
    PROVE  B[n] = IF n = 0 THEN {} ELSE Ready(d, B[n - 1])
<1>1. B[n] = [i \in 0..StepCount |-> IF i = 0 THEN {} ELSE Ready(d, B[i - 1])][n]
  BY DEF Levels
<1> QED BY <1>1

\* There is such a function ...
LEMMA LevelsExist == ASSUME NEW d PROVE \E B : Levels(d, B)
<1> DEFINE V == SUBSET Steps
           F == [X \in V |-> Ready(d, X)]
<1>1. {} \in V /\ F \in [V -> V]
  BY DEF Ready
<1>2. PICK B \in [0..StepCount -> V] : B = [n \in 0..StepCount |-> IF n = 0 THEN {} ELSE F[B[n - 1]]]
  <2> HIDE DEF V, F
  <2> QED BY <1>1, StepsAreCounted, Recursion
<1>3. ASSUME NEW n \in 0..StepCount PROVE B[n] = IF n = 0 THEN {} ELSE Ready(d, B[n - 1])
  <2>1. CASE n = 0
    BY <1>2, <2>1
  <2>2. CASE n # 0
    <3>1. n - 1 \in 0..StepCount
      BY <2>2, StepsAreCounted
    <3>2. B[n] = F[B[n - 1]] /\ B[n - 1] \in V
      BY <1>2, <2>2, <3>1
    <3> QED BY <2>2, <3>2
  <2> QED BY <2>1, <2>2
<1>4. B = [n \in 0..StepCount |-> B[n]]
  OBVIOUS
<1>5. Levels(d, B)
  <2> HIDE DEF V, F
  <2> QED BY <1>3, <1>4 DEF Levels
<1> QED BY <1>5

\* ... and no other.
LEMMA LevelsAreOne == ASSUME NEW d, NEW A, NEW B, Levels(d, A), Levels(d, B) PROVE A = B
<1> DEFINE S == {n \in Nat : n <= StepCount => A[n] = B[n]}
<1>1. A[0] = B[0] /\ \A n \in Nat \ {0} : n <= StepCount =>
          A[n] = Ready(d, A[n - 1]) /\ B[n] = Ready(d, B[n - 1])
  BY LevelsAre, StepsAreCounted
<1>2. ASSUME NEW n \in S PROVE n + 1 \in S
  BY <1>1, <1>2, StepsAreCounted
<1>3. S = Nat
  <2>1. 0 \in S /\ S \in SUBSET Nat
    BY <1>1
  <2> HIDE DEF S
  <2> QED BY <1>2, <2>1, Induction
<1>4. \A n \in 0..StepCount : A[n] = B[n]
  BY <1>3, StepsAreCounted
<1>5. A = [n \in 0..StepCount |-> A[n]] /\ B = [n \in 0..StepCount |-> B[n]]
  BY DEF Levels
<1> QED BY <1>4, <1>5

\* The recursive function of the model is the one.
LEMMA BeforeIs == Levels(deps, Before)
<1>1. \E B : B = [n \in 0..Cardinality(Steps) |->
                  IF n = 0 THEN {} ELSE {s \in Steps : deps[s] \subseteq B[n - 1]}]
  <2>1. PICK B : Levels(deps, B)
    BY LevelsExist
  <2>2. B = [n \in 0..Cardinality(Steps) |->
                  IF n = 0 THEN {} ELSE {s \in Steps : deps[s] \subseteq B[n - 1]}]
    BY <2>1 DEF Levels, Ready, StepCount
  <2> QED BY <2>2
<1>2. Before = [n \in 0..Cardinality(Steps) |->
                  IF n = 0 THEN {} ELSE {s \in Steps : deps[s] \subseteq Before[n - 1]}]
  BY <1>1, Zenon DEF Before
<1> QED BY <1>2 DEF Levels, Ready, StepCount

\* So it is after a step,
LEMMA BeforeNext == Levels(deps, Before)'
  BY BeforeIs, PTL

\* which leaves it as it is unless the dependencies change.
LEMMA BeforeStays == ASSUME deps' = deps PROVE Before' = Before
<1>1. Levels(deps', Before')
  BY BeforeNext
<1> QED BY <1>1, BeforeIs, LevelsAreOne

\* Levels grow; what a step depends on is in a level before.
LEMMA LevelsGrow ==
    /\ Before[0] = {}
    /\ \A n \in Nat : n < StepCount =>
           /\ Before[n] \subseteq Before[n + 1]
           /\ \A s \in Steps : s \in Before[n + 1] <=> deps[s] \subseteq Before[n]
    /\ \A n \in 0..StepCount : Before[n] \subseteq Steps
<1>1. /\ Before[0] = {}
      /\ \A n \in 0..StepCount : n # 0 => Before[n] = Ready(deps, Before[n - 1])
  BY BeforeIs, LevelsAre, StepsAreCounted
<1>2. \A n \in Nat : n < StepCount => Before[n + 1] = Ready(deps, Before[n])
  <2> SUFFICES ASSUME NEW n \in Nat, n < StepCount PROVE Before[n + 1] = Ready(deps, Before[n])
    OBVIOUS
  <2>1. n + 1 \in 0..StepCount /\ n + 1 # 0 /\ (n + 1) - 1 = n
    BY StepsAreCounted
  <2> QED BY <1>1, <2>1
<1> DEFINE S == {n \in Nat : n < StepCount => Before[n] \subseteq Before[n + 1]}
<1>3. 0 \in S
  BY <1>1
<1>4. ASSUME NEW n \in S PROVE n + 1 \in S
  <2> SUFFICES ASSUME n + 1 < StepCount PROVE Before[n + 1] \subseteq Before[(n + 1) + 1]
    OBVIOUS
  <2>1. n \in Nat /\ n < StepCount /\ n + 1 \in Nat /\ Before[n] \subseteq Before[n + 1]
    BY <1>4, StepsAreCounted
  <2>2. Before[n + 1] = Ready(deps, Before[n]) /\ Before[(n + 1) + 1] = Ready(deps, Before[n + 1])
    BY <1>2, <2>1
  <2> QED BY <2>1, <2>2 DEF Ready
<1>5. S = Nat
  <2>1. S \in SUBSET Nat
    OBVIOUS
  <2> HIDE DEF S
  <2> QED BY <1>3, <1>4, <2>1, Induction
<1>6. \A n \in 0..StepCount : Before[n] \subseteq Steps
  BY <1>1 DEF Ready
<1> QED BY <1>1, <1>2, <1>5, <1>6 DEF Ready

\* A step that is in a level is in no circle: with it, all of a path of
\* dependencies is in levels before its own.
LEMMA NoCircles ==
    ASSUME deps \in [Steps -> SUBSET Steps], NEW s \in Before[StepCount]
    PROVE  ~Reaches(s, s)
<1> SUFFICES ASSUME Reaches(s, s) PROVE FALSE
  OBVIOUS
<1>1. PICK path \in [1..StepCount -> Steps], k \in 1..StepCount :
          /\ path[1] \in deps[s] /\ path[k] = s
          /\ \A i \in 1..(k - 1) : path[i + 1] \in deps[path[i]]
  BY DEF Reaches, StepCount
<1>2. PICK n \in Nat : /\ n <= StepCount /\ s \in Before[n]
                       /\ \A m \in Nat : m <= StepCount /\ s \in Before[m] => n <= m
  <2> DEFINE T == {m \in Nat : m <= StepCount /\ s \in Before[m]}
  <2>1. T \in SUBSET Nat /\ T # {}
    BY StepsAreCounted
  <2>2. PICK n \in T : \A m \in T : n <= m
    <3> HIDE DEF T
    <3> QED BY <2>1, Least
  <2> QED BY <2>2
<1>3. PICK m \in Nat : n = m + 1 /\ m < StepCount /\ s \notin Before[m]
  <2>1. n # 0
    BY <1>2, LevelsGrow
  <2>2. n - 1 \in Nat /\ n = (n - 1) + 1 /\ n - 1 < StepCount
    BY <1>2, <2>1, StepsAreCounted
  <2>3. PICK m \in Nat : n = m + 1 /\ m < StepCount
    BY <2>2
  <2>4. ~(n <= m) /\ m <= StepCount
    BY <2>3, StepsAreCounted
  <2>5. s \notin Before[m]
    BY <1>2, <2>4
  <2> QED BY <2>3, <2>5
<1>4. \A t \in Before[m] : t \in Steps /\ deps[t] \subseteq Before[m]
  <2> SUFFICES ASSUME NEW t \in Before[m] PROVE t \in Steps /\ deps[t] \subseteq Before[m]
    OBVIOUS
  <2>1. m \in 0..StepCount /\ t \in Steps
    BY <1>3, LevelsGrow, StepsAreCounted
  <2>2. t \in Before[m + 1]
    BY <1>3, LevelsGrow
  <2> QED BY <1>3, <2>1, <2>2, LevelsGrow
<1> DEFINE S == {i \in Nat : i + 1 <= k => path[i + 1] \in Before[m]}
<1>5. 0 \in S
  <2>1. s \in Steps /\ deps[s] \subseteq Before[m]
    BY <1>2, <1>3, LevelsGrow, StepsAreCounted
  <2> QED BY <1>1, <2>1
<1>6. ASSUME NEW i \in S PROVE i + 1 \in S
  <2> SUFFICES ASSUME (i + 1) + 1 <= k PROVE path[(i + 1) + 1] \in Before[m]
    OBVIOUS
  <2>1. i + 1 \in 1..(k - 1) /\ path[i + 1] \in Before[m]
    BY <1>6, StepsAreCounted
  <2>2. path[(i + 1) + 1] \in deps[path[i + 1]]
    BY <1>1, <2>1
  <2> QED BY <1>4, <2>1, <2>2
<1>7. S = Nat
  <2>1. S \in SUBSET Nat
    OBVIOUS
  <2> HIDE DEF S
  <2> QED BY <1>5, <1>6, <2>1, Induction
<1>8. k - 1 \in Nat /\ (k - 1) + 1 = k
  BY StepsAreCounted
<1>9. k - 1 \in S
  BY <1>7, <1>8
<1>10. path[k] \in Before[m]
  BY <1>8, <1>9
<1> QED BY <1>1, <1>3, <1>10

-----------------------------------------------------------------------------
\* What is reported of a step is how it has ended.
StepsInv ==
    \A s \in Steps :
        /\ at[s] = "done" <=> report[s] # "none"
        /\ report[s] = "error" => status[s] # "completed"
        /\ report[s] = "ok" /\ onFail = "abort" => status[s] = "completed"
        /\ status[s] = "completed" => at[s] = "done"
        /\ at[s] = "backoff" => attempts[s] <= MaxRetries

\* The steps that have begun are those of the levels that have, and none has
\* unless all are in a level.
ExecutionInv ==
    /\ execution = "idle" => levelNo = 0 /\ outcome = "none"
    /\ execution = "level" => levelNo > 0
    /\ execution = "returned" <=> outcome # "none"
    /\ levelNo > 0 \/ execution \in {"between", "level"} => Before[StepCount] = Steps
    /\ \A s \in Steps : at[s] # "none" <=> s \in Before[levelNo]
    /\ outcome = "ok" => Before[levelNo] = Steps

\* Joined by "all", a level is over before the next, and under "abort" each of
\* its steps has succeeded unless the plan is over with it.
JoinInv ==
    join = "all" =>
        /\ levelNo > 0 => \A s \in Before[levelNo - 1] :
               at[s] = "done" /\ (onFail = "abort" => status[s] = "completed")
        /\ execution # "level" => \A s \in Before[levelNo] : at[s] = "done"
        /\ onFail = "abort" =>
               /\ execution = "between" \/ outcome = "ok" =>
                      \A s \in Before[levelNo] : status[s] = "completed"
               /\ outcome = "error" =>
                      \E s \in Steps : status[s] # "completed" /\ at[s] \in {"none", "done"}

PlanInv == PlanTypeOK /\ StepsInv /\ ExecutionInv /\ JoinInv

\* A plan that has not been ordered has started nothing.
LEMMA PlanInitInv == PlanInit => PlanInv
<1> SUFFICES ASSUME PlanInit PROVE PlanInv
  OBVIOUS
<1>1. StepCount \in Nat /\ Before[0] = {}
  <2>1. deps \in [Steps -> SUBSET Steps]
    BY DEF PlanInit
  <2> QED BY StepsAreCounted, BeforeIs, LevelsAre
<1>2. PlanTypeOK
  <2>1. 0 \in 0..StepCount /\ 0 \in 0..(MaxRetries + 1)
    BY <1>1, PlanAssumption
  <2> QED BY <2>1 DEF PlanInit, PlanTypeOK, StepCount
<1>3. StepsInv
  BY DEF PlanInit, StepsInv
<1>4. ExecutionInv
  BY <1>1 DEF PlanInit, ExecutionInv
<1>5. JoinInv
  BY <1>1 DEF PlanInit, JoinInv
<1> QED BY <1>2, <1>3, <1>4, <1>5 DEF PlanInv

\* What the levels are when a plan begins one, or ends.
LEMMA LevelsInPlan ==
    ASSUME PlanInv
    PROVE  /\ StepCount \in Nat /\ levelNo \in 0..StepCount
           /\ Before[0] = {} /\ Before[levelNo] \subseteq Steps
           /\ levelNo < StepCount => /\ Before[levelNo] \subseteq Before[levelNo + 1]
                                     /\ Before[levelNo + 1] \subseteq Steps
           /\ levelNo > 0 => Before[levelNo - 1] \subseteq Before[levelNo]
<1>1. deps \in [Steps -> SUBSET Steps] /\ levelNo \in 0..StepCount /\ StepCount \in Nat
  BY StepsAreCounted DEF PlanInv, PlanTypeOK, StepCount
<1>2. levelNo > 0 => Before[levelNo - 1] \subseteq Before[levelNo]
  <2> SUFFICES ASSUME levelNo > 0 PROVE Before[levelNo - 1] \subseteq Before[levelNo]
    OBVIOUS
  <2>1. PICK m \in Nat : levelNo = m + 1 /\ m < StepCount /\ levelNo - 1 = m
    <3>1. levelNo - 1 \in Nat /\ levelNo = (levelNo - 1) + 1 /\ levelNo - 1 < StepCount
      BY <1>1
    <3> QED BY <3>1
  <2>2. Before[m] \subseteq Before[m + 1]
    BY <1>1, <2>1, LevelsGrow
  <2> QED BY <2>1, <2>2
<1>3. levelNo < StepCount => /\ Before[levelNo] \subseteq Before[levelNo + 1]
                             /\ Before[levelNo + 1] \subseteq Steps
  <2>1. levelNo \in Nat /\ (levelNo < StepCount => levelNo + 1 \in 0..StepCount)
    BY <1>1
  <2> QED BY <1>1, <2>1, LevelsGrow
<1> QED BY <1>1, <1>2, <1>3, LevelsGrow

\* Ordering makes levels, or finds a circle and refuses the plan.
LEMMA OrderInv == ASSUME PlanInv, Order PROVE PlanInv'
<1>1. Before' = Before
  BY BeforeStays DEF Order, strategyVars
<1>2. StepCount' = StepCount /\ StepCount = Cardinality(Steps)
  BY DEF StepCount
<1>3. levelNo = 0 /\ outcome = "none" /\ Before[0] = {}
  BY LevelsInPlan DEF PlanInv, ExecutionInv, Order
<1>4. /\ levelNo' = levelNo /\ UNCHANGED <<deps, join, onFail, cancelled, at, status, attempts,
                                           report>>
      /\ \/ execution' = "between" /\ outcome' = outcome /\ Before[StepCount] = Steps
         \/ execution' = "returned" /\ outcome' = "error" /\ Before[StepCount] # Steps
  BY <1>2 DEF Order, ReturnPlan, strategyVars, stepVars
<1>5. PlanTypeOK'
  BY <1>4 DEF PlanInv, PlanTypeOK
<1>6. StepsInv'
  BY <1>4 DEF PlanInv, StepsInv
<1>7. ExecutionInv'
  BY <1>1, <1>2, <1>3, <1>4 DEF PlanInv, ExecutionInv
<1>8. JoinInv'
  <2>1. PICK s \in Steps : TRUE
    BY PlanAssumption
  <2>2. at[s] = "none" /\ status[s] # "completed"
    BY <1>3 DEF PlanInv, ExecutionInv, StepsInv
  <2> QED BY <1>1, <1>3, <1>4, <2>2 DEF JoinInv
<1> QED BY <1>5, <1>6, <1>7, <1>8 DEF PlanInv

\* A level begins when the one before is over.
LEMMA BeginLevelInv == ASSUME PlanInv, BeginLevel PROVE PlanInv'
<1>1. Before' = Before
  BY BeforeStays DEF BeginLevel, strategyVars
<1>2. StepCount' = StepCount /\ StepCount = Cardinality(Steps)
  BY DEF StepCount
<1>3. CASE Before[levelNo] = Steps
  <2>1. /\ execution = "between" /\ execution' = "returned" /\ outcome' = "ok" /\ levelNo' = levelNo
        /\ UNCHANGED <<deps, join, onFail, cancelled, at, status, attempts, report>>
    BY <1>3 DEF BeginLevel, ReturnPlan, strategyVars, stepVars
  <2>2. PlanTypeOK'
    BY <2>1 DEF PlanInv, PlanTypeOK
  <2>3. StepsInv'
    BY <2>1 DEF PlanInv, StepsInv
  <2>4. ExecutionInv'
    BY <1>1, <1>2, <1>3, <2>1 DEF PlanInv, ExecutionInv
  <2>5. JoinInv'
    BY <1>1, <2>1 DEF PlanInv, JoinInv
  <2> QED BY <2>2, <2>3, <2>4, <2>5 DEF PlanInv
<1>4. CASE Before[levelNo] # Steps
  <2>1. /\ execution = "between" /\ execution' = "level" /\ outcome' = outcome
        /\ levelNo' = levelNo + 1
        /\ at' = [s \in Steps |-> IF s \in Level(levelNo + 1) THEN "start" ELSE at[s]]
        /\ UNCHANGED <<deps, join, onFail, cancelled, status, attempts, report>>
    BY <1>4 DEF BeginLevel, strategyVars
  <2>2. /\ StepCount \in Nat /\ levelNo \in 0..StepCount /\ levelNo < StepCount
        /\ Before[StepCount] = Steps /\ outcome = "none"
        /\ Before[levelNo] \subseteq Before[levelNo + 1] /\ Before[levelNo + 1] \subseteq Steps
    <3>1. Before[StepCount] = Steps /\ outcome = "none"
      BY <2>1 DEF PlanInv, ExecutionInv
    <3>2. StepCount \in Nat /\ levelNo \in 0..StepCount /\ levelNo # StepCount
      BY <1>4, <3>1, LevelsInPlan
    <3> QED BY <3>1, <3>2, LevelsInPlan
  <2>3. Level(levelNo + 1) = Before[levelNo + 1] \ Before[levelNo]
    <3>1. (levelNo + 1) - 1 = levelNo
      BY <2>2
    <3> QED BY <3>1 DEF Level
  <2>4. \A s \in Steps : /\ at[s] # "none" <=> s \in Before[levelNo]
                         /\ at[s] # "none" => at'[s] = at[s]
                         /\ at'[s] # at[s] => at'[s] = "start"
                         /\ at'[s] # "none" <=> s \in Before[levelNo + 1]
    <3>1. \A s \in Steps : at[s] # "none" <=> s \in Before[levelNo]
      BY DEF PlanInv, ExecutionInv
    <3>2. at \in [Steps -> {"none", "start", "attempt", "backoff", "done"}]
      BY DEF PlanInv, PlanTypeOK
    <3> QED BY <2>1, <2>2, <2>3, <3>1, <3>2
  <2>5. PlanTypeOK'
    <3>1. levelNo + 1 \in 0..StepCount
      BY <2>2
    <3>2. at' \in [Steps -> {"none", "start", "attempt", "backoff", "done"}]
      BY <2>1 DEF PlanInv, PlanTypeOK
    <3> QED BY <1>2, <2>1, <3>1, <3>2 DEF PlanInv, PlanTypeOK
  <2>6. StepsInv'
    BY <2>1, <2>4 DEF PlanInv, StepsInv
  <2>7. ExecutionInv'
    BY <1>1, <1>2, <2>1, <2>2, <2>4 DEF ExecutionInv
  <2>8. JoinInv'
    <3>1. levelNo' - 1 = levelNo
      BY <2>1, <2>2
    <3> SUFFICES ASSUME join = "all"
                 PROVE  /\ \A s \in Before[levelNo] :
                              at'[s] = "done" /\ (onFail = "abort" => status[s] = "completed")
      BY <1>1, <2>1, <2>2, <3>1 DEF JoinInv
    <3>2. \A s \in Before[levelNo] : at[s] = "done" /\ s \in Steps
      BY <2>1, <2>2 DEF PlanInv, JoinInv
    <3>3. onFail = "abort" => \A s \in Before[levelNo] : status[s] = "completed"
      BY <2>1 DEF PlanInv, JoinInv
    <3> QED BY <2>4, <3>2, <3>3
  <2> QED BY <2>5, <2>6, <2>7, <2>8 DEF PlanInv
<1> QED BY <1>3, <1>4

\* A level that is over by "all" has run all of its steps.
LEMMA JoinLevelInv == ASSUME PlanInv, JoinLevel PROVE PlanInv'
<1>1. PICK failed \in BOOLEAN :
          /\ EndLevel(failed) /\ execution = "level"
          /\ join = "all" =>
                 /\ Reported("none") = {}
                 /\ onFail = "abort" => (failed <=> Reported("error") # {})
  <2>1. CASE EndSingle
    BY <2>1 DEF EndSingle
  <2>2. CASE JoinLevelAll
    BY <2>2 DEF JoinLevelAll
  <2>3. CASE JoinLevelFirst
    BY <2>3 DEF JoinLevelFirst
  <2>4. CASE JoinLevelAny
    BY <2>4 DEF JoinLevelAny
  <2>5. CASE JoinCancelled
    BY <2>5 DEF JoinCancelled
  <2> QED BY <2>1, <2>2, <2>3, <2>4, <2>5 DEF JoinLevel
<1>2. /\ levelNo' = levelNo /\ UNCHANGED <<deps, join, onFail, cancelled, at, status, attempts,
                                           report>>
      /\ \/ failed /\ execution' = "returned" /\ outcome' = "error"
         \/ ~failed /\ execution' = "between" /\ outcome' = outcome
  BY <1>1 DEF EndLevel, ReturnPlan, strategyVars, stepVars
<1>3. Before' = Before
  BY <1>2, BeforeStays
<1>4. StepCount' = StepCount /\ levelNo > 0 /\ outcome = "none" /\ Before[StepCount] = Steps
  BY <1>1 DEF StepCount, PlanInv, ExecutionInv
<1>5. PlanTypeOK'
  BY <1>2 DEF PlanInv, PlanTypeOK
<1>6. StepsInv'
  BY <1>2 DEF PlanInv, StepsInv
<1>7. ExecutionInv'
  BY <1>1, <1>2, <1>3, <1>4 DEF PlanInv, ExecutionInv
<1>8. ASSUME join = "all"
      PROVE  /\ \A s \in Before[levelNo] : s \in Steps /\ at[s] = "done"
             /\ onFail = "abort" /\ ~failed => \A s \in Before[levelNo] : status[s] = "completed"
             /\ onFail = "abort" /\ failed =>
                    \E s \in Steps : status[s] # "completed" /\ at[s] = "done"
  <2>1. /\ Before[levelNo] \subseteq Steps /\ Before[levelNo - 1] \subseteq Before[levelNo]
        /\ Current = Before[levelNo] \ Before[levelNo - 1]
    BY <1>4, LevelsInPlan DEF Current, Level
  <2>2. \A s \in Before[levelNo - 1] :
            at[s] = "done" /\ (onFail = "abort" => status[s] = "completed")
    BY <1>4, <1>8 DEF PlanInv, JoinInv
  <2>3. \A s \in Current : /\ s \in Steps /\ at[s] = "done" /\ report[s] # "none"
                           /\ report[s] = "error" => status[s] # "completed"
                           /\ report[s] = "ok" /\ onFail = "abort" => status[s] = "completed"
                           /\ report[s] \in {"none", "ok", "error"}
    BY <1>1, <1>8, <2>1 DEF Reported, PlanInv, StepsInv, PlanTypeOK
  <2>4. onFail = "abort" => (failed <=> \E s \in Current : report[s] = "error")
    BY <1>1, <1>8 DEF Reported
  <2> QED BY <2>1, <2>2, <2>3, <2>4
<1>9. JoinInv'
  BY <1>1, <1>2, <1>3, <1>4, <1>8 DEF PlanInv, JoinInv
<1> QED BY <1>5, <1>6, <1>7, <1>9 DEF PlanInv

\* A step that runs is neither one that is yet to start nor one that has ended.
LEMMA RunStepInv == ASSUME PlanInv, NEW s \in Steps, RunStep(s) PROVE PlanInv'
<1>1. /\ UNCHANGED <<deps, join, onFail, execution, levelNo, outcome, cancelled>>
      /\ at[s] \in {"start", "attempt", "backoff"} /\ at'[s] \in {"attempt", "backoff", "done"}
      /\ \A t \in Steps \ {s} : at'[t] = at[t] /\ status'[t] = status[t]
      /\ PlanTypeOK' /\ StepsInv'
  <2> DEFINE Goal ==
        /\ UNCHANGED <<deps, join, onFail, execution, levelNo, outcome, cancelled>>
        /\ at[s] \in {"start", "attempt", "backoff"} /\ at'[s] \in {"attempt", "backoff", "done"}
        /\ \A t \in Steps \ {s} : at'[t] = at[t] /\ status'[t] = status[t]
        /\ PlanTypeOK' /\ StepsInv'
  <2> USE PlanAssumption DEF PlanInv, PlanTypeOK, StepsInv, StepGoto, EndStep, strategyVars,
                             executionVars
  <2>1. CASE StartStep(s)
    BY <2>1 DEF StartStep
  <2>2. CASE Succeed(s)
    BY <2>2 DEF Succeed
  <2>3. CASE FailStep(s)
    <3>1. CASE onFail = "retry" /\ attempts[s] <= MaxRetries
      BY <2>3, <3>1 DEF FailStep
    <3>2. CASE ~(onFail = "retry" /\ attempts[s] <= MaxRetries)
      BY <2>3, <3>2 DEF FailStep
    <3> QED BY <3>1, <3>2
  <2>4. CASE RetryStep(s)
    BY <2>4 DEF RetryStep
  <2>5. CASE CancelBackoff(s)
    BY <2>5 DEF CancelBackoff
  <2> HIDE DEF Goal
  <2> QED BY <2>1, <2>2, <2>3, <2>4, <2>5 DEF RunStep, Goal
<1>2. Before' = Before
  BY <1>1, BeforeStays
<1>3. \A t \in Steps : /\ (at[t] # "none") <=> (at'[t] # "none")
                       /\ at[t] \in {"none", "done"} => at'[t] = at[t] /\ status'[t] = status[t]
  BY <1>1
<1>4. ExecutionInv'
  <2>1. StepCount' = StepCount
    BY DEF StepCount
  <2> QED BY <1>1, <1>2, <1>3, <2>1 DEF PlanInv, ExecutionInv
<1>5. JoinInv'
  <2>1. Before[levelNo] \subseteq Steps /\ (levelNo > 0 => Before[levelNo - 1] \subseteq Steps)
    BY LevelsInPlan
  <2>2. \A t \in Steps : status[t] = "completed" => at[t] = "done"
    BY DEF PlanInv, StepsInv
  <2> QED BY <1>1, <1>2, <1>3, <2>1, <2>2 DEF PlanInv, JoinInv
<1> QED BY <1>1, <1>4, <1>5 DEF PlanInv

\* Every step of the planner keeps the invariant.
LEMMA PlanKeepsInv == PlanInv /\ [PlanNext]_planVars => PlanInv'
<1> SUFFICES ASSUME PlanInv, [PlanNext]_planVars PROVE PlanInv'
  OBVIOUS
<1>1. CASE CancelPlan \/ UNCHANGED planVars
  <2>1. UNCHANGED <<deps, join, onFail, execution, levelNo, outcome, at, status, attempts, report>>
        /\ cancelled' \in BOOLEAN
    BY <1>1 DEF CancelPlan, planVars, strategyVars, executionVars, stepVars, PlanInv, PlanTypeOK
  <2>2. Before' = Before /\ StepCount' = StepCount
    BY <2>1, BeforeStays DEF StepCount
  <2>3. PlanTypeOK' /\ StepsInv'
    BY <2>1 DEF PlanInv, PlanTypeOK, StepsInv
  <2>4. ExecutionInv' /\ JoinInv'
    BY <2>1, <2>2 DEF PlanInv, ExecutionInv, JoinInv
  <2> QED BY <2>3, <2>4 DEF PlanInv
<1>2. CASE Order
  BY <1>2, OrderInv
<1>3. CASE BeginLevel
  BY <1>3, BeginLevelInv
<1>4. CASE JoinLevel
  BY <1>4, JoinLevelInv
<1>5. CASE \E s \in Steps : RunStep(s)
  BY <1>5, RunStepInv
<1> QED BY <1>1, <1>2, <1>3, <1>4, <1>5 DEF PlanNext

\* A step that has started depends on steps of the levels before its own.
LEMMA PlanInvIsHonest == PlanInv => PlansAreHonest
<1> SUFFICES ASSUME PlanInv PROVE PlansAreHonest
  OBVIOUS
<1>1. PlanTypeOK /\ StepCount \in Nat /\ levelNo \in 0..StepCount
  BY LevelsInPlan DEF PlanInv
<1>2. ASSUME NEW s \in Steps, at[s] # "none"
      PROVE  levelNo > 0 /\ deps[s] \subseteq Before[levelNo - 1]
  <2>1. s \in Before[levelNo]
    BY <1>2 DEF PlanInv, ExecutionInv
  <2>2. levelNo > 0
    BY <1>1, <2>1, LevelsInPlan
  <2>3. PICK m \in Nat : levelNo = m + 1 /\ m < StepCount /\ levelNo - 1 = m
    <3>1. levelNo - 1 \in Nat /\ levelNo = (levelNo - 1) + 1 /\ levelNo - 1 < StepCount
      BY <1>1, <2>2
    <3> QED BY <3>1
  <2>4. s \in Before[m + 1] <=> deps[s] \subseteq Before[m]
    BY <1>1, <2>3, LevelsGrow DEF PlanTypeOK
  <2> QED BY <2>1, <2>2, <2>3, <2>4
<1>3. DependenciesFirst
  <2>1. join = "all" =>
            \A s \in Steps : at[s] # "none" =>
                \A d \in deps[s] : at[d] = "done" /\ (onFail = "abort" => status[d] = "completed")
    BY <1>2 DEF PlanInv, JoinInv
  <2>2. outcome = "ok" => \A s \in Steps : at[s] # "none"
    BY DEF PlanInv, ExecutionInv
  <2>3. ASSUME NEW t \in Steps, at[t] # "none", NEW s \in Steps PROVE ~Reaches(s, s)
    <3>1. s \in Before[StepCount]
      BY <1>2, <2>3 DEF PlanInv, ExecutionInv
    <3> QED BY <1>1, <3>1, NoCircles DEF PlanTypeOK
  <2> QED BY <2>1, <2>2, <2>3 DEF DependenciesFirst
<1>4. PlanOutcomeIsHonest
  <2> SUFFICES ASSUME outcome # "none", join = "all"
               PROVE  /\ \A s \in Steps : at[s] \in {"none", "done"}
                      /\ onFail = "abort" =>
                             (outcome = "ok" <=> \A s \in Steps : status[s] = "completed")
    BY DEF PlanOutcomeIsHonest
  <2>1. /\ execution = "returned" /\ outcome \in {"ok", "error"}
        /\ \A s \in Steps : at[s] # "none" <=> s \in Before[levelNo]
        /\ outcome = "ok" => Before[levelNo] = Steps
    BY DEF PlanInv, PlanTypeOK, ExecutionInv
  <2> QED BY <2>1 DEF PlanInv, JoinInv
<1> QED BY <1>1, <1>3, <1>4 DEF PlansAreHonest

\* A plan runs its steps in the order of their dependencies, whatever they are,
\* refuses one whose steps form a circle, and says of it how its steps ended.
\* planner.go:134-188, executor.go:47-211.
THEOREM PlansAreHonestHolds == PlanSpec => []PlansAreHonest
<1>1. PlanInit => PlanInv
  BY PlanInitInv
<1>2. PlanInv /\ [PlanNext]_planVars => PlanInv'
  BY PlanKeepsInv
<1>3. PlanInv => PlansAreHonest
  BY PlanInvIsHonest
<1> QED BY <1>1, <1>2, <1>3, PTL DEF PlanSpec

-----------------------------------------------------------------------------
(***************************************************************************)
(* Routes.  What can be reached by fallbacks is a recursive function;      *)
(* walks say the same without it.  A circle through the route that is      *)
(* added begins, there, with one of its own fallbacks, and from that one   *)
(* the routes of before lead back to it.                                   *)
(***************************************************************************)

Follows == [Routes -> SUBSET Routes]

IsWalk(G, k, p) == p \in [0..k -> Routes] /\ \A i \in 0..(k - 1) : p[i + 1] \in G[p[i]]
Walk(G, k, x, y) == \E p : IsWalk(G, k, p) /\ p[0] = x /\ p[k] = y

\* A part of a walk is one.
LEMMA PartOfWalk ==
    ASSUME NEW G \in Follows, NEW k \in Nat, NEW p, IsWalk(G, k, p),
           NEW i \in 0..k, NEW j \in 0..k, i <= j
    PROVE  Walk(G, j - i, p[i], p[j])
<1> DEFINE q == [m \in 0..(j - i) |-> p[m + i]]
<1>1. \A m \in 0..(j - i) : m + i \in 0..k /\ q[m] = p[m + i]
  OBVIOUS
<1>2. q \in [0..(j - i) -> Routes]
  BY <1>1 DEF IsWalk
<1>3. ASSUME NEW m \in 0..((j - i) - 1) PROVE q[m + 1] \in G[q[m]]
  <2>1. /\ m \in 0..(j - i) /\ m + 1 \in 0..(j - i) /\ m + i \in 0..(k - 1)
        /\ (m + 1) + i = (m + i) + 1
    OBVIOUS
  <2>2. p[(m + i) + 1] \in G[p[m + i]]
    BY <2>1 DEF IsWalk
  <2> QED BY <1>1, <2>1, <2>2
<1>4. q[0] = p[i] /\ q[j - i] = p[j]
  <2>1. 0 \in 0..(j - i) /\ j - i \in 0..(j - i) /\ (j - i) + i = j /\ 0 + i = i
    OBVIOUS
  <2> QED BY <1>1, <2>1
<1> HIDE DEF q
<1> QED BY <1>2, <1>3, <1>4 DEF Walk, IsWalk

\* Two walks, the one from where the other ends, are one.
LEMMA WalksJoin ==
    ASSUME NEW G \in Follows, NEW i \in Nat, NEW j \in Nat, NEW x, NEW y, NEW z,
           Walk(G, i, x, y), Walk(G, j, y, z)
    PROVE  Walk(G, i + j, x, z)
<1>1. PICK p : IsWalk(G, i, p) /\ p[0] = x /\ p[i] = y
  BY DEF Walk
<1>2. PICK q : IsWalk(G, j, q) /\ q[0] = y /\ q[j] = z
  BY DEF Walk
<1> DEFINE w == [m \in 0..(i + j) |-> IF m <= i THEN p[m] ELSE q[m - i]]
<1>3. \A m \in 0..(i + j) : /\ m <= i => m \in 0..i /\ w[m] = p[m]
                            /\ m >= i => m - i \in 0..j /\ w[m] = q[m - i]
  <2> SUFFICES ASSUME NEW m \in 0..(i + j)
               PROVE  /\ m <= i => m \in 0..i /\ w[m] = p[m]
                      /\ m >= i => m - i \in 0..j /\ w[m] = q[m - i]
    OBVIOUS
  <2>1. CASE m < i
    BY <2>1
  <2>2. CASE m = i
    <3>1. m - i = 0
      BY <2>2
    <3> QED BY <1>1, <1>2, <2>2, <3>1
  <2>3. CASE m > i
    BY <2>3
  <2> QED BY <2>1, <2>2, <2>3
<1>4. w \in [0..(i + j) -> Routes]
  <2>1. \A m \in 0..(i + j) : w[m] \in Routes
    BY <1>1, <1>2, <1>3 DEF IsWalk
  <2>2. w = [m \in 0..(i + j) |-> w[m]]
    OBVIOUS
  <2> HIDE DEF w
  <2> QED BY <2>1, <2>2
<1>5. w[0] = x /\ w[i + j] = z
  <2>1. 0 \in 0..(i + j) /\ i + j \in 0..(i + j) /\ (i + j) - i = j
    OBVIOUS
  <2> HIDE DEF w
  <2> QED BY <1>1, <1>2, <1>3, <2>1
<1> HIDE DEF w
<1>6. ASSUME NEW m \in 0..((i + j) - 1) PROVE w[m + 1] \in G[w[m]]
  <2>1. m \in 0..(i + j) /\ m + 1 \in 0..(i + j)
    OBVIOUS
  <2>2. CASE m < i
    <3>1. m \in 0..(i - 1) /\ m + 1 <= i /\ m <= i
      BY <2>2
    <3>2. p[m + 1] \in G[p[m]]
      BY <1>1, <3>1 DEF IsWalk
    <3> QED BY <1>3, <2>1, <3>1, <3>2
  <2>3. CASE m >= i
    <3>1. m - i \in 0..(j - 1) /\ m + 1 >= i /\ (m + 1) - i = (m - i) + 1
      BY <2>3
    <3>2. q[(m - i) + 1] \in G[q[m - i]]
      BY <1>2, <3>1 DEF IsWalk
    <3> QED BY <1>3, <2>1, <2>3, <3>1, <3>2
  <2> QED BY <2>2, <2>3
<1> QED BY <1>4, <1>5, <1>6 DEF Walk, IsWalk

\* A walk of one step ...
LEMMA WalkOfOne ==
    ASSUME NEW G \in Follows, NEW x \in Routes, NEW y \in Routes
    PROVE  Walk(G, 1, x, y) <=> y \in G[x]
<1>1. ASSUME Walk(G, 1, x, y) PROVE y \in G[x]
  <2>1. PICK p : IsWalk(G, 1, p) /\ p[0] = x /\ p[1] = y
    BY <1>1 DEF Walk
  <2>2. 0 \in 0..(1 - 1) /\ 0 + 1 = 1
    OBVIOUS
  <2> QED BY <2>1, <2>2 DEF IsWalk
<1>2. ASSUME y \in G[x] PROVE Walk(G, 1, x, y)
  <2> DEFINE p == [m \in 0..1 |-> IF m = 0 THEN x ELSE y]
  <2>1. p[0] = x /\ p[1] = y /\ p \in [0..1 -> Routes]
    OBVIOUS
  <2>2. \A i \in 0..(1 - 1) : i = 0 /\ i + 1 = 1
    OBVIOUS
  <2> HIDE DEF p
  <2>3. IsWalk(G, 1, p)
    BY <1>2, <2>1, <2>2 DEF IsWalk
  <2> QED BY <2>1, <2>3 DEF Walk
<1> QED BY <1>1, <1>2

\* ... and the first step of a longer one.
LEMMA FirstOfWalk ==
    ASSUME NEW G \in Follows, NEW k \in Nat \ {0}, NEW x, NEW y, Walk(G, k, x, y)
    PROVE  \E f \in G[x] : f \in Routes /\ Walk(G, k - 1, f, y)
<1>1. PICK p : IsWalk(G, k, p) /\ p[0] = x /\ p[k] = y
  BY DEF Walk
<1>2. 1 \in 0..k /\ k \in 0..k /\ 1 <= k /\ 0 \in 0..(k - 1) /\ 0 + 1 = 1
  OBVIOUS
<1>3. p[1] \in G[x] /\ p[1] \in Routes
  BY <1>1, <1>2 DEF IsWalk
<1>4. Walk(G, k - 1, p[1], p[k])
  BY <1>1, <1>2, PartOfWalk
<1> QED BY <1>1, <1>3, <1>4

\* Two graphs that differ in what follows r: a walk to r has, up to where it
\* comes to it first, the edges of both.
LEMMA FirstVisit ==
    ASSUME NEW G \in Follows, NEW H \in Follows, NEW r \in Routes,
           \A s \in Routes \ {r} : H[s] = G[s],
           NEW k \in Nat, NEW x, Walk(H, k, x, r)
    PROVE  \E j \in 0..k : Walk(G, j, x, r)
<1>1. PICK p : IsWalk(H, k, p) /\ p[0] = x /\ p[k] = r
  BY DEF Walk
<1>2. PICK j \in 0..k : p[j] = r /\ \A m \in 0..k : p[m] = r => j <= m
  <2> DEFINE T == {m \in 0..k : p[m] = r}
  <2>1. k \in T /\ T \in SUBSET Nat
    BY <1>1
  <2>2. PICK j \in T : \A m \in T : j <= m
    <3> HIDE DEF T
    <3> QED BY <2>1, Least
  <2> QED BY <2>2
<1> DEFINE q == [m \in 0..j |-> p[m]]
<1>3. q \in [0..j -> Routes] /\ q[0] = x /\ q[j] = r
  BY <1>1, <1>2 DEF IsWalk
<1>4. ASSUME NEW m \in 0..(j - 1) PROVE q[m + 1] \in G[q[m]]
  <2>1. /\ m \in 0..(k - 1) /\ m \in 0..k /\ ~(j <= m)
        /\ m \in 0..j /\ m + 1 \in 0..j
    OBVIOUS
  <2>2. p[m] \in Routes \ {r} /\ p[m + 1] \in H[p[m]]
    BY <1>1, <1>2, <2>1 DEF IsWalk
  <2> QED BY <2>1, <2>2
<1> HIDE DEF q
<1> QED BY <1>3, <1>4 DEF Walk, IsWalk

RouteCount == Cardinality(Routes)

\* There are only so many routes.
LEMMA RoutesAreCounted == RouteCount \in Nat
  BY RoutingAssumption, FS_CardinalityType DEF RouteCount

\* No circle of as many steps as there are routes, and one.
NoCircle(G) == \A x \in Routes, k \in 1..(RouteCount + 1) : ~Walk(G, k, x, x)

\* A circle that is new has to begin with one of the new edges.
LEMMA NewCircle ==
    ASSUME NEW G \in Follows, NEW H \in Follows, NEW r \in Routes, NoCircle(G),
           \A s \in Routes \ {r} : H[s] = G[s],
           \A f \in H[r] : f # r /\ \A j \in 1..(RouteCount + 1) : ~Walk(G, j, f, r)
    PROVE  NoCircle(H)
<1> SUFFICES ASSUME NEW x \in Routes, NEW k \in 1..(RouteCount + 1), Walk(H, k, x, x)
             PROVE  FALSE
  BY DEF NoCircle
<1> USE RoutesAreCounted
<1>1. PICK p : IsWalk(H, k, p) /\ p[0] = x /\ p[k] = x
  BY DEF Walk
<1>2. CASE \E i \in 0..k : p[i] = r
  <2>1. PICK i \in 0..k : p[i] = r
    BY <1>2
  <2>2. Walk(H, i - 0, p[0], p[i]) /\ Walk(H, k - i, p[i], p[k])
    <3>1. 0 \in 0..k /\ k \in 0..k /\ 0 <= i /\ i <= k /\ k \in Nat
      OBVIOUS
    <3> QED BY <1>1, <3>1, PartOfWalk
  <2>3. i - 0 = i /\ i \in Nat /\ k - i \in Nat /\ (k - i) + i = k
    OBVIOUS
  <2>4. Walk(H, k, r, r)
    BY <1>1, <2>1, <2>2, <2>3, WalksJoin
  <2>5. PICK f \in H[r] : f \in Routes /\ Walk(H, k - 1, f, r)
    <3>1. k \in Nat \ {0}
      OBVIOUS
    <3> QED BY <2>4, <3>1, FirstOfWalk
  <2>6. PICK j \in 0..(k - 1) : Walk(G, j, f, r)
    <3>1. k - 1 \in Nat
      OBVIOUS
    <3> QED BY <2>5, <3>1, FirstVisit
  <2>7. j = 0
    <3>1. j = 0 \/ j \in 1..(RouteCount + 1)
      OBVIOUS
    <3> QED BY <2>5, <2>6, <3>1
  <2>8. f = r
    BY <2>6, <2>7 DEF Walk
  <2> QED BY <2>5, <2>8
<1>3. CASE \A i \in 0..k : p[i] # r
  <2>1. ASSUME NEW i \in 0..(k - 1) PROVE p[i + 1] \in G[p[i]]
    <3>1. i \in 0..k
      OBVIOUS
    <3>2. p[i] \in Routes \ {r} /\ p[i + 1] \in H[p[i]]
      BY <1>1, <1>3, <3>1 DEF IsWalk
    <3> QED BY <3>2
  <2>2. Walk(G, k, x, x)
    BY <1>1, <2>1 DEF Walk, IsWalk
  <2> QED BY <2>2 DEF NoCircle
<1> QED BY <1>2, <1>3

\* What has fewer edges has no more circles.
LEMMA FewerEdges ==
    ASSUME NEW G \in Follows, NEW H \in Follows, NoCircle(G), \A s \in Routes : H[s] \subseteq G[s]
    PROVE  NoCircle(H)
<1> SUFFICES ASSUME NEW x \in Routes, NEW k \in 1..(RouteCount + 1), Walk(H, k, x, x)
             PROVE  FALSE
  BY DEF NoCircle
<1> USE RoutesAreCounted
<1>1. PICK p : IsWalk(H, k, p) /\ p[0] = x /\ p[k] = x
  BY DEF Walk
<1>2. ASSUME NEW i \in 0..(k - 1) PROVE p[i + 1] \in G[p[i]]
  <2>1. i \in 0..k
    OBVIOUS
  <2> QED BY <1>1, <2>1 DEF IsWalk
<1>3. Walk(G, k, x, x)
  BY <1>1, <1>2 DEF Walk, IsWalk
<1> QED BY <1>3 DEF NoCircle

-----------------------------------------------------------------------------
\* Who follows whom in a table of routes.
Graph(table) == [r \in Routes |-> ToSet(table[r].fallbacks)]

Entries == [known : BOOLEAN, enabled : BOOLEAN, priority : Priorities \cup {0},
            fallbacks : Seq(Routes)]
Tables == [Routes -> Entries]

\* The fallbacks of a table are routes.
LEMMA GraphFollows == ASSUME NEW table \in Tables PROVE Graph(table) \in Follows
<1>1. \A r \in Routes : ToSet(table[r].fallbacks) \in SUBSET Routes
  BY DEF Tables, Entries, ToSet
<1> QED BY <1>1 DEF Graph, Follows

\* What follows what can be reached can be reached.
ReachNext(G, X) == [r \in Routes |-> X[r] \cup UNION {X[f] : f \in G[r]}]

\* The recursive function of the model reaches what walks do.
LEMMA ReachIs ==
    ASSUME routes \in Tables
    PROVE  /\ \A r \in Routes : Reach[0][r] = Graph(routes)[r]
           /\ \A n \in 1..RouteCount, r \in Routes :
                  Reach[n][r] = Reach[n - 1][r] \cup UNION {Reach[n - 1][f] : f \in Graph(routes)[r]}
<1> DEFINE G == Graph(routes)
           F == [X \in Follows |-> ReachNext(G, X)]
<1>1. G \in Follows /\ \A r \in Routes : G[r] = ToSetOf(r)
  BY GraphFollows DEF Graph, ToSetOf
<1>2. F \in [Follows -> Follows]
  <2> SUFFICES ASSUME NEW X \in Follows PROVE ReachNext(G, X) \in Follows
    OBVIOUS
  <2> HIDE DEF G
  <2>1. \A r \in Routes : X[r] \cup UNION {X[f] : f \in G[r]} \in SUBSET Routes
    BY <1>1 DEF Follows
  <2> QED BY <2>1 DEF ReachNext, Follows
<1>3. PICK B \in [0..RouteCount -> Follows] :
          B = [n \in 0..RouteCount |-> IF n = 0 THEN G ELSE F[B[n - 1]]]
  <2> HIDE DEF F, G
  <2> QED BY <1>1, <1>2, RoutesAreCounted, Recursion
<1>4. \A n \in 0..RouteCount :
          B[n] = [r \in Routes |-> IF n = 0 THEN ToSetOf(r)
                      ELSE B[n - 1][r] \cup UNION {B[n - 1][f] : f \in ToSetOf(r)}]
  <2> SUFFICES ASSUME NEW n \in 0..RouteCount
               PROVE  B[n] = [r \in Routes |-> IF n = 0 THEN ToSetOf(r)
                          ELSE B[n - 1][r] \cup UNION {B[n - 1][f] : f \in ToSetOf(r)}]
    OBVIOUS
  <2>1. CASE n = 0
    <3>1. B[n] = G
      BY <1>3, <2>1
    <3> QED BY <1>1, <2>1, <3>1 DEF Graph, ToSetOf
  <2>2. CASE n # 0
    <3>1. n - 1 \in 0..RouteCount
      BY <2>2, RoutesAreCounted
    <3>2. B[n] = F[B[n - 1]] /\ B[n - 1] \in Follows
      BY <1>3, <2>2, <3>1
    <3>3. B[n] = ReachNext(G, B[n - 1])
      BY <3>2
    <3> QED BY <1>1, <2>2, <3>3 DEF ReachNext
  <2> QED BY <2>1, <2>2
<1>5. B = [n \in 0..Cardinality(Routes) |->
              [r \in Routes |-> IF n = 0 THEN ToSetOf(r)
                  ELSE B[n - 1][r] \cup UNION {B[n - 1][f] : f \in ToSetOf(r)}]]
  <2>1. B = [n \in 0..Cardinality(Routes) |-> B[n]]
    BY DEF RouteCount
  <2> HIDE DEF F, G
  <2> QED BY <1>4, <2>1 DEF RouteCount
<1>6. \E C : C = [n \in 0..Cardinality(Routes) |->
              [r \in Routes |-> IF n = 0 THEN ToSetOf(r)
                  ELSE C[n - 1][r] \cup UNION {C[n - 1][f] : f \in ToSetOf(r)}]]
  BY <1>5
<1>7. Reach = [n \in 0..Cardinality(Routes) |->
              [r \in Routes |-> IF n = 0 THEN ToSetOf(r)
                  ELSE Reach[n - 1][r] \cup UNION {Reach[n - 1][f] : f \in ToSetOf(r)}]]
  BY <1>6, Zenon DEF Reach
<1>8. \A n \in 0..RouteCount :
          Reach[n] = [r \in Routes |-> IF n = 0 THEN ToSetOf(r)
                      ELSE Reach[n - 1][r] \cup UNION {Reach[n - 1][f] : f \in ToSetOf(r)}]
  BY <1>7 DEF RouteCount
<1>9. 0 \in 0..RouteCount /\ \A n \in 1..RouteCount : n \in 0..RouteCount /\ n # 0
  BY RoutesAreCounted
<1> HIDE DEF F
<1>10. ASSUME NEW n \in 0..RouteCount, NEW r \in Routes
       PROVE  Reach[n][r] = IF n = 0 THEN Graph(routes)[r]
                  ELSE Reach[n - 1][r] \cup UNION {Reach[n - 1][f] : f \in Graph(routes)[r]}
  <2>1. Reach[n][r] = IF n = 0 THEN ToSetOf(r)
            ELSE Reach[n - 1][r] \cup UNION {Reach[n - 1][f] : f \in ToSetOf(r)}
    BY <1>8
  <2>2. ToSetOf(r) = Graph(routes)[r]
    BY <1>1
  <2> QED BY <2>1, <2>2
<1> HIDE DEF G
<1> QED BY <1>9, <1>10

\* What is reached in n steps, and the first, is at the end of a walk.
LEMMA ReachWalks ==
    ASSUME routes \in Tables
    PROVE  \A n \in 0..RouteCount : \A x, y \in Routes :
               y \in Reach[n][x] <=> \E k \in 1..(n + 1) : Walk(Graph(routes), k, x, y)
<1> DEFINE G == Graph(routes)
<1>1. G \in Follows
  BY GraphFollows
<1>2. /\ \A r \in Routes : Reach[0][r] = G[r]
      /\ \A n \in 1..RouteCount, r \in Routes :
             Reach[n][r] = Reach[n - 1][r] \cup UNION {Reach[n - 1][f] : f \in G[r]}
  BY ReachIs
<1> HIDE DEF G
<1> DEFINE Right(n) == \A x, y \in Routes : y \in Reach[n][x] <=> \E k \in 1..(n + 1) : Walk(G, k, x, y)
           S == {n \in Nat : n <= RouteCount => Right(n)}
<1>3. 0 \in S
  <2>1. \A x, y \in Routes : y \in Reach[0][x] <=> Walk(G, 1, x, y)
    BY <1>1, <1>2, WalkOfOne
  <2>2. 1..(0 + 1) = {1}
    OBVIOUS
  <2> QED BY <2>1, <2>2
<1>4. ASSUME NEW n \in S PROVE n + 1 \in S
  <2> SUFFICES ASSUME n + 1 <= RouteCount, NEW x \in Routes, NEW y \in Routes
               PROVE  y \in Reach[n + 1][x] <=> \E k \in 1..((n + 1) + 1) : Walk(G, k, x, y)
    OBVIOUS
  <2>1. n \in Nat /\ n + 1 \in 1..RouteCount /\ (n + 1) - 1 = n /\ Right(n)
    BY <1>4, RoutesAreCounted
  <2> HIDE DEF Right
  <2>2. y \in Reach[n + 1][x] <=> y \in Reach[n][x] \/ \E f \in G[x] : y \in Reach[n][f]
    BY <1>2, <2>1
  <2>3. \A z \in Routes : y \in Reach[n][z] <=> \E k \in 1..(n + 1) : Walk(G, k, z, y)
    BY <2>1 DEF Right
  <2>4. G[x] \subseteq Routes
    BY <1>1 DEF Follows
  <2>5. ASSUME y \in Reach[n + 1][x] PROVE \E k \in 1..((n + 1) + 1) : Walk(G, k, x, y)
    <3>1. CASE y \in Reach[n][x]
      <4>1. PICK k \in 1..(n + 1) : Walk(G, k, x, y)
        BY <2>3, <3>1
      <4>2. k \in 1..((n + 1) + 1)
        BY <2>1
      <4> QED BY <4>1, <4>2
    <3>2. CASE \E f \in G[x] : y \in Reach[n][f]
      <4>1. PICK f \in G[x] : y \in Reach[n][f]
        BY <3>2
      <4>2. PICK k \in 1..(n + 1) : Walk(G, k, f, y)
        BY <2>3, <2>4, <4>1
      <4>3. 1 + k \in 1..((n + 1) + 1) /\ k \in Nat /\ 1 \in Nat
        BY <2>1
      <4>4. Walk(G, 1, x, f)
        BY <1>1, <2>4, WalkOfOne
      <4>5. Walk(G, 1 + k, x, y)
        BY <1>1, <4>2, <4>3, <4>4, WalksJoin
      <4> QED BY <4>3, <4>5
    <3> QED BY <2>2, <2>5, <3>1, <3>2
  <2>6. ASSUME NEW k \in 1..((n + 1) + 1), Walk(G, k, x, y) PROVE y \in Reach[n + 1][x]
    <3>1. CASE k = 1
      <4>1. 1 \in 1..(n + 1)
        BY <2>1
      <4> QED BY <2>2, <2>3, <2>6, <3>1, <4>1
    <3>2. CASE k # 1
      <4>1. k \in Nat \ {0} /\ k - 1 \in 1..(n + 1)
        BY <2>1, <3>2
      <4>2. PICK f \in G[x] : f \in Routes /\ Walk(G, k - 1, f, y)
        BY <1>1, <2>6, <4>1, FirstOfWalk
      <4> QED BY <2>2, <2>3, <4>1, <4>2
    <3> QED BY <3>1, <3>2
  <2> QED BY <2>5, <2>6
<1>5. S = Nat
  <2>1. S \in SUBSET Nat
    OBVIOUS
  <2> HIDE DEF S
  <2> QED BY <1>3, <1>4, <2>1, Induction
<1>6. \A n \in 0..RouteCount : Right(n)
  <2> HIDE DEF Right
  <2> QED BY <1>5, RoutesAreCounted
<1> QED BY <1>6 DEF G

-----------------------------------------------------------------------------
\* The routes that are loaded, in the file and about to be saved have no circle.
SoundTable(table) == table \in Tables /\ NoCircle(Graph(table))

\* A list to be saved has the table's own routes as they are.
ListInv ==
    IF routeSaver = <<>> THEN shared = {}
    ELSE \E table : /\ SoundTable(table) /\ routeSaver = <<table>>
                    /\ \A r \in shared : table[r] = routes[r]

\* Where the service's start, its list and the file stand to each other.
PhaseInv ==
    /\ loading \subseteq Routes /\ (loading # {} => routing = "loading")
    /\ routing \in {"new", "loading", "started", "stopping", "stopped", "unsaved"}
    /\ routing \in {"new", "loading"} => routeSaver = <<>>
    /\ routing = "stopping" => routeSaver # <<>> /\ (~late => routeSaver = <<routes>>)
    /\ routing = "stopped" => routeSaver = <<>> /\ (~late => routeFile = routes)

TablesInv ==
    /\ SoundTable(routes) /\ SoundTable(routeFile)
    /\ shared \subseteq Known /\ ListInv /\ PhaseInv

DeliveryInv == delivered \in {0, 1} /\ (frames # <<>> => delivered = 0)

\* Of a call that is alone the queue holds, once it has cleared it, nothing but
\* what it has put there.
QueueInv ==
    /\ resolveAt \in [Resolves -> {"idle", "clear", "push", "pop", "resolved"}]
    /\ alone \in [Resolves -> BOOLEAN] /\ DOMAIN selected = Resolves
    /\ DOMAIN ranked = Resolves /\ DOMAIN best = Resolves
    /\ \A q \in Resolves :
           /\ resolveAt[q] # "resolved" => selected[q] = Nothing
           /\ alone[q] /\ resolveAt[q] = "resolved" => selected[q] \in best[q] \cup {Nothing}
           /\ q \in Resolving => ranked[q] \subseteq best[q]
           /\ alone[q] /\ q \in Resolving => Resolving = {q}
           /\ alone[q] /\ resolveAt[q] \in {"push", "pop"} => \A e \in queued : e[2] \in best[q]

RoutingInv == TablesInv /\ DeliveryInv /\ QueueInv

\* The empty table has no circles.
LEMMA NoRoutesAreSound == SoundTable([r \in Routes |-> NoRoute])
<1> DEFINE table == [r \in Routes |-> NoRoute]
<1>1. table \in Tables /\ \A r \in Routes : ToSet(table[r].fallbacks) = {}
  BY DEF Tables, Entries, NoRoute, ToSet
<1>2. Graph(table) \in Follows /\ \A r \in Routes : Graph(table)[r] = {}
  BY <1>1 DEF Graph, Follows
<1> HIDE DEF table
<1>3. NoCircle(Graph(table))
  <2> SUFFICES ASSUME NEW x \in Routes, NEW k \in 1..(RouteCount + 1), Walk(Graph(table), k, x, x)
               PROVE  FALSE
    BY DEF NoCircle
  <2>1. k \in Nat \ {0}
    BY RoutesAreCounted
  <2> QED BY <1>2, <2>1, FirstOfWalk
<1> QED BY <1>1, <1>3 DEF SoundTable, table

\* A table whose routes follow what those of another do, or less, has no circle.
LEMMA LessFollowed ==
    ASSUME NEW old, SoundTable(old), NEW table \in Tables,
           \A s \in Routes : ToSet(table[s].fallbacks) \subseteq ToSet(old[s].fallbacks)
    PROVE  SoundTable(table)
  BY GraphFollows, FewerEdges DEF SoundTable, Graph

\* Nor has one that differs in a route which keeps its fallbacks, or has none.
LEMMA ChangedRoute ==
    ASSUME NEW old, SoundTable(old), NEW r \in Routes, NEW route \in Entries,
           route.fallbacks = old[r].fallbacks \/ route.fallbacks = <<>>
    PROVE  SoundTable([old EXCEPT ![r] = route])
<1> DEFINE table == [old EXCEPT ![r] = route]
<1>1. old \in Tables
  BY DEF SoundTable
<1>2. table \in Tables
  BY <1>1 DEF Tables
<1>3. \A s \in Routes : table[s] = IF s = r THEN route ELSE old[s]
  BY <1>1 DEF Tables
<1>4. ToSet(<<>>) = {}
  BY DEF ToSet
<1> HIDE DEF table
<1>5. \A s \in Routes : ToSet(table[s].fallbacks) \subseteq ToSet(old[s].fallbacks)
  BY <1>3, <1>4
<1>6. SoundTable(table)
  BY <1>2, <1>5, LessFollowed
<1> QED BY <1>6 DEF table

\* A route is added if none of its fallbacks leads to it.
LEMMA AddedRoute ==
    ASSUME SoundTable(routes), NEW r \in Routes, NEW route \in Entries,
           ~Circular(r, route.fallbacks)
    PROVE  SoundTable([routes EXCEPT ![r] = route])
<1> DEFINE table == [routes EXCEPT ![r] = route]
           G == Graph(routes)
           H == Graph(table)
<1>1. table \in Tables
  BY DEF SoundTable, Tables
<1>2. G \in Follows /\ H \in Follows /\ NoCircle(G) /\ routes \in Tables
  BY <1>1, GraphFollows DEF SoundTable
<1>3. \A s \in Routes \ {r} : H[s] = G[s]
  BY <1>2 DEF Graph, Tables
<1>4. H[r] = ToSet(route.fallbacks) /\ H[r] \subseteq Routes
  BY <1>2 DEF Graph, Tables, Follows
<1> HIDE DEF table, G, H
<1>5. ASSUME NEW f \in H[r]
      PROVE  f # r /\ \A j \in 1..(RouteCount + 1) : ~Walk(G, j, f, r)
  <2>1. f \in Routes /\ f # r /\ r \notin Reach[RouteCount][f]
    BY <1>4 DEF Circular, RouteCount
  <2>2. RouteCount \in 0..RouteCount
    BY RoutesAreCounted
  <2>3. r \in Reach[RouteCount][f] <=> \E k \in 1..(RouteCount + 1) : Walk(G, k, f, r)
    BY <1>2, <2>1, <2>2, ReachWalks DEF G
  <2> QED BY <2>1, <2>3
<1>6. NoCircle(H)
  BY <1>2, <1>3, <1>5, NewCircle
<1> QED BY <1>1, <1>6 DEF SoundTable, H, table

\* The service starts with no routes.
LEMMA RoutingInitInv == RoutingInit => RoutingInv
<1> SUFFICES ASSUME RoutingInit PROVE RoutingInv
  OBVIOUS
<1>1. TablesInv
  BY NoRoutesAreSound DEF RoutingInit, TablesInv, ListInv, PhaseInv
<1>2. DeliveryInv
  BY DEF RoutingInit, DeliveryInv
<1>3. QueueInv
  BY DEF RoutingInit, QueueInv, Resolving
<1> QED BY <1>1, <1>2, <1>3 DEF RoutingInv

EditRoutes ==
    \E r \in Routes :
        \/ \E route \in [known : {TRUE}, enabled : {TRUE}, priority : Priorities,
                         fallbacks : Fallbacks] : AddRoute(r, route)
        \/ RemoveRoute(r)
        \/ \E on \in BOOLEAN : SetEnabled(r, on)
        \/ \E p \in Priorities : UpdatePriority(r, p)

\* An edit is refused if its fallbacks come back to it; one after Stop's list is late.
LEMMA EditKeepsInv == ASSUME RoutingInv, EditRoutes PROVE RoutingInv'
<1> DEFINE Listed == /\ SoundTable(routes') /\ shared' \subseteq Known' /\ ListInv'
                     /\ (routeSaver' = <<>>) <=> (routeSaver = <<>>)
<1>1. PICK r \in Routes :
          \/ \E route \in [known : {TRUE}, enabled : {TRUE}, priority : Priorities,
                           fallbacks : Fallbacks] : AddRoute(r, route)
          \/ RemoveRoute(r)
          \/ \E on \in BOOLEAN : SetEnabled(r, on)
          \/ \E p \in Priorities : UpdatePriority(r, p)
  BY DEF EditRoutes
<1>2. /\ SoundTable(routes) /\ routes \in Tables /\ routes[r] \in Entries
      /\ SoundTable(routeFile) /\ shared \subseteq Known /\ ListInv /\ PhaseInv
  BY DEF RoutingInv, TablesInv, SoundTable, Tables
<1>3. UNCHANGED <<resolveVars, deliveryVars, diskVars>> /\ \E route : SetRoute(r, route)
  BY <1>1 DEF AddRoute, RemoveRoute, SetEnabled, UpdatePriority, ChangeRoute
<1>4. late' = (routing \in {"stopping", "stopped", "unsaved"})
  BY <1>3 DEF SetRoute
<1>5. ASSUME NEW route \in [known : {TRUE}, enabled : {TRUE}, priority : Priorities,
                            fallbacks : Fallbacks], AddRoute(r, route)
      PROVE  Listed
  <2>1. route \in Entries /\ route.known
    BY RoutingAssumption DEF Entries
  <2>2. routes' = [routes EXCEPT ![r] = route] /\ UNCHANGED <<routeSaver, shared>>
    BY <1>5 DEF AddRoute, SetRoute
  <2>3. SoundTable(routes')
    BY <1>2, <1>5, <2>1, <2>2, AddedRoute DEF AddRoute
  <2>4. r \notin shared /\ \A s \in Routes \ {r} : routes'[s] = routes[s]
    BY <1>2, <1>5, <2>2 DEF AddRoute, Known, Tables
  <2>5. \A s \in shared : s \in Routes /\ routes'[s] = routes[s] /\ routes[s].known
    BY <1>2, <2>4 DEF Known
  <2> QED BY <1>2, <2>2, <2>3, <2>5 DEF ListInv, SoundTable, Known
<1>6. ASSUME RemoveRoute(r) PROVE Listed
  <2>1. NoRoute \in Entries /\ NoRoute.fallbacks = <<>>
    BY DEF Entries, NoRoute
  <2>2. /\ routes' = [routes EXCEPT ![r] = NoRoute]
        /\ UNCHANGED routeSaver /\ shared' = shared \ {r}
    BY <1>6 DEF RemoveRoute, SetRoute
  <2>3. SoundTable(routes')
    BY <1>2, <2>1, <2>2, ChangedRoute
  <2>4. \A s \in shared' : s \in shared /\ s \in Routes /\ routes'[s] = routes[s] /\ routes[s].known
    BY <1>2, <2>2 DEF Known, Tables
  <2>5. routeSaver = <<>> => shared' = {}
    BY <1>2, <2>2 DEF ListInv
  <2> QED BY <1>2, <2>2, <2>3, <2>4, <2>5 DEF ListInv, SoundTable, Known
<1>7. ASSUME NEW route \in Entries, route.known, route.fallbacks = routes[r].fallbacks,
             ChangeRoute(r, route)
      PROVE  Listed
  <2>1. /\ routes' = [routes EXCEPT ![r] = route] /\ UNCHANGED shared
        /\ routeSaver' = IF r \in shared THEN <<[routeSaver[1] EXCEPT ![r] = route]>>
                         ELSE routeSaver
    BY <1>7 DEF ChangeRoute, SetRoute
  <2>2. SoundTable(routes')
    BY <1>2, <1>7, <2>1, ChangedRoute
  <2>3. \A s \in Routes : routes'[s] = IF s = r THEN route ELSE routes[s]
    BY <1>2, <2>1 DEF Tables
  <2>4. shared' \subseteq Known' /\ shared \subseteq Routes
    BY <1>2, <1>7, <2>1, <2>3 DEF Known
  <2>5. CASE routeSaver = <<>>
    BY <1>2, <2>1, <2>2, <2>4, <2>5 DEF ListInv
  <2>6. CASE routeSaver # <<>>
    <3>1. PICK list : /\ SoundTable(list) /\ routeSaver = <<list>>
                      /\ \A s \in shared : list[s] = routes[s]
      BY <1>2, <2>6 DEF ListInv
    <3>2. CASE r \in shared
      <4> DEFINE new == [list EXCEPT ![r] = route]
      <4>1. routeSaver' = <<new>>
        BY <2>1, <3>1, <3>2
      <4>2. SoundTable(new)
        BY <1>7, <3>1, <3>2, ChangedRoute
      <4>3. \A s \in shared' : new[s] = routes'[s]
        BY <2>1, <2>3, <2>4, <3>1 DEF SoundTable, Tables
      <4> HIDE DEF new
      <4>4. ListInv' /\ routeSaver' # <<>>
        BY <4>1, <4>2, <4>3 DEF ListInv, SoundTable
      <4> QED BY <2>2, <2>4, <2>6, <4>4
    <3>3. CASE r \notin shared
      <4>1. \A s \in shared' : list[s] = routes'[s]
        BY <2>1, <2>3, <2>4, <3>1, <3>3
      <4>2. ListInv' /\ routeSaver' # <<>>
        BY <2>1, <2>6, <3>1, <3>3, <4>1 DEF ListInv, SoundTable
      <4> QED BY <2>2, <2>4, <2>6, <4>2
    <3> QED BY <3>2, <3>3
  <2> QED BY <2>5, <2>6
<1>8. Listed
  <2>1. ASSUME NEW on \in BOOLEAN, SetEnabled(r, on) PROVE Listed
    <3> DEFINE route == [routes[r] EXCEPT !.enabled = on]
    <3>1. route \in Entries /\ route.known = routes[r].known /\ route.fallbacks = routes[r].fallbacks
      BY <1>2 DEF Entries
    <3>2. ChangeRoute(r, route) /\ routes[r].known
      BY <2>1 DEF SetEnabled, ChangeRoute
    <3> HIDE DEF route, Listed
    <3> QED BY <1>7, <3>1, <3>2
  <2>2. ASSUME NEW p \in Priorities, UpdatePriority(r, p) PROVE Listed
    <3> DEFINE route == [routes[r] EXCEPT !.priority = p]
    <3>1. route \in Entries /\ route.known = routes[r].known /\ route.fallbacks = routes[r].fallbacks
      BY <1>2 DEF Entries
    <3>2. ChangeRoute(r, route) /\ routes[r].known
      BY <2>2 DEF UpdatePriority, ChangeRoute
    <3> HIDE DEF route, Listed
    <3> QED BY <1>7, <3>1, <3>2
  <2> HIDE DEF Listed
  <2> QED BY <1>1, <1>5, <1>6, <2>1, <2>2
<1>9. PhaseInv'
  BY <1>2, <1>3, <1>4, <1>8 DEF PhaseInv, diskVars
<1>10. TablesInv'
  BY <1>2, <1>3, <1>8, <1>9 DEF TablesInv, diskVars, SoundTable
<1>11. DeliveryInv' /\ QueueInv'
  BY <1>3 DEF deliveryVars, resolveVars, RoutingInv, DeliveryInv, QueueInv, Resolving
<1> QED BY <1>10, <1>11 DEF RoutingInv

\* What Start adds of the file is added as any route is.
LEMMA LoadKeepsInv == ASSUME RoutingInv, NEW r \in Routes, LoadRoute(r) PROVE RoutingInv'
<1>1. UNCHANGED <<resolveVars, deliveryVars, routeFile, routeSaver, shared, routing, late>>
  BY DEF LoadRoute
<1>2. /\ SoundTable(routes) /\ SoundTable(routeFile) /\ routeFile[r] \in Entries
      /\ ListInv /\ PhaseInv
  BY DEF RoutingInv, TablesInv, SoundTable, Tables
<1>3. routing = "loading" /\ routeSaver = <<>> /\ shared = {}
  BY <1>2 DEF LoadRoute, PhaseInv, ListInv
<1>4. SoundTable(routes')
  <2>1. CASE UNCHANGED routes
    BY <1>2, <2>1 DEF SoundTable
  <2>2. CASE ~Circular(r, routeFile[r].fallbacks) /\ routes' = [routes EXCEPT ![r] = routeFile[r]]
    BY <1>2, <2>2, AddedRoute
  <2> QED BY <2>1, <2>2 DEF LoadRoute
<1>5. PhaseInv'
  BY <1>1, <1>2, <1>3 DEF LoadRoute, PhaseInv
<1>6. ListInv' /\ shared' \subseteq Known'
  BY <1>1, <1>3 DEF ListInv
<1>7. TablesInv'
  BY <1>1, <1>2, <1>4, <1>5, <1>6 DEF TablesInv, SoundTable
<1>8. DeliveryInv' /\ QueueInv'
  BY <1>1 DEF deliveryVars, resolveVars, RoutingInv, DeliveryInv, QueueInv, Resolving
<1> QED BY <1>7, <1>8 DEF RoutingInv

FileStep == StartRouting \/ RoutesLoaded \/ ListForSave \/ SaveRoutes \/ StopRouting

\* A file holds a list that was made of the table.
LEMMA FileKeepsInv == ASSUME RoutingInv, FileStep PROVE RoutingInv'
<1>1. UNCHANGED <<routes, resolveVars, deliveryVars, late>>
  BY DEF FileStep, StartRouting, RoutesLoaded, ListForSave, SaveRoutes, StopRouting
<1>2. SoundTable(routes) /\ SoundTable(routeFile) /\ shared \subseteq Known /\ ListInv /\ PhaseInv
  BY DEF RoutingInv, TablesInv
<1>3. SoundTable(routeFile') /\ shared' \subseteq Known /\ ListInv'
  <2>1. CASE StartRouting \/ RoutesLoaded
    BY <1>1, <1>2, <2>1 DEF StartRouting, RoutesLoaded, ListInv, SoundTable
  <2>2. CASE ListForSave \/ StopRouting
    <3>1. routeSaver' = <<routes>> /\ shared' = Known /\ UNCHANGED <<routes, routeFile>>
      BY <2>2 DEF ListForSave, StopRouting, diskVars
    <3> QED BY <1>2, <3>1 DEF ListInv, SoundTable
  <2>3. CASE SaveRoutes
    BY <1>2, <2>3 DEF SaveRoutes, ListInv, SoundTable
  <2> QED BY <2>1, <2>2, <2>3 DEF FileStep
<1>4. PhaseInv'
  <2>1. CASE StartRouting
    BY <1>1, <1>2, <2>1 DEF StartRouting, PhaseInv
  <2>2. CASE RoutesLoaded
    BY <1>1, <1>2, <2>2 DEF RoutesLoaded, PhaseInv
  <2>3. CASE ListForSave
    BY <1>1, <1>2, <2>3 DEF ListForSave, PhaseInv, diskVars
  <2>4. CASE SaveRoutes
    BY <1>1, <1>2, <2>4 DEF SaveRoutes, PhaseInv
  <2>5. CASE StopRouting
    BY <1>1, <1>2, <2>5 DEF StopRouting, PhaseInv
  <2> QED BY <2>1, <2>2, <2>3, <2>4, <2>5 DEF FileStep
<1>5. TablesInv'
  BY <1>1, <1>2, <1>3, <1>4 DEF TablesInv, SoundTable, Known
<1>6. DeliveryInv' /\ QueueInv'
  BY <1>1 DEF deliveryVars, resolveVars, RoutingInv, DeliveryInv, QueueInv, Resolving
<1> QED BY <1>5, <1>6 DEF RoutingInv

\* A daemon that starts again has no routes until it reads the file.
LEMMA RestartKeepsInv == ASSUME RoutingInv, RestartRouting PROVE RoutingInv'
<1>1. TablesInv'
  BY NoRoutesAreSound DEF RestartRouting, RoutingInv, TablesInv, ListInv, PhaseInv, SoundTable
<1>2. DeliveryInv'
  BY DEF RestartRouting, RoutingInv, DeliveryInv
<1>3. QueueInv'
  BY DEF RestartRouting, RoutingInv, QueueInv, Resolving
<1> QED BY <1>1, <1>2, <1>3 DEF RoutingInv

\* A delivery goes from a route to its fallbacks, and only so deep.
LEMMA DeliveryKeepsInv ==
    ASSUME RoutingInv, DeliveryStep \/ \E r \in Routes : Deliver(r)
    PROVE  RoutingInv'
<1>1. UNCHANGED <<routes, resolveVars, fileVars>>
  BY DEF DeliveryStep, TryFallback, DefaultFallback, Deliver
<1>2. DeliveryInv'
  <2>1. CASE TryFallback
    BY <2>1 DEF TryFallback, RoutingInv, DeliveryInv
  <2>2. CASE DefaultFallback
    BY <2>2 DEF DefaultFallback, RoutingInv, DeliveryInv
  <2>3. CASE \E r \in Routes : Deliver(r)
    BY <2>3 DEF Deliver, RoutingInv, DeliveryInv
  <2> QED BY <2>1, <2>2, <2>3 DEF DeliveryStep
<1>3. TablesInv' /\ QueueInv'
  BY <1>1 DEF fileVars, diskVars, resolveVars, RoutingInv, TablesInv, ListInv, PhaseInv,
              SoundTable, Known, QueueInv, Resolving
<1> QED BY <1>2, <1>3 DEF RoutingInv

\* A call of ResolveRoute reads and changes no route.
LEMMA ResolveKeepsInv == ASSUME RoutingInv, NEW q \in Resolves, ResolveStep(q) PROVE RoutingInv'
<1>1. UNCHANGED <<routes, deliveryVars, fileVars>>
  BY DEF ResolveStep, RankRoutes, ClearQueue, DequeueRoute, EnqueueRoute
<1>2. TablesInv' /\ DeliveryInv'
  BY <1>1 DEF fileVars, diskVars, deliveryVars, RoutingInv, TablesInv, ListInv, PhaseInv,
              SoundTable, Known, DeliveryInv
<1>3. QueueInv
  BY DEF RoutingInv
<1>4. QueueInv'
  <2>1. CASE RankRoutes(q)
    BY <1>3, <2>1 DEF RankRoutes, ResolveGoes, QueueInv, Resolving
  <2>2. CASE ClearQueue(q)
    BY <1>3, <2>2 DEF ClearQueue, ResolveGoes, QueueInv, Resolving
  <2>3. CASE DequeueRoute(q)
    BY <1>3, <2>3 DEF DequeueRoute, ResolveGoes, QueueInv, Resolving
  <2>4. CASE \E r \in Routes : EnqueueRoute(q, r)
    BY <1>3, <2>4 DEF EnqueueRoute, ResolveGoes, QueueInv, Resolving
  <2> QED BY <2>1, <2>2, <2>3, <2>4 DEF ResolveStep
<1> QED BY <1>2, <1>4 DEF RoutingInv

\* Every step of the routing service keeps the invariant.
LEMMA RoutingKeepsInv == RoutingInv /\ [RoutingNext]_routingVars => RoutingInv'
<1> SUFFICES ASSUME RoutingInv, [RoutingNext]_routingVars PROVE RoutingInv'
  OBVIOUS
<1>1. CASE EditRoutes
  BY <1>1, EditKeepsInv
<1>2. CASE FileStep \/ \E r \in Routes : LoadRoute(r)
  BY <1>2, FileKeepsInv, LoadKeepsInv
<1>3. CASE RestartRouting
  BY <1>3, RestartKeepsInv
<1>4. CASE DeliveryStep \/ \E r \in Routes : Deliver(r)
  BY <1>4, DeliveryKeepsInv
<1>5. CASE \E q \in Resolves : ResolveStep(q)
  BY <1>5, ResolveKeepsInv
<1>6. CASE UNCHANGED routingVars
  <2>1. UNCHANGED <<routes, resolveVars, deliveryVars, fileVars>>
    BY <1>6 DEF routingVars
  <2>2. TablesInv' /\ DeliveryInv' /\ QueueInv'
    BY <2>1 DEF fileVars, diskVars, deliveryVars, resolveVars, RoutingInv, TablesInv, ListInv,
                PhaseInv, SoundTable, Known, DeliveryInv, QueueInv, Resolving
  <2> QED BY <2>2 DEF RoutingInv
<1>7. RoutingNext =>
          \/ EditRoutes \/ FileStep \/ (\E r \in Routes : LoadRoute(r))
          \/ RestartRouting \/ DeliveryStep \/ (\E r \in Routes : Deliver(r))
          \/ \E q \in Resolves : ResolveStep(q)
  BY DEF RoutingNext, EditRoutes, FileStep
<1> QED BY <1>1, <1>2, <1>3, <1>4, <1>5, <1>6, <1>7

\* The invariant says what is asked.
LEMMA RoutingInvIsSound == RoutingInv => RoutesAreSound
<1> SUFFICES ASSUME RoutingInv PROVE RoutesAreSound
  OBVIOUS
<1>1. ASSUME NEW r \in Routes PROVE r \notin Reach[Cardinality(Routes)][r]
  <2>1. routes \in Tables /\ NoCircle(Graph(routes))
    BY DEF RoutingInv, TablesInv, SoundTable
  <2>2. RouteCount \in 0..RouteCount
    BY RoutesAreCounted
  <2>3. r \in Reach[RouteCount][r] <=> \E k \in 1..(RouteCount + 1) : Walk(Graph(routes), k, r, r)
    BY <2>1, <2>2, ReachWalks
  <2> QED BY <2>1, <2>3 DEF NoCircle, RouteCount
<1>2. delivered <= 1
  BY DEF RoutingInv, DeliveryInv
<1>3. \A q \in Resolves : resolveAt[q] = "resolved" /\ alone[q] =>
          selected[q] \in best[q] \cup {Nothing}
  BY DEF RoutingInv, QueueInv
<1>4. routing = "stopped" /\ ~late => routeFile = routes
  BY DEF RoutingInv, TablesInv, PhaseInv
<1> QED BY <1>1, <1>2, <1>3, <1>4 DEF RoutesAreSound

\* Whatever routes are added, changed and removed, before Start, while it loads the
\* file and after Stop too, no chain of fallbacks is a circle; a message is delivered
\* once at most, a call that has the queue for itself gets one of the best routes, and
\* after a Stop that could save the file holds all that Stop has listed.  route.go,
\* service.go.
THEOREM RoutesAreSoundHolds == RoutingSpec => []RoutesAreSound
<1>1. RoutingInit => RoutingInv
  BY RoutingInitInv
<1>2. RoutingInv /\ [RoutingNext]_routingVars => RoutingInv'
  BY RoutingKeepsInv
<1>3. RoutingInv => RoutesAreSound
  BY RoutingInvIsSound
<1> QED BY <1>1, <1>2, <1>3, PTL DEF RoutingSpec

-----------------------------------------------------------------------------
(***************************************************************************)
(* Agents.  What is said of a request follows from where each of its       *)
(* spawns stands: one that is done has reported, once, and its result is   *)
(* never changed again.                                                    *)
(***************************************************************************)

Early == {"none", "check", "create", "created"}

\* A spawn has a result when its run has ended, or Spawn has; its file says
\* that it runs after it was marked so.
SpawnInv(s) ==
    /\ pc[s] \in Early \cup {"run", "lost"} => result[s] = "none"
    /\ pc[s] \in {"ended", "stop", "report", "done"} => result[s] \in {"ok", "error"}
    /\ pc[s] \in Early => file[s] # "running"
    /\ inst[s] = "running" /\ file[s] = "running" => pc[s] \in {"run", "ended"}

\* Where the spawns of a request can be.
FlowOf(r) ==
    /\ req[r] = "idle" =>
           arrived[r] = <<>> /\ errorsSeen[r] = 0 /\ \A m \in Members : pc[<<r, m>>] = "none"
    /\ req[r] = "wait" => errorsSeen[r] < Size /\ \A m \in Members : pc[<<r, m>>] # "lost"
    /\ req[r] = "lost" => arrived[r] = <<>> /\ \A m \in Members : pc[<<r, m>>] \in {"none", "lost"}
    /\ req[r] = "returned" /\ kind[r] \notin Parallel =>
           \A m \in Members : pc[<<r, m>>] \in {"none", "done"}

\* A spawn that has reported is done, and has once.
ArrivedOf(r) ==
    /\ \A i \in DOMAIN arrived[r] : pc[<<r, arrived[r][i]>>] = "done"
    /\ \A i, j \in DOMAIN arrived[r] : arrived[r][i] = arrived[r][j] => i = j

\* A stage of the chair follows those that went well.
StagesOf(r) ==
    /\ kind[r] = "chair" =>
           \A m \in Members : pc[<<r, m>>] \notin {"none", "lost"} =>
               \A l \in Members : l < m => pc[<<r, l>>] = "done" /\ result[<<r, l>>] = "ok"
    /\ kind[r] = "step" => \A m \in Members : m # 1 => pc[<<r, m>>] = "none"

\* What a request that has returned said is true of spawns that are done.
DoneWith(r, m, end) == pc[<<r, m>>] = "done" /\ result[<<r, m>>] = end
VerdictOf(r) ==
    req[r] = "returned" =>
        /\ verdict[r] \in {"ok", "error"}
        /\ kind[r] = "all" =>
               /\ \A m \in Members : pc[<<r, m>>] = "done"
               /\ verdict[r] = "error" <=> abort[r] /\ \E m \in Members : result[<<r, m>>] = "error"
        /\ kind[r] = "first" =>
               /\ verdict[r] = "ok" => picked[r] \in Members /\ DoneWith(r, picked[r], "ok")
               /\ verdict[r] = "error" =>
                      r \in abandoned \/ \A m \in Members : DoneWith(r, m, "error")
        /\ kind[r] = "any" =>
               IF verdict[r] = "ok" THEN arrived[r] # <<>> /\ picked[r] = arrived[r][1]
               ELSE r \in abandoned
        /\ kind[r] = "chair" => (verdict[r] = "ok" <=> \A m \in Members : result[<<r, m>>] = "ok")
        /\ kind[r] = "step" => verdict[r] = result[<<r, 1>>]

RequestInv(r) == FlowOf(r) /\ ArrivedOf(r) /\ StagesOf(r) /\ VerdictOf(r)

AgentsInv ==
    /\ TypeOK
    /\ \A s \in Spawns : SpawnInv(s)
    /\ \A r \in Requests : RequestInv(r)

\* There are only so many spawns.
LEMMA SpawnsAreFinite ==
    ASSUME NEW some \in SUBSET Spawns
    PROVE  IsFiniteSet(some) /\ Cardinality(some) \in Nat
<1>1. IsFiniteSet(Members)
  BY OrchestrationAssumption, FS_Interval DEF Members
<1>2. IsFiniteSet(Spawns)
  BY <1>1, OrchestrationAssumption, FS_Product DEF Spawns
<1> QED BY <1>2, FS_Subset, FS_CardinalityType

\* Members are numbered from one.
LEMMA MembersAre == 1 \in Members /\ Size \in Members /\ Members \subseteq Nat
  BY OrchestrationAssumption DEF Members

\* As many reports as there are members are those of all of them.
LEMMA AllArrived ==
    ASSUME TypeOK, NEW r \in Requests, ArrivedOf(r), NEW I \in SUBSET (DOMAIN arrived[r]),
           Cardinality(I) >= Size
    PROVE  \A m \in Members : \E i \in I : arrived[r][i] = m
<1>1. arrived[r] \in Seq(Members)
  BY DEF TypeOK
<1> DEFINE f == [i \in I |-> arrived[r][i]]
<1>2. f \in Injection(I, Members)
  <2>1. f \in [I -> Members]
    BY <1>1
  <2>2. \A i, j \in I : f[i] = f[j] => i = j
    BY DEF ArrivedOf
  <2> HIDE DEF f
  <2> QED BY <2>1, <2>2 DEF Injection, IsInjective
<1>3. IsFiniteSet(Members) /\ Cardinality(Members) = Size
  <2> HIDE DEF f
  <2>1. Size \in Nat \ {0}
    BY OrchestrationAssumption
  <2>2. IsFiniteSet(1..Size) /\ Cardinality(1..Size) = Size
    BY <2>1, FS_Interval
  <2> QED BY <2>2 DEF Members
<1>4. IsFiniteSet(I) /\ Cardinality(I) <= Size
  <2> HIDE DEF f
  <2> QED BY <1>2, <1>3, FS_Injection
<1>5. Cardinality(I) = Size
  BY <1>4, FS_CardinalityType, OrchestrationAssumption
<1>6. f \in Surjection(I, Members)
  <2> HIDE DEF f
  <2> QED BY <1>2, <1>3, <1>5, FS_Injection
<1>7. \A m \in Members : \E i \in I : f[i] = m
  <2> HIDE DEF f
  <2> QED BY <1>6 DEF Surjection
<1> QED BY <1>7

\* No request has made anything yet.
LEMMA AgentsInitInv == Init => AgentsInv
<1> SUFFICES ASSUME Init PROVE AgentsInv
  OBVIOUS
<1>1. TypeOK
  <2>1. 0 \in 0..Size /\ 0 \in 0..MaxIOErrors /\ 0 \in 0..MaxOps /\ 0 \in 0..MaxCrashes
    BY OrchestrationAssumption
  <2>2. <<>> \in Seq(Members)
    OBVIOUS
  <2> QED BY <2>1, <2>2 DEF Init, TypeOK, Kinds, Statuses
<1>2. \A s \in Spawns : SpawnInv(s)
  BY DEF Init, SpawnInv, Early
<1>3. ASSUME NEW r \in Requests PROVE RequestInv(r)
  <2>1. \A m \in Members : <<r, m>> \in Spawns
    BY DEF Spawns
  <2> QED BY <2>1 DEF Init, RequestInv, FlowOf, ArrivedOf, StagesOf, VerdictOf
<1> QED BY <1>1, <1>2, <1>3 DEF AgentsInv

-----------------------------------------------------------------------------
\* What a step leaves of a request.
Left(r) ==
    /\ kind'[r] = kind[r] /\ abort'[r] = abort[r] /\ req'[r] = req[r] /\ verdict'[r] = verdict[r]
    /\ picked'[r] = picked[r] /\ arrived'[r] = arrived[r] /\ errorsSeen'[r] = errorsSeen[r]
    /\ r \in abandoned => r \in abandoned'
    /\ \A m \in Members : pc'[<<r, m>>] = pc[<<r, m>>] /\ result'[<<r, m>>] = result[<<r, m>>]

\* What is said of a request stays true of one that is left alone.
LEMMA LeftKeeps ==
    ASSUME TypeOK, NEW r \in Requests, RequestInv(r), Left(r) PROVE RequestInv(r)'
<1>1. \A i \in DOMAIN arrived[r] : arrived[r][i] \in Members
  BY DEF TypeOK
<1>2. FlowOf(r)'
  BY DEF RequestInv, Left, FlowOf
<1>3. ArrivedOf(r)'
  BY <1>1 DEF RequestInv, Left, ArrivedOf
<1>4. StagesOf(r)'
  BY DEF RequestInv, Left, StagesOf
<1>5. VerdictOf(r)'
  <2> SUFFICES ASSUME req'[r] = "returned" PROVE VerdictOf(r)'
    BY DEF VerdictOf
  <2>1. VerdictOf(r) /\ req[r] = "returned"
    BY DEF RequestInv, Left
  <2>2. kind[r] = "first" => VerdictOf(r)'
    BY <2>1 DEF Left, VerdictOf, DoneWith
  <2>3. kind[r] \in {"all", "any"} => VerdictOf(r)'
    BY <2>1 DEF Left, VerdictOf
  <2>4. kind[r] \in {"chair", "step"} => VerdictOf(r)'
    BY <2>1, MembersAre DEF Left, VerdictOf
  <2>5. kind[r] \in {"first", "all", "any", "chair", "step"}
    BY DEF TypeOK, Kinds, Parallel
  <2> QED BY <2>2, <2>3, <2>4, <2>5
<1> QED BY <1>2, <1>3, <1>4, <1>5 DEF RequestInv

\* A spawn that is under way goes on, and has nothing to do with its request.
Moves(s, place, end) ==
    /\ {pc[s], place} \cap {"none", "done", "lost"} = {}
    /\ pc' = [pc EXCEPT ![s] = place] /\ result' = [result EXCEPT ![s] = end]
    /\ UNCHANGED requestVars

\* A spawn that moves on inside Spawn or its run tells its request nothing.
LEMMA MovesKeeps ==
    ASSUME AgentsInv, NEW s \in Spawns, NEW place, NEW end, Moves(s, place, end)
    PROVE  \A r \in Requests : RequestInv(r)'
<1> SUFFICES ASSUME NEW r \in Requests PROVE RequestInv(r)'
  OBVIOUS
<1>1. /\ TypeOK /\ RequestInv(r)
      /\ \A i \in DOMAIN arrived[r] : arrived[r][i] \in Members
      /\ \A m \in Members : <<r, m>> \in Spawns
  BY DEF AgentsInv, TypeOK, Spawns
<1>2. UNCHANGED <<kind, abort, req, verdict, picked, ended, abandoned, arrived, errorsSeen>>
  BY DEF Moves, requestVars
<1>3. \A m \in Members : <<r, m>> # s =>
          pc'[<<r, m>>] = pc[<<r, m>>] /\ result'[<<r, m>>] = result[<<r, m>>]
  BY <1>1 DEF Moves, TypeOK
<1>4. CASE r # s[1]
  <2>1. \A m \in Members : <<r, m>> # s
    BY <1>4
  <2>2. Left(r)
    BY <1>2, <1>3, <2>1 DEF Left
  <2> QED BY <1>1, <2>2, LeftKeeps
<1>5. CASE r = s[1]
  <2>1. PICK n \in Members : s = <<r, n>>
    BY <1>5 DEF Spawns
  <2>2. /\ pc[<<r, n>>] \notin {"none", "done", "lost"}
        /\ pc'[<<r, n>>] \notin {"none", "done", "lost"}
        /\ \A m \in Members : m # n =>
               pc'[<<r, m>>] = pc[<<r, m>>] /\ result'[<<r, m>>] = result[<<r, m>>]
    BY <1>1, <1>3, <2>1 DEF Moves, TypeOK
  <2>3. FlowOf(r)'
    BY <1>1, <1>2, <2>2 DEF RequestInv, FlowOf
  <2>4. ArrivedOf(r)'
    BY <1>1, <1>2, <2>2 DEF RequestInv, ArrivedOf
  <2>5. StagesOf(r)'
    BY <1>1, <1>2, <2>2 DEF RequestInv, StagesOf
  <2>6. VerdictOf(r)'
    BY <1>1, <1>2, <2>2 DEF RequestInv, FlowOf, VerdictOf, DoneWith, Parallel
  <2> QED BY <2>3, <2>4, <2>5, <2>6 DEF RequestInv
<1> QED BY <1>4, <1>5

\* The parts of Spawn.
InnerStep(s) ==
    \/ MaySpawn(s) \/ Refuse(s) \/ Create(s) \/ MarkRunning(s) \/ RunReturns(s)
    \/ MarkEnded(s) \/ StopStep(s)

\* Nothing becomes of the other spawns.
Only(s) ==
    \A t \in Spawns \ {s} :
        pc'[t] = pc[t] /\ result'[t] = result[t] /\ inst'[t] = inst[t] /\ file'[t] = file[t]

\* What is said of spawns is to be shown of the one that moves.
LEMMA OneSpawn ==
    ASSUME AgentsInv, NEW s \in Spawns, SpawnInv(s)', Only(s)
    PROVE  \A t \in Spawns : SpawnInv(t)'
  BY DEF AgentsInv, SpawnInv, Only

\* A save, or one that fails, leaves a file.
LEMMA FileTypes ==
    ASSUME TypeOK, NEW s \in Spawns, NEW mark \in Statuses, Saves(s, mark) \/ SaveFails(s)
    PROVE  file' \in [Spawns -> Statuses \cup {"none", "torn"}] /\ ioErrors' \in 0..MaxIOErrors
<1>1. file' \in [Spawns -> Statuses \cup {"none", "torn"}]
  BY DEF TypeOK, Saves, SaveFails
<1>2. ioErrors' \in 0..MaxIOErrors
  BY OrchestrationAssumption DEF TypeOK, Saves, SaveFails, Errors
<1> QED BY <1>1, <1>2

\* Each part of Spawn moves its own spawn, and keeps what is said of it.
LEMMA InnerMoves ==
    ASSUME AgentsInv, NEW s \in Spawns, InnerStep(s)
    PROVE  /\ TypeOK' /\ \A t \in Spawns : SpawnInv(t)'
           /\ \E place, end : Moves(s, place, end)
<1> USE DEF Statuses, Goto, Fail, Saves, SaveFails, Errors, spawnVars, storeVars, requestVars,
            boundVars
<1>1. TypeOK /\ SpawnInv(s)
  BY DEF AgentsInv
<1>2. CASE MaySpawn(s)
  <2>1. TypeOK'
    BY <1>1, <1>2 DEF MaySpawn, TypeOK
  <2>2. SpawnInv(s)'
    BY <1>1, <1>2 DEF MaySpawn, TypeOK, SpawnInv, Early
  <2>3. Only(s)
    BY <1>1, <1>2 DEF MaySpawn, TypeOK, Only
  <2>4. Moves(s, "create", result[s])
    BY <1>1, <1>2 DEF MaySpawn, TypeOK, Moves
  <2> QED BY <2>1, <2>2, <2>3, <2>4, OneSpawn
<1>3. CASE Refuse(s)
  <2>1. TypeOK'
    BY <1>1, <1>3 DEF Refuse, TypeOK
  <2>2. SpawnInv(s)'
    BY <1>1, <1>3 DEF Refuse, TypeOK, SpawnInv, Early
  <2>3. Only(s)
    BY <1>1, <1>3 DEF Refuse, TypeOK, Only
  <2>4. Moves(s, "report", "error")
    BY <1>1, <1>3 DEF Refuse, TypeOK, Moves
  <2> QED BY <2>1, <2>2, <2>3, <2>4, OneSpawn
<1>4. CASE Create(s)
  <2>1. TypeOK'
    <3>1. (Saves(s, "idle") \/ SaveFails(s))
      BY <1>4 DEF Create
    <3>2. file' \in [Spawns -> Statuses \cup {"none", "torn"}] /\ ioErrors' \in 0..MaxIOErrors
      <4> HIDE DEF Saves, SaveFails
      <4> QED BY <1>1, <3>1, FileTypes DEF TypeOK
    <3>3. /\ pc' \in [Spawns -> {"none", "check", "create", "created", "run", "ended", "stop",
                               "report", "done", "lost"}]
          /\ result' \in [Spawns -> {"none", "ok", "error"}]
          /\ inst' \in [Spawns -> Statuses \cup {"none"}]
      BY <1>1, <1>4 DEF Create, TypeOK
    <3>4. UNCHANGED <<requestVars, expired, boundVars>>
      BY <1>4 DEF Create
    <3> QED BY <1>1, <3>2, <3>3, <3>4 DEF TypeOK
  <2>2. SpawnInv(s)'
    BY <1>1, <1>4 DEF Create, TypeOK, SpawnInv, Early
  <2>3. Only(s)
    BY <1>1, <1>4 DEF Create, TypeOK, Only
  <2>4. Moves(s, "created", result[s]) \/ Moves(s, "report", "error")
    BY <1>1, <1>4 DEF Create, TypeOK, Moves
  <2> QED BY <2>1, <2>2, <2>3, <2>4, OneSpawn
<1>5. CASE MarkRunning(s)
  <2>0. AfterFailedMark(s) \in {"stop", "report"}
    BY DEF AfterFailedMark
  <2>1. TypeOK'
    <3>1. (Saves(s, "running") \/ SaveFails(s)) \/ UNCHANGED <<file, ioErrors>>
      BY <1>5 DEF MarkRunning
    <3>2. file' \in [Spawns -> Statuses \cup {"none", "torn"}] /\ ioErrors' \in 0..MaxIOErrors
      <4> HIDE DEF Saves, SaveFails
      <4> QED BY <1>1, <3>1, FileTypes DEF TypeOK
    <3>3. /\ pc' \in [Spawns -> {"none", "check", "create", "created", "run", "ended", "stop",
                               "report", "done", "lost"}]
          /\ result' \in [Spawns -> {"none", "ok", "error"}]
          /\ inst' \in [Spawns -> Statuses \cup {"none"}]
      <4>1. pc' \in [Spawns -> {"none", "check", "create", "created", "run", "ended", "stop",
                               "report", "done", "lost"}]
        <5>1. \E place \in {"run", "stop", "report"} : pc' = [pc EXCEPT ![s] = place]
          BY <1>5, <2>0 DEF MarkRunning
        <5> QED BY <1>1, <5>1 DEF TypeOK
      <4>2. result' \in [Spawns -> {"none", "ok", "error"}]
        BY <1>1, <1>5, <2>0 DEF MarkRunning, TypeOK
      <4>3. inst' \in [Spawns -> Statuses \cup {"none"}]
        BY <1>1, <1>5, <2>0 DEF MarkRunning, TypeOK
      <4> QED BY <4>1, <4>2, <4>3
    <3>4. UNCHANGED <<requestVars, expired, boundVars>>
      BY <1>5 DEF MarkRunning
    <3> QED BY <1>1, <3>2, <3>3, <3>4 DEF TypeOK
  <2>2. SpawnInv(s)'
    BY <1>1, <1>5, <2>0 DEF MarkRunning, TypeOK, SpawnInv, Early
  <2>3. Only(s)
    BY <1>1, <1>5, <2>0 DEF MarkRunning, TypeOK, Only
  <2>4. Moves(s, "run", result[s]) \/ Moves(s, AfterFailedMark(s), "error")
    BY <1>1, <1>5, <2>0 DEF MarkRunning, TypeOK, Moves
  <2> QED BY <2>1, <2>2, <2>3, <2>4, OneSpawn
<1>6. CASE RunReturns(s)
  <2>1. TypeOK'
    BY <1>1, <1>6 DEF RunReturns, TypeOK
  <2>2. SpawnInv(s)'
    BY <1>1, <1>6 DEF RunReturns, TypeOK, SpawnInv, Early
  <2>3. Only(s)
    BY <1>1, <1>6 DEF RunReturns, TypeOK, Only
  <2>4. Moves(s, "ended", "ok") \/ Moves(s, "ended", "error")
    BY <1>1, <1>6 DEF RunReturns, TypeOK, Moves
  <2> QED BY <2>1, <2>2, <2>3, <2>4, OneSpawn
<1>7. CASE MarkEnded(s)
  <2>0. PICK final \in {"stopped", "failed"}, place \in {"stop", "report"} :
            /\ \/ inst[s] # "none" /\ inst' = [inst EXCEPT ![s] = final] /\ Saves(s, final)
               \/ inst[s] # "none" /\ inst' = [inst EXCEPT ![s] = final] /\ SaveFails(s)
               \/ inst[s] = "none" /\ UNCHANGED storeVars
            /\ result' = result \/ result' = [result EXCEPT ![s] = "error"]
            /\ pc[s] = "ended" /\ Goto(s, place)
            /\ UNCHANGED <<requestVars, expired, boundVars>>
    BY <1>7 DEF MarkEnded
  <2>1. TypeOK'
    <3>1. (\E mark \in Statuses : Saves(s, mark) \/ SaveFails(s)) \/ UNCHANGED <<file, ioErrors>>
      BY <2>0
    <3>2. file' \in [Spawns -> Statuses \cup {"none", "torn"}] /\ ioErrors' \in 0..MaxIOErrors
      <4> HIDE DEF Saves, SaveFails, Statuses
      <4> QED BY <1>1, <3>1, FileTypes DEF TypeOK
    <3>3. /\ pc' \in [Spawns -> {"none", "check", "create", "created", "run", "ended", "stop",
                               "report", "done", "lost"}]
          /\ result' \in [Spawns -> {"none", "ok", "error"}]
          /\ inst' \in [Spawns -> Statuses \cup {"none"}]
      <4>1. pc' \in [Spawns -> {"none", "check", "create", "created", "run", "ended", "stop",
                               "report", "done", "lost"}]
        BY <1>1, <2>0 DEF TypeOK
      <4>2. result' \in [Spawns -> {"none", "ok", "error"}]
        BY <1>1, <2>0 DEF TypeOK
      <4>3. inst' \in [Spawns -> Statuses \cup {"none"}]
        BY <1>1, <2>0 DEF TypeOK
      <4> QED BY <4>1, <4>2, <4>3
    <3> QED BY <1>1, <2>0, <3>2, <3>3 DEF TypeOK
  <2>2. SpawnInv(s)'
    BY <1>1, <2>0 DEF TypeOK, SpawnInv, Early
  <2>3. Only(s)
    BY <1>1, <2>0 DEF TypeOK, Only
  <2>4. Moves(s, place, result[s]) \/ Moves(s, place, "error")
    BY <1>1, <2>0 DEF TypeOK, Moves
  <2> QED BY <2>1, <2>2, <2>3, <2>4, OneSpawn
<1>8. CASE StopStep(s)
  <2>1. TypeOK'
    BY <1>1, <1>8 DEF StopStep, TypeOK
  <2>2. SpawnInv(s)'
    BY <1>1, <1>8 DEF StopStep, TypeOK, SpawnInv, Early
  <2>3. Only(s)
    BY <1>1, <1>8 DEF StopStep, TypeOK, Only
  <2>4. Moves(s, "report", result[s]) \/ Moves(s, "report", "error")
    BY <1>1, <1>8 DEF StopStep, TypeOK, Moves
  <2> QED BY <2>1, <2>2, <2>3, <2>4, OneSpawn
<1> QED BY <1>2, <1>3, <1>4, <1>5, <1>6, <1>7, <1>8 DEF InnerStep

\* So none breaks the invariant.
LEMMA InnerKeeps == ASSUME AgentsInv, NEW s \in Spawns, InnerStep(s) PROVE AgentsInv'
  BY InnerMoves, MovesKeeps DEF AgentsInv

-----------------------------------------------------------------------------
\* Those that change the table and the files: none makes an instance running.
StoreStep ==
    \/ \E s \in Spawns : Expire(s) \/ StopInstance(s)
    \/ Cleanup \/ Shutdown \/ Recover

\* They touch nothing but the table and the files.
LEMMA StoreOnly ==
    ASSUME AgentsInv, StoreStep
    PROVE  /\ UNCHANGED <<requestVars, pc, result>>
           /\ expired' \in SUBSET Spawns /\ ioErrors' \in 0..MaxIOErrors /\ down' \in BOOLEAN
           /\ ops' \in 0..MaxOps /\ crashes' \in 0..MaxCrashes
           /\ inst' \in [Spawns -> Statuses \cup {"none"}]
           /\ file' \in [Spawns -> Statuses \cup {"none", "torn"}]
           /\ \A s \in Spawns : /\ file'[s] = "running" => file[s] = "running"
                                /\ inst'[s] = "running" => inst[s] = "running"
<1> USE DEF Statuses, Saves, SaveFails, Errors, Operate, storeVars, spawnVars, requestVars,
            boundVars
<1>1. TypeOK /\ \A t \in Spawns : SpawnInv(t)
  BY DEF AgentsInv
<1>2. CASE \E s \in Spawns : Expire(s) \/ StopInstance(s)
  <2>1. PICK s \in Spawns : Expire(s) \/ StopInstance(s)
    BY <1>2
  <2>2. CASE Expire(s)
    BY <1>1, <2>2 DEF Expire, TypeOK
  <2>3. CASE StopInstance(s)
    BY <1>1, <2>3, OrchestrationAssumption DEF StopInstance, TypeOK
  <2> QED BY <2>1, <2>2, <2>3
<1>3. CASE Cleanup
  <2>1. PICK left \in SUBSET Final :
            /\ Errors(Cardinality(left))
            /\ file' = [s \in Spawns |-> IF s \in Final \ left THEN "none" ELSE file[s]]
    BY <1>3 DEF Cleanup
  <2>2. Cardinality(left) \in Nat
    BY SpawnsAreFinite DEF Final
  <2> QED BY <1>1, <1>3, <2>1, <2>2, OrchestrationAssumption DEF Cleanup, TypeOK
<1>4. CASE Shutdown
  <2> DEFINE known == {s \in Spawns : inst[s] # "none"}
  <2>0. PICK failing \in SUBSET known : \E torn \in SUBSET failing :
            /\ Errors(Cardinality(failing))
            /\ file' = [s \in Spawns |-> CASE s \in torn -> "torn"
                                           [] s \in known \ failing -> "stopped"
                                           [] OTHER -> file[s]]
    BY <1>4 DEF Shutdown
  <2>1. PICK torn \in SUBSET failing :
            /\ Errors(Cardinality(failing))
            /\ file' = [s \in Spawns |-> CASE s \in torn -> "torn"
                                           [] s \in known \ failing -> "stopped"
                                           [] OTHER -> file[s]]
    BY <2>0
  <2>2. Cardinality(failing) \in Nat
    BY SpawnsAreFinite
  <2>3. \A s \in Spawns : file'[s] \in {"torn", "stopped", file[s]}
    BY <2>1
  <2>4. inst' = [s \in Spawns |-> IF s \in known THEN "stopped" ELSE "none"]
    BY <1>4 DEF Shutdown
  <2>5. DOMAIN file' = Spawns /\ file' = [s \in Spawns |-> file'[s]]
    BY <2>1
  <2> HIDE DEF known
  <2>6. file' \in [Spawns -> Statuses \cup {"none", "torn"}]
    BY <1>1, <2>3, <2>5 DEF TypeOK
  <2> QED BY <1>1, <1>4, <2>1, <2>2, <2>3, <2>4, <2>6, OrchestrationAssumption DEF Shutdown, TypeOK
<1>5. CASE Recover
  <2>1. PICK left \in SUBSET {s \in Spawns : file[s] = "running"} :
            /\ Errors(Cardinality(left))
            /\ file' = [s \in Spawns |-> IF file[s] = "running" /\ s \notin left
                                         THEN "failed" ELSE file[s]]
    BY <1>5 DEF Recover
  <2>2. Cardinality(left) \in Nat
    BY SpawnsAreFinite
  <2>3. \A s \in Spawns : inst'[s] \in (Statuses \cup {"none"}) \ {"running"}
    BY <1>1, <1>5 DEF Recover, TypeOK
  <2>4. inst' = [s \in Spawns |-> inst'[s]]
    BY <1>5 DEF Recover
  <2>5. inst' \in [Spawns -> Statuses \cup {"none"}]
    BY <2>3, <2>4
  <2>6. /\ UNCHANGED <<requestVars, pc, result, expired, ops, crashes>>
        /\ down' = FALSE /\ ioErrors' \in 0..MaxIOErrors
    BY <1>1, <1>5, <2>1, <2>2, OrchestrationAssumption DEF Recover, TypeOK
  <2>7. file' \in [Spawns -> Statuses \cup {"none", "torn"}]
    BY <1>1, <2>1 DEF TypeOK
  <2>8. \A s \in Spawns : /\ file'[s] = "running" => file[s] = "running"
                          /\ inst'[s] = "running" => inst[s] = "running"
    BY <2>1, <2>3
  <2> QED BY <1>1, <2>5, <2>6, <2>7, <2>8 DEF TypeOK
<1> QED BY <1>2, <1>3, <1>4, <1>5 DEF StoreStep

\* So none breaks the invariant, either.
LEMMA StoreKeeps == ASSUME AgentsInv, StoreStep PROVE AgentsInv'
<1>1. TypeOK /\ \A t \in Spawns : SpawnInv(t)
  BY DEF AgentsInv
<1>2. UNCHANGED <<kind, abort, req, verdict, picked, ended, abandoned, arrived, errorsSeen, pc,
                  result>>
  BY StoreOnly DEF requestVars
<1>3. TypeOK'
  BY <1>1, <1>2, StoreOnly DEF TypeOK
<1>4. \A t \in Spawns : SpawnInv(t)'
  BY <1>1, <1>2, StoreOnly DEF SpawnInv
<1>5. ASSUME NEW r \in Requests PROVE RequestInv(r)'
  <2>1. Left(r)
    BY <1>2 DEF Left
  <2> QED BY <1>1, <2>1, LeftKeeps DEF AgentsInv
<1> QED BY <1>3, <1>4, <1>5 DEF AgentsInv

-----------------------------------------------------------------------------
\* What the steps of a request leave to the others.
Others(r) == \A q \in Requests \ {r} : Left(q)

\* What is said of requests is to be shown of the one that moves.
LEMMA OneRequest ==
    ASSUME AgentsInv, NEW r \in Requests, RequestInv(r)', Others(r)
    PROVE  \A q \in Requests : RequestInv(q)'
  BY LeftKeeps DEF AgentsInv, Others

\* The table, the files and the runs are the business of spawns.
LEMMA StoreStays ==
    ASSUME AgentsInv, UNCHANGED <<inst, file>>,
           \A s \in Spawns : \/ pc'[s] = pc[s] /\ result'[s] = result[s]
                             \/ /\ pc[s] \in {"none", "report"} /\ pc'[s] \in {"check", "create", "done"}
                                /\ pc'[s] \in Early <=> pc[s] = "none"
                                /\ result'[s] = result[s]
    PROVE  \A s \in Spawns : SpawnInv(s)'
  BY DEF AgentsInv, SpawnInv, Early

\* A request starts with spawns that stand at the beginning.
LEMMA StartKeeps == ASSUME AgentsInv, NEW r \in Requests, Start(r) PROVE AgentsInv'
<1>1. TypeOK /\ RequestInv(r) /\ \A m \in Members, q \in Requests : <<q, m>> \in Spawns
  BY DEF AgentsInv, Spawns
<1>2. PICK k \in Kinds, f \in BOOLEAN :
          /\ f => k = "all"
          /\ kind' = [kind EXCEPT ![r] = k] /\ abort' = [abort EXCEPT ![r] = f]
          /\ pc' = [s \in Spawns |->
                       IF s \in SpawnsOf(r) /\ (k \in Parallel \/ s[2] = 1)
                       THEN IF k = "step" THEN "create" ELSE "check"
                       ELSE pc[s]]
  BY DEF Start
<1>3. /\ req[r] = "idle" /\ req' = [req EXCEPT ![r] = "wait"]
      /\ UNCHANGED <<verdict, picked, ended, abandoned, arrived, errorsSeen, result, expired,
                     inst, file, ioErrors, down, ops, crashes>>
  BY DEF Start, storeVars, boundVars
<1>4. \A m \in Members : pc[<<r, m>>] = "none"
  BY <1>1, <1>3 DEF RequestInv, FlowOf
<1>5. /\ \A m \in Members : pc'[<<r, m>>] = IF k \in Parallel \/ m = 1
                                          THEN IF k = "step" THEN "create" ELSE "check" ELSE "none"
      /\ \A q \in Requests \ {r}, m \in Members : pc'[<<q, m>>] = pc[<<q, m>>]
  BY <1>1, <1>2, <1>4 DEF SpawnsOf
<1>6. TypeOK'
  <2>1. pc' \in [Spawns -> {"none", "check", "create", "created", "run", "ended", "stop",
                            "report", "done", "lost"}]
    BY <1>1, <1>2 DEF TypeOK
  <2>2. kind' \in [Requests -> Kinds] /\ abort' \in [Requests -> BOOLEAN]
        /\ req' \in [Requests -> {"idle", "wait", "returned", "lost"}]
    BY <1>1, <1>2, <1>3 DEF TypeOK
  <2> QED BY <1>1, <1>3, <2>1, <2>2 DEF TypeOK
<1>7. \A s \in Spawns : SpawnInv(s)'
  <2>1. ASSUME NEW s \in Spawns
        PROVE  \/ pc'[s] = pc[s]
               \/ pc[s] = "none" /\ pc'[s] \in {"check", "create"}
    <3>1. PICK q \in Requests, m \in Members : s = <<q, m>>
      BY DEF Spawns
    <3> QED BY <1>4, <1>5, <3>1
  <2> QED BY <1>3, <2>1, StoreStays DEF Early
<1>8. RequestInv(r)'
  <2>1. /\ kind'[r] = k /\ req'[r] = "wait" /\ arrived'[r] = <<>> /\ errorsSeen'[r] = 0
    BY <1>1, <1>2, <1>3 DEF TypeOK, RequestInv, FlowOf
  <2>2. FlowOf(r)'
    BY <1>5, <2>1, OrchestrationAssumption DEF FlowOf
  <2>3. ArrivedOf(r)' /\ VerdictOf(r)'
    BY <2>1 DEF ArrivedOf, VerdictOf
  <2>4. StagesOf(r)'
    BY <1>5, <2>1 DEF StagesOf, Members, Parallel
  <2> QED BY <2>2, <2>3, <2>4 DEF RequestInv
<1>9. Others(r)
  <2>1. ASSUME NEW q \in Requests \ {r} PROVE Left(q)
    <3>1. kind'[q] = kind[q] /\ abort'[q] = abort[q] /\ req'[q] = req[q]
      BY <1>1, <1>2, <1>3 DEF TypeOK
    <3> QED BY <1>3, <1>5, <3>1 DEF Left
  <2> QED BY <2>1 DEF Others
<1> QED BY <1>6, <1>7, <1>8, <1>9, OneRequest DEF AgentsInv

\* What a request has of spawns before and after one of them reports.
LEMMA ReportIsNew ==
    ASSUME AgentsInv, NEW r \in Requests, NEW n \in Members, pc[<<r, n>>] = "report",
           arrived' = [arrived EXCEPT ![r] = Append(@, n)]
    PROVE  /\ result[<<r, n>>] \in {"ok", "error"} /\ <<r, n>> \in Spawns
           /\ arrived' \in [Requests -> Seq(Members)]
           /\ arrived'[r] # <<>> /\ DOMAIN arrived'[r] = 1..(Len(arrived[r]) + 1)
           /\ arrived'[r][Len(arrived[r]) + 1] = n
           /\ \A i \in DOMAIN arrived[r] :
                  arrived'[r][i] = arrived[r][i] /\ arrived[r][i] \in Members \ {n}
           /\ DOMAIN arrived[r] = 1..Len(arrived[r]) /\ Len(arrived[r]) \in Nat
           /\ \A i, j \in DOMAIN arrived'[r] : arrived'[r][i] = arrived'[r][j] => i = j
<1>1. /\ TypeOK /\ ArrivedOf(r) /\ <<r, n>> \in Spawns /\ SpawnInv(<<r, n>>)
      /\ arrived[r] \in Seq(Members)
  BY DEF AgentsInv, RequestInv, Spawns, TypeOK
<1>2. arrived'[r] = Append(arrived[r], n) /\ arrived' \in [Requests -> Seq(Members)]
  BY <1>1 DEF TypeOK
<1>3. \A i \in DOMAIN arrived[r] : arrived[r][i] \in Members \ {n}
  <2>1. \A i \in DOMAIN arrived[r] : arrived[r][i] \in Members
    BY <1>1
  <2>2. \A i \in DOMAIN arrived[r] : pc[<<r, arrived[r][i]>>] = "done"
    BY <1>1 DEF ArrivedOf
  <2> QED BY <2>1, <2>2
<1>4. /\ DOMAIN arrived'[r] = 1..(Len(arrived[r]) + 1) /\ arrived'[r][Len(arrived[r]) + 1] = n
      /\ \A i \in DOMAIN arrived[r] : arrived'[r][i] = arrived[r][i]
      /\ arrived'[r] # <<>> /\ DOMAIN arrived[r] = 1..Len(arrived[r]) /\ Len(arrived[r]) \in Nat
  BY <1>1, <1>2
<1>5. \A i, j \in DOMAIN arrived'[r] : arrived'[r][i] = arrived'[r][j] => i = j
  <2>1. \A i \in DOMAIN arrived'[r] : i \in DOMAIN arrived[r] \/ i = Len(arrived[r]) + 1
    BY <1>4
  <2> QED BY <1>1, <1>3, <1>4, <2>1 DEF ArrivedOf
<1>6. result[<<r, n>>] \in {"ok", "error"}
  BY <1>1 DEF SpawnInv
<1> QED BY <1>1, <1>2, <1>3, <1>4, <1>5, <1>6

\* A report is of a spawn that is done, and of none that was before.
LEMMA ReportKeeps == ASSUME AgentsInv, NEW s \in Spawns, Report(s) PROVE AgentsInv'
<1>1. PICK r \in Requests, n \in Members : s = <<r, n>>
  BY DEF Spawns
<1>2. /\ pc[s] = "report" /\ kind[r] \in Parallel /\ pc' = [pc EXCEPT ![s] = "done"]
      /\ arrived' = [arrived EXCEPT ![r] = Append(@, n)]
      /\ ended' \in {ended, ended \cup {r}}
      /\ UNCHANGED <<kind, abort, req, verdict, picked, abandoned, errorsSeen, result, expired,
                     inst, file, ioErrors, down, ops, crashes>>
  BY <1>1 DEF Report, Goto, storeVars, boundVars
<1>3. TypeOK /\ RequestInv(r) /\ \A m \in Members, q \in Requests : <<q, m>> \in Spawns
  BY DEF AgentsInv, Spawns
<1>4. /\ pc'[<<r, n>>] = "done" /\ pc[<<r, n>>] = "report"
      /\ \A m \in Members \ {n} : pc'[<<r, m>>] = pc[<<r, m>>]
      /\ \A q \in Requests \ {r}, m \in Members : pc'[<<q, m>>] = pc[<<q, m>>]
  BY <1>1, <1>2, <1>3 DEF TypeOK
<1>5. /\ result[<<r, n>>] \in {"ok", "error"} /\ arrived' \in [Requests -> Seq(Members)]
      /\ arrived'[r] # <<>> /\ DOMAIN arrived'[r] = 1..(Len(arrived[r]) + 1)
      /\ arrived'[r][Len(arrived[r]) + 1] = n
      /\ \A i \in DOMAIN arrived[r] :
             arrived'[r][i] = arrived[r][i] /\ arrived[r][i] \in Members \ {n}
      /\ DOMAIN arrived[r] = 1..Len(arrived[r]) /\ Len(arrived[r]) \in Nat
      /\ \A i, j \in DOMAIN arrived'[r] : arrived'[r][i] = arrived'[r][j] => i = j
  BY <1>2, <1>4, ReportIsNew, ZenonT(60)
<1>6. TypeOK'
  <2>1. pc' \in [Spawns -> {"none", "check", "create", "created", "run", "ended", "stop",
                            "report", "done", "lost"}]
    BY <1>2, <1>3 DEF TypeOK
  <2>2. ended' \in SUBSET Requests
    BY <1>2, <1>3 DEF TypeOK
  <2> QED BY <1>2, <1>3, <1>5, <2>1, <2>2 DEF TypeOK
<1>7. \A t \in Spawns : SpawnInv(t)'
  <2>1. \A t \in Spawns : \/ pc'[t] = pc[t]
                          \/ pc[t] = "report" /\ pc'[t] = "done"
    BY <1>2, <1>3 DEF TypeOK
  <2> QED BY <1>2, <2>1, StoreStays DEF Early
<1>8. RequestInv(r)'
  <2>1. FlowOf(r)'
    BY <1>2, <1>3, <1>4 DEF RequestInv, FlowOf
  <2>2. ArrivedOf(r)'
    <3>1. ASSUME NEW i \in DOMAIN arrived'[r] PROVE pc'[<<r, arrived'[r][i]>>] = "done"
      <4>1. CASE i \in DOMAIN arrived[r]
        <5>1. pc[<<r, arrived[r][i]>>] = "done"
          BY <1>3, <4>1 DEF RequestInv, ArrivedOf
        <5>2. pc'[<<r, arrived[r][i]>>] = pc[<<r, arrived[r][i]>>]
          BY <1>4, <1>5, <4>1
        <5> QED BY <1>5, <4>1, <5>1, <5>2
      <4>2. CASE i = Len(arrived[r]) + 1
        BY <1>4, <1>5, <4>2
      <4> QED BY <1>5, <4>1, <4>2
    <3> QED BY <1>5, <3>1 DEF ArrivedOf
  <2>3. StagesOf(r)'
    BY <1>2 DEF StagesOf, Parallel
  <2>4. VerdictOf(r)'
    <3> SUFFICES ASSUME req[r] = "returned" PROVE VerdictOf(r)'
      BY <1>2 DEF VerdictOf
    <3>1. VerdictOf(r)
      BY <1>3 DEF RequestInv
    <3>2. kind[r] # "all"
      BY <1>4, <3>1 DEF VerdictOf
    <3>3. kind[r] = "first" => VerdictOf(r)'
      BY <1>2, <1>4, <3>1 DEF VerdictOf, DoneWith
    <3>4. kind[r] = "any" => VerdictOf(r)'
      <4>1. arrived[r] # <<>> => arrived'[r][1] = arrived[r][1]
        <5>1. arrived[r] # <<>> => 1 \in DOMAIN arrived[r]
          BY <1>3 DEF TypeOK
        <5> QED BY <1>5, <5>1
      <4> QED BY <1>2, <1>5, <3>1, <4>1 DEF VerdictOf
    <3> QED BY <1>2, <3>2, <3>3, <3>4 DEF Parallel
  <2> QED BY <2>1, <2>2, <2>3, <2>4 DEF RequestInv
<1>9. Others(r)
  BY <1>2, <1>3, <1>4 DEF Others, Left, TypeOK
<1> QED BY <1>6, <1>7, <1>8, <1>9, OneRequest DEF AgentsInv

\* The stage before a stage went well, and a step has one.
LEMMA NextStageKeeps == ASSUME AgentsInv, NEW s \in Spawns, NextStage(s) PROVE AgentsInv'
<1>1. PICK r \in Requests, n \in Members : s = <<r, n>>
  BY DEF Spawns
<1>2. /\ pc[<<r, n>>] = "report" /\ kind[r] \notin Parallel
      /\ arrived' = [arrived EXCEPT ![r] = Append(@, n)]
      /\ UNCHANGED <<kind, abort, abandoned, errorsSeen, result, expired,
                     inst, file, ioErrors, down, ops, crashes>>
  BY <1>1 DEF NextStage, storeVars, boundVars
<1>3. /\ TypeOK /\ RequestInv(r) /\ \A m \in Members, q \in Requests : <<q, m>> \in Spawns
      /\ kind[r] \in {"chair", "step"}
  BY <1>2 DEF AgentsInv, Spawns, TypeOK, Kinds
<1>4. /\ result[<<r, n>>] \in {"ok", "error"} /\ arrived' \in [Requests -> Seq(Members)]
      /\ arrived'[r] # <<>> /\ DOMAIN arrived'[r] = 1..(Len(arrived[r]) + 1)
      /\ arrived'[r][Len(arrived[r]) + 1] = n
      /\ \A i \in DOMAIN arrived[r] :
             arrived'[r][i] = arrived[r][i] /\ arrived[r][i] \in Members \ {n}
      /\ DOMAIN arrived[r] = 1..Len(arrived[r]) /\ Len(arrived[r]) \in Nat
      /\ \A i, j \in DOMAIN arrived'[r] : arrived'[r][i] = arrived'[r][j] => i = j
  BY <1>2, ReportIsNew
<1>5. req[r] = "wait"
  BY <1>2, <1>3 DEF RequestInv, FlowOf, TypeOK
<1>6. \A m \in Members : /\ pc[<<r, m>>] # "lost"
                         /\ m < n /\ kind[r] = "chair" => DoneWith(r, m, "ok")
                         /\ m > n /\ kind[r] = "chair" => pc[<<r, m>>] = "none"
                         /\ m # n /\ kind[r] = "step" => pc[<<r, m>>] = "none"
                         /\ pc[<<r, m>>] = "none" => result[<<r, m>>] = "none"
  <2>1. \A m \in Members : pc[<<r, m>>] # "lost"
    BY <1>3, <1>5 DEF RequestInv, FlowOf
  <2>2. \A m \in Members : m < n /\ kind[r] = "chair" => DoneWith(r, m, "ok")
    BY <1>2, <1>3 DEF RequestInv, StagesOf, DoneWith
  <2>3. \A m \in Members : m > n /\ kind[r] = "chair" => pc[<<r, m>>] = "none"
    BY <1>2, <1>3, <2>1, MembersAre DEF RequestInv, StagesOf
  <2>4. \A m \in Members : m # n /\ kind[r] = "step" => pc[<<r, m>>] = "none"
    BY <1>2, <1>3 DEF RequestInv, StagesOf
  <2>5. \A m \in Members : pc[<<r, m>>] = "none" => result[<<r, m>>] = "none"
    BY <1>3 DEF AgentsInv, SpawnInv, Early
  <2> QED BY <2>1, <2>2, <2>3, <2>4, <2>5
<1> DEFINE more == kind[r] = "chair" /\ result[<<r, n>>] = "ok" /\ n < Size
<1>7. \/ /\ more /\ pc' = [pc EXCEPT ![<<r, n>>] = "done", ![<<r, n + 1>>] = "check"]
         /\ UNCHANGED <<req, verdict, picked, ended>>
      \/ /\ ~more /\ pc' = [pc EXCEPT ![<<r, n>>] = "done"]
         /\ req' = [req EXCEPT ![r] = "returned"]
         /\ verdict' = [verdict EXCEPT ![r] = result[<<r, n>>]]
         /\ picked' = [picked EXCEPT ![r] = n] /\ ended' = ended \cup {r}
  BY <1>1 DEF NextStage, Goto, Return
<1>8. more => n + 1 \in Members /\ n + 1 > n /\ pc[<<r, n + 1>>] = "none"
  <2>1. more => n + 1 \in Members /\ n + 1 > n
    BY OrchestrationAssumption DEF Members
  <2> QED BY <1>6, <2>1
<1>9. /\ pc'[<<r, n>>] = "done"
      /\ more => pc'[<<r, n + 1>>] = "check"
      /\ \A m \in Members \ {n} : ~(more /\ m = n + 1) => pc'[<<r, m>>] = pc[<<r, m>>]
      /\ \A q \in Requests \ {r}, m \in Members : pc'[<<q, m>>] = pc[<<q, m>>]
  <2> HIDE DEF more
  <2>1. pc \in [Spawns -> {"none", "check", "create", "created", "run", "ended", "stop",
                           "report", "done", "lost"}]
    BY <1>3 DEF TypeOK
  <2>2. more => <<r, n + 1>> # <<r, n>> /\ <<r, n + 1>> \in Spawns
    BY <1>2, <1>3, <1>8
  <2> QED BY <1>3, <1>7, <2>1, <2>2
<1> HIDE DEF more
<1>10. TypeOK'
  <2>1. pc' \in [Spawns -> {"none", "check", "create", "created", "run", "ended", "stop",
                            "report", "done", "lost"}]
    BY <1>3, <1>7 DEF TypeOK
  <2>2. req' \in [Requests -> {"idle", "wait", "returned", "lost"}]
    BY <1>3, <1>7 DEF TypeOK
  <2>3. verdict' \in [Requests -> {"none", "ok", "error"}]
    BY <1>3, <1>4, <1>7, SMTT(30) DEF TypeOK
  <2>4. picked' \in [Requests -> Members \cup {None}]
    <3>1. picked \in [Requests -> Members \cup {None}]
      BY <1>3 DEF TypeOK
    <3>2. picked' = picked \/ picked' = [picked EXCEPT ![r] = n]
      BY <1>7
    <3> QED BY <3>1, <3>2
  <2>5. ended' \in SUBSET Requests
    BY <1>3, <1>7 DEF TypeOK
  <2> QED BY <1>2, <1>3, <1>4, <2>1, <2>2, <2>3, <2>4, <2>5 DEF TypeOK
<1>11. \A t \in Spawns : SpawnInv(t)'
  <2>1. ASSUME NEW t \in Spawns
        PROVE  \/ pc'[t] = pc[t]
               \/ pc[t] = "report" /\ pc'[t] = "done"
               \/ pc[t] = "none" /\ pc'[t] = "check"
    <3>1. PICK q \in Requests, m \in Members : t = <<q, m>>
      BY DEF Spawns
    <3> QED BY <1>2, <1>8, <1>9, <3>1
  <2> QED BY <1>2, <2>1, StoreStays DEF Early
<1>12. Others(r)
  BY <1>2, <1>3, <1>7, <1>9 DEF Others, Left, TypeOK
<1>13. ArrivedOf(r)'
  <2>1. \A i \in DOMAIN arrived[r] : pc[<<r, arrived[r][i]>>] = "done"
    BY <1>3 DEF RequestInv, ArrivedOf
  <2>2. \A m \in Members : pc[<<r, m>>] = "done" => pc'[<<r, m>>] = "done"
    BY <1>8, <1>9
  <2>3. \A i \in DOMAIN arrived'[r] : pc'[<<r, arrived'[r][i]>>] = "done"
    BY <1>4, <1>9, <2>1, <2>2, SMTT(30)
  <2> QED BY <1>4, <2>3 DEF ArrivedOf
<1>14. CASE more
  <2>1. FlowOf(r)'
    BY <1>2, <1>3, <1>5, <1>6, <1>7, <1>9, <1>14 DEF RequestInv, FlowOf
  <2>2. StagesOf(r)'
    <3>1. kind'[r] = "chair" /\ kind[r] = "chair" /\ result' = result
      BY <1>2, <1>14 DEF more
    <3>2. \A l \in Members : l < n + 1 => pc'[<<r, l>>] = "done" /\ result[<<r, l>>] = "ok"
      BY <1>6, <1>9, <1>14, <3>1, MembersAre DEF DoneWith, more
    <3>3. \A m \in Members : m > n + 1 => pc'[<<r, m>>] = "none"
      BY <1>6, <1>9, <3>1, MembersAre
    <3>4. ASSUME NEW m \in Members, pc'[<<r, m>>] \notin {"none", "lost"},
                 NEW l \in Members, l < m
          PROVE  pc'[<<r, l>>] = "done" /\ result[<<r, l>>] = "ok"
      <4>1. ~(m > n + 1)
        BY <3>3, <3>4
      <4>2. l < n + 1
        BY <3>4, <4>1, MembersAre
      <4> QED BY <3>2, <4>2
    <3> QED BY <3>1, <3>4 DEF StagesOf
  <2>3. VerdictOf(r)'
    BY <1>5, <1>7, <1>14 DEF VerdictOf
  <2> QED BY <1>10, <1>11, <1>12, <1>13, <2>1, <2>2, <2>3, OneRequest DEF AgentsInv, RequestInv
<1>15. CASE ~more
  <2>1. \A m \in Members : pc'[<<r, m>>] = IF m = n THEN "done" ELSE pc[<<r, m>>]
    BY <1>9, <1>15
  <2>2. req'[r] = "returned" /\ verdict'[r] = result[<<r, n>>] /\ kind' = kind /\ result' = result
    BY <1>2, <1>3, <1>7, <1>15 DEF TypeOK
  <2>3. \A m \in Members : pc'[<<r, m>>] \in {"none", "done"}
    BY <1>3, <1>6, <2>1, MembersAre DEF DoneWith
  <2>4. FlowOf(r)'
    BY <2>2, <2>3 DEF FlowOf
  <2>5. StagesOf(r)'
    <3>1. kind[r] = "chair" => \A m \in Members : m > n => pc'[<<r, m>>] = "none"
      BY <1>6, <2>1, MembersAre
    <3>2. kind[r] = "chair" =>
              \A m \in Members : m < n => pc'[<<r, m>>] = "done" /\ result[<<r, m>>] = "ok"
      BY <1>6, <2>1, MembersAre DEF DoneWith
    <3>3. kind[r] = "step" => \A m \in Members : m # 1 => pc'[<<r, m>>] = "none"
      <4>1. kind[r] = "step" => n = 1
        BY <1>2, <1>3 DEF RequestInv, StagesOf
      <4> QED BY <1>6, <2>1, <4>1
    <3> QED BY <2>2, <3>1, <3>2, <3>3, MembersAre DEF StagesOf
  <2>6. VerdictOf(r)'
    <3>1. kind[r] = "step" => n = 1
      BY <1>2, <1>3 DEF RequestInv, StagesOf
    <3>2. kind[r] = "chair" =>
              (result[<<r, n>>] = "ok" <=> \A m \in Members : result[<<r, m>>] = "ok")
      <4>1. kind[r] = "chair" /\ result[<<r, n>>] = "ok" => n = Size
        BY <1>15, OrchestrationAssumption DEF more, Members
      <4>2. kind[r] = "chair" => \A m \in Members : m < n => result[<<r, m>>] = "ok"
        BY <1>6 DEF DoneWith
      <4>3. \A m \in Members : m <= Size /\ (m < Size \/ m = Size)
        BY OrchestrationAssumption DEF Members
      <4> QED BY <4>1, <4>2, <4>3
    <3>3. kind[r] \notin {"all", "first", "any"}
      BY <1>3
    <3> QED BY <1>4, <2>2, <3>1, <3>2, <3>3 DEF VerdictOf
  <2> QED BY <1>10, <1>11, <1>12, <1>13, <2>4, <2>5, <2>6, OneRequest DEF AgentsInv, RequestInv
<1> QED BY <1>14, <1>15

-----------------------------------------------------------------------------
\* A request that returns changes nothing but what it says.
LEMMA ReturnKeeps ==
    ASSUME AgentsInv, NEW r \in Requests, NEW v \in {"ok", "error"},
           NEW member \in Members \cup {None},
           Return(r, v, member), req[r] = "wait", kind[r] \in Parallel,
           UNCHANGED <<kind, abort, abandoned, arrived, pc, result, expired, inst, file, ioErrors,
                       down, ops, crashes>>,
           errorsSeen' \in [Requests -> 0..Size],
           \A q \in Requests \ {r} : errorsSeen'[q] = errorsSeen[q],
           VerdictOf(r)'
    PROVE  AgentsInv'
<1>1. TypeOK /\ RequestInv(r) /\ \A s \in Spawns : SpawnInv(s)
  BY DEF AgentsInv
<1>2. /\ req' = [req EXCEPT ![r] = "returned"] /\ verdict' = [verdict EXCEPT ![r] = v]
      /\ picked' = [picked EXCEPT ![r] = member] /\ ended' = ended \cup {r}
  BY DEF Return
<1>3. TypeOK'
  <2>1. req' \in [Requests -> {"idle", "wait", "returned", "lost"}]
    BY <1>1, <1>2 DEF TypeOK
  <2>2. verdict' \in [Requests -> {"none", "ok", "error"}]
    BY <1>1, <1>2 DEF TypeOK
  <2>3. picked' \in [Requests -> Members \cup {None}]
    BY <1>1, <1>2 DEF TypeOK
  <2>4. ended' \in SUBSET Requests
    BY <1>1, <1>2 DEF TypeOK
  <2> QED BY <1>1, <2>1, <2>2, <2>3, <2>4 DEF TypeOK
<1>4. \A s \in Spawns : SpawnInv(s)'
  BY <1>1 DEF SpawnInv
<1>5. Others(r)
  <2>1. ASSUME NEW q \in Requests \ {r} PROVE Left(q)
    <3>1. req'[q] = req[q] /\ verdict'[q] = verdict[q] /\ picked'[q] = picked[q]
      BY <1>1, <1>2 DEF TypeOK
    <3> QED BY <3>1 DEF Left
  <2> QED BY <2>1 DEF Others
<1>6. RequestInv(r)'
  <2>1. req'[r] = "returned"
    BY <1>1, <1>2 DEF TypeOK
  <2>2. FlowOf(r)'
    BY <2>1 DEF FlowOf
  <2>3. ArrivedOf(r)' /\ StagesOf(r)'
    BY <1>1 DEF RequestInv, ArrivedOf, StagesOf
  <2> QED BY <2>2, <2>3 DEF RequestInv
<1> QED BY <1>3, <1>4, <1>5, <1>6, OneRequest DEF AgentsInv

\* A spawn that has reported has one of the two results.
LEMMA ArrivedEnded ==
    ASSUME AgentsInv, NEW r \in Requests, NEW i \in DOMAIN arrived[r]
    PROVE  /\ arrived[r][i] \in Members /\ pc[<<r, arrived[r][i]>>] = "done"
           /\ result[<<r, arrived[r][i]>>] \in {"ok", "error"}
<1>1. TypeOK /\ ArrivedOf(r)
  BY DEF AgentsInv, RequestInv
<1>2. arrived[r][i] \in Members
  BY <1>1 DEF TypeOK
<1>3. <<r, arrived[r][i]>> \in Spawns
  BY <1>2 DEF Spawns
<1>4. pc[<<r, arrived[r][i]>>] = "done"
  BY <1>1 DEF ArrivedOf
<1> QED BY <1>2, <1>3, <1>4 DEF AgentsInv, SpawnInv

\* A join that returns tells the truth of the spawns that have reported.
LEMMA JoinKeeps == ASSUME AgentsInv, NEW r \in Requests, JoinStep(r) PROVE AgentsInv'
<1> USE DEF spawnVars, storeVars, boundVars
<1>1. /\ TypeOK /\ RequestInv(r) /\ ArrivedOf(r) /\ \A s \in Spawns : SpawnInv(s)
      /\ arrived[r] \in Seq(Members)
  BY DEF AgentsInv, RequestInv, TypeOK
<1>2. \A v, member : Return(r, v, member) =>
          req'[r] = "returned" /\ verdict'[r] = v /\ picked'[r] = member
  BY <1>1 DEF Return, TypeOK
<1>3. CASE JoinAll(r)
  <2>1. /\ req[r] = "wait" /\ kind[r] = "all" /\ Len(arrived[r]) = Size
        /\ Return(r, IF abort[r] /\ Failures(r) # {} THEN "error" ELSE "ok", None)
        /\ UNCHANGED <<kind, abort, abandoned, arrived, errorsSeen, spawnVars, storeVars,
                       boundVars>>
    BY <1>3 DEF JoinAll, Joins
  <2>2. DOMAIN arrived[r] = 1..Size
    BY <1>1, <2>1
  <2>3. \A m \in Members : \E i \in DOMAIN arrived[r] : arrived[r][i] = m
    <3>1. Cardinality(DOMAIN arrived[r]) >= Size
      BY <2>2, FS_Interval, OrchestrationAssumption
    <3> QED BY <1>1, <3>1, AllArrived
  <2>4. \A m \in Members : pc[<<r, m>>] = "done"
    BY <2>3, ArrivedEnded
  <2>5. Failures(r) # {} <=> \E m \in Members : result[<<r, m>>] = "error"
    BY <2>3, ArrivedEnded DEF Failures
  <2> DEFINE v == IF abort[r] /\ Failures(r) # {} THEN "error" ELSE "ok"
  <2>6. v \in {"ok", "error"} /\ Return(r, v, None)
    BY <2>1
  <2>7. v = "error" <=> abort[r] /\ Failures(r) # {}
    OBVIOUS
  <2> HIDE DEF v
  <2>8. VerdictOf(r)'
    BY <1>2, <2>1, <2>4, <2>5, <2>6, <2>7 DEF VerdictOf
  <2> QED BY <1>1, <2>1, <2>6, <2>8, ReturnKeeps DEF TypeOK, Parallel
<1>4. CASE ReceiveResult(r)
  <2>1. PICK i \in Successes(r) : Return(r, "ok", arrived[r][i])
    BY <1>4 DEF ReceiveResult
  <2>2. /\ req[r] = "wait" /\ kind[r] = "first"
        /\ UNCHANGED <<kind, abort, abandoned, arrived, errorsSeen, spawnVars, storeVars,
                       boundVars>>
    BY <1>4 DEF ReceiveResult, Joins
  <2>3. i \in DOMAIN arrived[r] /\ result[<<r, arrived[r][i]>>] # "error"
    BY DEF Successes, Failures
  <2>4. arrived[r][i] \in Members /\ DoneWith(r, arrived[r][i], "ok")
    BY <2>3, ArrivedEnded DEF DoneWith
  <2>5. VerdictOf(r)'
    BY <1>2, <2>1, <2>2, <2>4 DEF VerdictOf, DoneWith
  <2> QED BY <1>1, <2>1, <2>2, <2>4, <2>5, ReturnKeeps DEF TypeOK, Parallel
<1>5. CASE ReceiveError(r)
  <2>1. /\ req[r] = "wait" /\ kind[r] = "first" /\ errorsSeen[r] < Cardinality(Failures(r))
        /\ errorsSeen' = [errorsSeen EXCEPT ![r] = @ + 1]
        /\ UNCHANGED <<kind, abort, abandoned, arrived, spawnVars, storeVars, boundVars>>
    BY <1>5 DEF ReceiveError, Joins
  <2>2. errorsSeen[r] \in Nat /\ errorsSeen[r] < Size
    BY <1>1, <2>1, OrchestrationAssumption DEF RequestInv, FlowOf, TypeOK
  <2>3. /\ errorsSeen' \in [Requests -> 0..Size] /\ errorsSeen'[r] = errorsSeen[r] + 1
        /\ \A q \in Requests \ {r} : errorsSeen'[q] = errorsSeen[q]
    BY <1>1, <2>1, <2>2, OrchestrationAssumption DEF TypeOK
  <2>4. CASE errorsSeen[r] + 1 = Size
    <3>1. Return(r, "error", None)
      BY <1>5, <2>4 DEF ReceiveError
    <3>2. Cardinality(Failures(r)) >= Size
      <4>1. IsFiniteSet(Failures(r))
        <5>1. Failures(r) \subseteq 1..Len(arrived[r]) /\ Len(arrived[r]) \in Nat
          BY <1>1 DEF Failures
        <5>2. IsFiniteSet(1..Len(arrived[r]))
          BY <5>1, FS_Interval
        <5> HIDE DEF Failures
        <5> QED BY <5>1, <5>2, FS_Subset
      <4>2. Cardinality(Failures(r)) \in Nat
        BY <4>1, FS_CardinalityType
      <4> QED BY <2>1, <2>2, <2>4, <4>2, OrchestrationAssumption
    <3>3. \A m \in Members : \E i \in Failures(r) : arrived[r][i] = m
      <4>1. Failures(r) \in SUBSET (DOMAIN arrived[r])
        BY DEF Failures
      <4> QED BY <1>1, <3>2, <4>1, AllArrived
    <3>4. ASSUME NEW m \in Members PROVE DoneWith(r, m, "error")
      <4>1. PICK i \in Failures(r) : arrived[r][i] = m
        BY <3>3
      <4>2. i \in DOMAIN arrived[r] /\ result[<<r, arrived[r][i]>>] = "error"
        BY DEF Failures
      <4>3. pc[<<r, arrived[r][i]>>] = "done"
        BY <4>2, ArrivedEnded
      <4> QED BY <4>1, <4>2, <4>3 DEF DoneWith
    <3>5. VerdictOf(r)'
      BY <1>2, <2>1, <3>1, <3>4 DEF VerdictOf, DoneWith
    <3> QED BY <2>1, <2>3, <3>1, <3>5, ReturnKeeps DEF Parallel
  <2>5. CASE errorsSeen[r] + 1 # Size
    <3>1. UNCHANGED <<req, verdict, picked, ended>>
      BY <1>5, <2>5 DEF ReceiveError
    <3>2. TypeOK' /\ \A s \in Spawns : SpawnInv(s)'
      BY <1>1, <2>1, <2>3, <3>1 DEF TypeOK, SpawnInv
    <3>3. Others(r)
      BY <2>1, <2>3, <3>1 DEF Others, Left
    <3>4. RequestInv(r)'
      <4>1. FlowOf(r)'
        BY <1>1, <2>1, <2>2, <2>3, <2>5, <3>1, OrchestrationAssumption DEF RequestInv, FlowOf
      <4>2. ArrivedOf(r)' /\ StagesOf(r)' /\ VerdictOf(r)'
        BY <1>1, <2>1, <3>1 DEF RequestInv, ArrivedOf, StagesOf, VerdictOf
      <4> QED BY <4>1, <4>2 DEF RequestInv
    <3> QED BY <3>2, <3>3, <3>4, OneRequest DEF AgentsInv
  <2> QED BY <2>4, <2>5
<1>6. CASE ReceiveAny(r)
  <2>1. /\ req[r] = "wait" /\ kind[r] = "any" /\ arrived[r] # <<>> /\ Return(r, "ok", arrived[r][1])
        /\ UNCHANGED <<kind, abort, abandoned, arrived, errorsSeen, spawnVars, storeVars,
                       boundVars>>
    BY <1>6 DEF ReceiveAny, Joins
  <2>2. arrived[r][1] \in Members
    BY <1>1, <2>1
  <2>3. VerdictOf(r)'
    BY <1>2, <2>1 DEF VerdictOf
  <2> QED BY <1>1, <2>1, <2>2, <2>3, ReturnKeeps DEF TypeOK, Parallel
<1>7. CASE SeeCancel(r)
  <2>1. /\ req[r] = "wait" /\ kind[r] \in {"first", "any"} /\ r \in abandoned
        /\ Return(r, "error", None)
        /\ UNCHANGED <<kind, abort, abandoned, arrived, errorsSeen, spawnVars, storeVars,
                       boundVars>>
    BY <1>7 DEF SeeCancel, Joins
  <2>2. VerdictOf(r)'
    BY <1>2, <2>1 DEF VerdictOf
  <2> QED BY <1>1, <2>1, <2>2, ReturnKeeps DEF TypeOK, Parallel
<1> QED BY <1>3, <1>4, <1>5, <1>6, <1>7 DEF JoinStep

\* A caller that gives up is remembered.
LEMMA AbandonKeeps == ASSUME AgentsInv, NEW r \in Requests, Abandon(r) PROVE AgentsInv'
<1>1. TypeOK /\ \A s \in Spawns : SpawnInv(s)
  BY DEF AgentsInv
<1>2. /\ abandoned' = abandoned \cup {r} /\ ended' = ended \cup {r}
      /\ UNCHANGED <<kind, abort, req, verdict, picked, arrived, errorsSeen, pc, result, expired,
                     inst, file, ioErrors, down, ops, crashes>>
  BY DEF Abandon, spawnVars, storeVars, boundVars
<1>3. TypeOK'
  BY <1>1, <1>2 DEF TypeOK
<1>4. \A s \in Spawns : SpawnInv(s)'
  BY <1>1, <1>2 DEF SpawnInv
<1>5. \A q \in Requests : Left(q)
  BY <1>2 DEF Left
<1> QED BY <1>1, <1>3, <1>4, <1>5, LeftKeeps DEF AgentsInv

\* A crash takes from a request that has returned the spawns that are not done,
\* of which it said nothing.
LEMMA CrashKeeps == ASSUME AgentsInv, Crash PROVE AgentsInv'
<1> DEFINE lost == {r \in Requests : req[r] = "wait"}
           left == {s \in Spawns : pc[s] # "none" /\ (s[1] \in lost \/ pc[s] # "done")}
<1>1. TypeOK /\ \A s \in Spawns : SpawnInv(s)
  BY DEF AgentsInv
<1>2. /\ crashes < MaxCrashes /\ crashes' = crashes + 1 /\ down' = TRUE
      /\ req' = [r \in Requests |-> IF r \in lost THEN "lost" ELSE req[r]]
      /\ arrived' = [r \in Requests |-> IF r \in lost THEN <<>> ELSE arrived[r]]
      /\ errorsSeen' = [r \in Requests |-> IF r \in lost THEN 0 ELSE errorsSeen[r]]
      /\ ended' = ended \ lost /\ abandoned' = abandoned \ lost
      /\ pc' = [s \in Spawns |-> IF s \in left THEN "lost" ELSE pc[s]]
      /\ result' = [s \in Spawns |-> IF s \in left THEN "none" ELSE result[s]]
      /\ expired' = expired \ left /\ inst' = [s \in Spawns |-> "none"]
      /\ UNCHANGED <<kind, abort, verdict, picked, ioErrors, ops>>
  BY DEF Crash
<1>3. file' = file \/ \E s \in Spawns : file' = [file EXCEPT ![s] = "torn"]
  BY DEF Crash, Saving
<1>4. \A r \in Requests, m \in Members :
          /\ <<r, m>> \in Spawns
          /\ <<r, m>> \in left <=>
                  pc[<<r, m>>] # "none" /\ (req[r] = "wait" \/ pc[<<r, m>>] # "done")
  BY DEF Spawns
<1>5. \A r \in Requests, m \in Members :
          IF <<r, m>> \in left THEN pc'[<<r, m>>] = "lost" /\ result'[<<r, m>>] = "none"
          ELSE pc'[<<r, m>>] = pc[<<r, m>>] /\ result'[<<r, m>>] = result[<<r, m>>]
  <2> HIDE DEF left
  <2> QED BY <1>2, <1>4
<1>6. TypeOK'
  <2> HIDE DEF lost, left
  <2>1. req' \in [Requests -> {"idle", "wait", "returned", "lost"}]
    BY <1>1, <1>2 DEF TypeOK
  <2>2. arrived' \in [Requests -> Seq(Members)]
    BY <1>1, <1>2 DEF TypeOK
  <2>3. errorsSeen' \in [Requests -> 0..Size]
    BY <1>1, <1>2, OrchestrationAssumption DEF TypeOK
  <2>4. pc' \in [Spawns -> {"none", "check", "create", "created", "run", "ended", "stop",
                            "report", "done", "lost"}]
    BY <1>1, <1>2 DEF TypeOK
  <2>5. result' \in [Spawns -> {"none", "ok", "error"}]
    BY <1>1, <1>2 DEF TypeOK
  <2>6. inst' \in [Spawns -> Statuses \cup {"none"}]
    BY <1>2
  <2>7. file' \in [Spawns -> Statuses \cup {"none", "torn"}]
    BY <1>1, <1>3 DEF TypeOK
  <2>8. ended' \in SUBSET Requests /\ abandoned' \in SUBSET Requests /\ expired' \in SUBSET Spawns
    BY <1>1, <1>2 DEF TypeOK
  <2>9. crashes' \in 0..MaxCrashes /\ down' \in BOOLEAN
    BY <1>1, <1>2, OrchestrationAssumption DEF TypeOK
  <2> QED BY <1>1, <1>2, <2>1, <2>2, <2>3, <2>4, <2>5, <2>6, <2>7, <2>8, <2>9 DEF TypeOK
<1>7. ASSUME NEW s \in Spawns PROVE SpawnInv(s)'
  <2>1. inst'[s] = "none" /\ (file'[s] = "running" => file[s] = "running")
    BY <1>1, <1>2, <1>3 DEF TypeOK
  <2>2. IF s \in left THEN pc'[s] = "lost" /\ result'[s] = "none"
        ELSE pc'[s] = pc[s] /\ result'[s] = result[s]
    <3> HIDE DEF left
    <3> QED BY <1>2
  <2> HIDE DEF left
  <2> QED BY <1>1, <2>1, <2>2 DEF SpawnInv, Early
<1>8. ASSUME NEW r \in Requests PROVE RequestInv(r)'
  <2>1. RequestInv(r) /\ (req[r] \in {"idle", "wait", "returned", "lost"})
    BY <1>1 DEF AgentsInv, TypeOK
  <2>2. CASE req[r] = "wait"
    <3>1. req'[r] = "lost" /\ arrived'[r] = <<>> /\ kind'[r] = kind[r]
      BY <1>2, <2>2
    <3>2. \A m \in Members : pc'[<<r, m>>] = IF pc[<<r, m>>] = "none" THEN "none" ELSE "lost"
      <4> HIDE DEF left
      <4> QED BY <1>4, <1>5, <2>2
    <3>3. StagesOf(r)'
      BY <2>1, <3>1, <3>2, MembersAre DEF RequestInv, StagesOf
    <3> QED BY <3>1, <3>2, <3>3 DEF RequestInv, FlowOf, ArrivedOf, VerdictOf
  <2>3. CASE req[r] # "wait"
    <3>1. /\ req'[r] = req[r] /\ arrived'[r] = arrived[r] /\ errorsSeen'[r] = errorsSeen[r]
          /\ kind'[r] = kind[r] /\ abort'[r] = abort[r] /\ verdict'[r] = verdict[r]
          /\ picked'[r] = picked[r] /\ (r \in abandoned' <=> r \in abandoned)
      BY <1>2, <2>3
    <3>2. \A m \in Members :
              IF pc[<<r, m>>] \in {"none", "done"}
              THEN pc'[<<r, m>>] = pc[<<r, m>>] /\ result'[<<r, m>>] = result[<<r, m>>]
              ELSE pc'[<<r, m>>] = "lost" /\ result'[<<r, m>>] = "none"
      <4> HIDE DEF left
      <4> QED BY <1>4, <1>5, <2>3
    <3> HIDE DEF left, lost
    <3>3. \A i \in DOMAIN arrived[r] : arrived[r][i] \in Members
      BY <1>1 DEF TypeOK
    <3>4. FlowOf(r)'
      <4>1. FlowOf(r)
        BY <2>1 DEF RequestInv
      <4>2. req[r] = "idle" =>
                arrived[r] = <<>> /\ errorsSeen[r] = 0 /\ \A m \in Members : pc'[<<r, m>>] = "none"
        BY <3>2, <4>1 DEF FlowOf
      <4>3. req[r] = "lost" =>
                arrived[r] = <<>> /\ \A m \in Members : pc'[<<r, m>>] \in {"none", "lost"}
        BY <3>2, <4>1 DEF FlowOf
      <4>4. req[r] = "returned" /\ kind[r] \notin Parallel =>
                \A m \in Members : pc'[<<r, m>>] \in {"none", "done"}
        BY <3>2, <4>1 DEF FlowOf
      <4> QED BY <2>3, <3>1, <4>2, <4>3, <4>4 DEF FlowOf
    <3>5. ArrivedOf(r)'
      BY <2>1, <3>1, <3>2, <3>3 DEF RequestInv, ArrivedOf
    <3>6. StagesOf(r)'
      BY <2>1, <3>1, <3>2 DEF RequestInv, StagesOf
    <3>7. VerdictOf(r)'
      <4> SUFFICES ASSUME req[r] = "returned" PROVE VerdictOf(r)'
        BY <3>1 DEF VerdictOf
      <4>1. VerdictOf(r) /\ FlowOf(r)
        BY <2>1 DEF RequestInv
      <4>2. kind[r] = "first" => VerdictOf(r)'
        BY <3>1, <3>2, <4>1 DEF VerdictOf, DoneWith
      <4>3. kind[r] \in {"all", "any"} => VerdictOf(r)'
        BY <3>1, <3>2, <4>1 DEF VerdictOf
      <4>4. kind[r] \in {"chair", "step"} => VerdictOf(r)'
        BY <3>1, <3>2, <4>1, MembersAre DEF VerdictOf, FlowOf, Parallel
      <4>5. kind[r] \in {"first", "all", "any", "chair", "step"}
        BY <1>1 DEF TypeOK, Kinds, Parallel
      <4> QED BY <4>2, <4>3, <4>4, <4>5
    <3> QED BY <3>4, <3>5, <3>6, <3>7 DEF RequestInv
  <2> QED BY <2>2, <2>3
<1> QED BY <1>6, <1>7, <1>8 DEF AgentsInv

\* Every step keeps the invariant.
LEMMA AgentsKeepsInv == ASSUME AgentsInv, [Next]_vars PROVE AgentsInv'
<1>1. CASE UNCHANGED vars
  <2>1. UNCHANGED <<kind, abort, req, verdict, picked, ended, abandoned, arrived, errorsSeen, pc,
                    result, expired, inst, file, ioErrors, down, ops, crashes>>
    BY <1>1 DEF vars, requestVars, spawnVars, storeVars, boundVars
  <2>2. TypeOK' /\ \A s \in Spawns : SpawnInv(s)'
    BY <2>1 DEF AgentsInv, TypeOK, SpawnInv
  <2>3. \A r \in Requests : Left(r)
    BY <2>1 DEF Left
  <2> QED BY <2>2, <2>3, LeftKeeps DEF AgentsInv
<1>2. CASE \E s \in Spawns : SpawnStep(s) \/ RunReturns(s)
  BY <1>2, InnerKeeps, ReportKeeps, NextStageKeeps DEF SpawnStep, InnerStep
<1>3. CASE \E r \in Requests : Start(r) \/ JoinStep(r) \/ Abandon(r)
  BY <1>3, StartKeeps, JoinKeeps, AbandonKeeps
<1>4. CASE StoreStep
  BY <1>4, StoreKeeps
<1>5. CASE Crash
  BY <1>5, CrashKeeps
<1> QED BY <1>1, <1>2, <1>3, <1>4, <1>5 DEF Next, StoreStep

\* The invariant says what is asked.
LEMMA AgentsInvIsHonest == ASSUME AgentsInv PROVE AgentsAreHonest
<1>1. TypeOK /\ RunningIsLive
  BY DEF AgentsInv, SpawnInv, RunningIsLive
<1>2. ASSUME NEW r \in Requests, req[r] = "returned"
      PROVE  CASE kind[r] = "all" ->
                      /\ \A s \in SpawnsOf(r) : pc[s] = "done"
                      /\ verdict[r] = "error" <=>
                             abort[r] /\ \E s \in SpawnsOf(r) : result[s] = "error"
               [] kind[r] = "first" ->
                      IF verdict[r] = "ok" THEN result[<<r, picked[r]>>] = "ok"
                      ELSE r \in abandoned \/ \A s \in SpawnsOf(r) : result[s] = "error"
               [] kind[r] = "any" ->
                      IF verdict[r] = "ok" THEN picked[r] = Head(arrived[r]) ELSE r \in abandoned
               [] kind[r] = "chair" ->
                      verdict[r] = "ok" <=> \A s \in SpawnsOf(r) : result[s] = "ok"
               [] OTHER -> verdict[r] = result[<<r, 1>>]
  <2>1. VerdictOf(r) /\ arrived[r] \in Seq(Members)
    BY DEF AgentsInv, RequestInv, TypeOK
  <2>2. \A s : s \in SpawnsOf(r) <=> \E m \in Members : s = <<r, m>>
    BY DEF SpawnsOf
  <2>3. CASE kind[r] = "all"
    BY <1>2, <2>1, <2>2, <2>3 DEF VerdictOf
  <2>4. CASE kind[r] = "first"
    BY <1>2, <2>1, <2>2, <2>4 DEF VerdictOf, DoneWith
  <2>5. CASE kind[r] = "any"
    <3>1. arrived[r] # <<>> => Head(arrived[r]) = arrived[r][1]
      BY <2>1
    <3> QED BY <1>2, <2>1, <2>5, <3>1 DEF VerdictOf
  <2>6. CASE kind[r] = "chair"
    BY <1>2, <2>1, <2>2, <2>6 DEF VerdictOf
  <2>7. CASE kind[r] = "step"
    BY <1>2, <2>1, <2>7 DEF VerdictOf
  <2>8. kind[r] \in {"all", "first", "any", "chair", "step"}
    BY DEF AgentsInv, TypeOK, Kinds, Parallel
  <2> QED BY <2>3, <2>4, <2>5, <2>6, <2>7, <2>8
<1>3. JoinsAreHonest
  BY <1>2 DEF JoinsAreHonest
<1> QED BY <1>1, <1>3 DEF AgentsAreHonest

\* What a request that has returned says of its spawns is true, however many
\* requests run, are abandoned and are lost with the daemon, and an instance
\* that the table and its file call running has a run.  parallel.go:80-234,
\* captains_chair.go:50-121, orchestrator.go:88-181.
THEOREM AgentsAreHonestHolds == Spec => []AgentsAreHonest
<1>1. Spec => []AgentsInv
  BY AgentsInitInv, AgentsKeepsInv, PTL DEF Spec
<1> QED BY <1>1, AgentsInvIsHonest, PTL

-----------------------------------------------------------------------------
\* The composition that is model-checked is all five components at once, with the
\* fairness of each: whatever is proved of one of them above holds of it too.
THEOREM ServicesAreComponents ==
    PartSpec => Spec /\ PlanSpec /\ NodeSpec /\ RoutingSpec /\ LifecycleSpec
<1>1. PartInit => Init /\ PlanInit /\ NodeInit /\ RoutingInit /\ LifecycleInit
  BY DEF PartInit
<1>2. [PartNext]_PartVars =>
      /\ [Next]_vars /\ [PlanNext]_planVars /\ [NodeNext]_nodeVars
      /\ [RoutingNext]_routingVars /\ [LifecycleNext]_lifecycleVars
  BY DEF PartNext, PartVars
<1> QED
  BY <1>1, <1>2, PTL
     DEF PartSpec, Spec, PlanSpec, NodeSpec, RoutingSpec, LifecycleSpec
=============================================================================

----------------------------- MODULE MCServices -----------------------------
(***************************************************************************)
(* Orchestration, PlanExecution, Nodes, Routing and Lifecycle for TLC.     *)
(* They share nothing: a behaviour is one of one of them, as "part" says,  *)
(* and the others stay as they start.                                      *)
(***************************************************************************)
EXTENDS Orchestration, PlanExecution, Nodes, Routing, Lifecycle, TLC

CONSTANTS r1, s1, n1, i1, i2, t1, t2, q1, q2, d1, d2
VARIABLE part

NoDeps == [s \in Steps |-> {}]
MCFallbacks == {<<>>, <<t1>>, <<t2>>}

\* Bindings speak for t1 or, in one of the two calls, for t2 alone.
MCRanks == {[x \in Resolves \X Routes |-> IF x = <<q1, t1>> THEN 2 ELSE 1],
            [x \in Resolves \X Routes |->
                IF x = <<q1, t1>> \/ x = <<q2, t2>> THEN 1 ELSE 0]}

\* In the part of the nodes one is registered and allowed to start with; if it is
\* the default one, it has a timeout behind it.
PartInit ==
    /\ part \in {"agents", "plan", "nodes", "resolve", "deliver", "daemon"}
    /\ Init /\ LifecycleInit /\ PlanInit
    /\ part # "plan" => deps = NoDeps /\ join = "all" /\ onFail = "abort"
    /\ NodeInit /\ node[n1].known /\ node[n1].online /\ node[n1].granted
    /\ node[n1].missed = 0 /\ (charged[n1] = 0 <=> defaultNode = Nobody)
    /\ part # "nodes" => defaultNode = Nobody
    /\ bindingRank \in MCRanks /\ RoutingInit
    /\ part # "resolve" => bindingRank[<<q1, t1>>] = 2

\* Of the two invocations, i1 is made first.
NodesPart == invocation'[i2] # "new" => invocation'[i1] # "new"

\* Calls of ResolveRoute meet at the priorities, a delivery at the fallbacks.
ResolvePart ==
    /\ UNCHANGED <<deliveryVars, fileVars>>
    /\ \A r \in Routes : routes'[r].fallbacks = <<>>
DeliverPart ==
    /\ UNCHANGED resolveVars
    /\ \A r \in Routes : routes'[r].priority < 2

PartNext ==
    /\ UNCHANGED part
    /\ \/ part = "agents" /\ Next
          /\ UNCHANGED <<planVars, nodeVars, routingVars, lifecycleVars>>
       \/ part = "plan" /\ PlanNext
          /\ UNCHANGED <<vars, nodeVars, routingVars, lifecycleVars>>
       \/ part = "nodes" /\ NodeNext /\ NodesPart
          /\ UNCHANGED <<vars, planVars, routingVars, lifecycleVars>>
       \/ part = "resolve" /\ RoutingNext /\ ResolvePart
          /\ UNCHANGED <<vars, planVars, nodeVars, lifecycleVars>>
       \/ part = "deliver" /\ RoutingNext /\ DeliverPart
          /\ UNCHANGED <<vars, planVars, nodeVars, lifecycleVars>>
       \/ part = "daemon" /\ LifecycleNext
          /\ UNCHANGED <<vars, planVars, nodeVars, routingVars>>

PartVars == <<part, vars, planVars, nodeVars, routingVars, lifecycleVars>>

\* Requests, plans, calls, deliveries and commands are begun by others: nothing has
\* to happen in the parts that a behaviour leaves alone.
PartSpec ==
    PartInit /\ [][PartNext]_PartVars
    /\ Fairness /\ PlanFairness /\ NodeFairness /\ RoutingFairness /\ LifecycleFairness

-----------------------------------------------------------------------------
\* What has begun ends: a request for an agent, a plan, an invocation of a node, a
\* delivery, the daemon's start, and "ranya stop", which by then has seen the daemon
\* it is about close nearly all.
AtWork ==
    \/ RequestsAtWork \/ PlanAtWork \/ NodesAtWork \/ DeliveryAtWork \/ DaemonStarting
    \/ StopAtWork
WhatBeginsEnds == StopEndsDaemon /\ (AtWork ~> ~AtWork)
=============================================================================

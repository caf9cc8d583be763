----------------------------- MODULE MCMessages -----------------------------
(***************************************************************************)
(* The components that a message passes, for TLC: the chat's ingress, the  *)
(* gateway and the webhook server, the runtime flow, the agent runner, the *)
(* session store and the memory index.  A behaviour is one of one of them, *)
(* as "part" says, and the others stay as they start.                      *)
(***************************************************************************)
EXTENDS SessionStore, AgentRunner, TelegramIngress, RuntimeFlow, Gateway, Webhook,
        Memory, TLC

CONSTANTS k1, p1, p2, p3, m1, m2, s1, n1, n2, u1, u2, v1, v2, g1, g2
VARIABLE part

\* One message more than a pruning keeps.
MCOld == <<m1, m2>>

\* The processes, the sessions of the runs, the messages and the requests of
\* the flow are interchangeable: of the ways to name them, one.  What another
\* part's behaviours choose from has one value.
Rank(p) == CASE job[p].kind = "append" -> 1 [] job[p].kind = "delete" -> 2
             [] job[p].kind = "prune" -> 3 [] job[p].kind = "archive" -> 4

PartInit ==
    /\ part \in {"sessions", "runs", "chat", "flow", "requests", "events", "webhook",
                 "memory"}
    /\ Init /\ Rank(p1) <= Rank(p2) /\ Rank(p2) <= Rank(p3)
    /\ part # "sessions" => Rank(p3) = 1
    /\ RunnerInit /\ session[n1] = s1 /\ (part # "runs" => session[n2] = s1)
    /\ FlowInit /\ request[u1] = v1 /\ keyOf[v1] = k1
    /\ request[u2] = v1 => keyOf[v2] = k1 /\ plan[v2] = 1
    /\ part # "flow" => request[u2] = v1 /\ ~critic /\ plan[v1] = 1
    /\ IngressInit /\ GatewayInit /\ WebhookInit /\ MemoryInit

\* The gateway's requests meet under an idempotency key or at a client's limit,
\* and its events, which one request sends too, at a stop.
GatewayPart ==
    \/ part = "requests" /\ UNCHANGED <<eventVars, stopping, attempts>>
    \/ part = "events" /\ key' = key /\ requestStage'[g2] = "none"

\* Runs of one session meet in its lane and its transcript, those of two at
\* the profiles: there, n1 alone is cancelled and no session is cleared.  Time
\* passes between the calls of the models.  What the queue forgets is the
\* reply to a first step.
RunsPart ==
    /\ session[n2] # s1 =>
          n2 \notin over' /\ \A s \in Sessions : Len(transcript'[s]) >= Len(transcript[s])
    /\ minute' # minute => phase[n1] = "pick" /\ phase[n2] \in {"idle", "pick", "done"}
FlowPart == \A id \in Ids \ {<<v1, 1>>} : forgets'[id] = 0

PartNext ==
    /\ UNCHANGED part
    /\ \/ part = "sessions" /\ Next
          /\ UNCHANGED <<runnerVars, ingressVars, flowVars, gatewayVars, webhookVars, memoryVars>>
       \/ part = "runs" /\ RunnerNext /\ RunsPart
          /\ UNCHANGED <<vars, ingressVars, flowVars, gatewayVars, webhookVars, memoryVars>>
       \/ part = "chat" /\ IngressNext
          /\ UNCHANGED <<vars, runnerVars, flowVars, gatewayVars, webhookVars, memoryVars>>
       \/ part = "flow" /\ FlowNext /\ FlowPart
          /\ UNCHANGED <<vars, runnerVars, ingressVars, gatewayVars, webhookVars, memoryVars>>
       \/ GatewayNext /\ GatewayPart
          /\ UNCHANGED <<vars, runnerVars, ingressVars, flowVars, webhookVars, memoryVars>>
       \/ part = "webhook" /\ WebhookNext
          /\ UNCHANGED <<vars, runnerVars, ingressVars, flowVars, gatewayVars, memoryVars>>
       \/ part = "memory" /\ MemoryNext
          /\ UNCHANGED <<vars, runnerVars, ingressVars, flowVars, gatewayVars, webhookVars>>

\* Runs, updates, requests, posts and searches are begun by others, so that
\* nothing has to happen in the parts that a behaviour leaves alone.
PartFairness ==
    /\ \A p \in Procs : WF_vars(Started(p) /\ Step(p))
    /\ RunnerFairness /\ IngressFairness /\ FlowFairness /\ GatewayFairness
    /\ WebhookFairness /\ MemoryFairness

PartVars == <<part, vars, runnerVars, ingressVars, flowVars, gatewayVars, webhookVars,
              memoryVars>>
PartSpec == PartInit /\ [][PartNext]_PartVars /\ PartFairness

-----------------------------------------------------------------------------
\* The variables of each component have values of their types.
MessagesTypeOK == TypeOK /\ RunnerTypeOK /\ IngressTypeOK /\ GatewayTypeOK

\* What has begun ends: a job on a session, a run, an update of the chat, a
\* message of the flow, the gateway's requests and its stop, a request to the
\* webhook server and a search.
AtWork ==
    \/ JobsAtWork \/ RunsAtWork \/ BotWaits \/ MessagesOnTheWay
    \/ GatewayAtWork \/ WebhookAtWork \/ SearchesAtWork
WhatBeginsEnds == AtWork ~> ~AtWork
=============================================================================

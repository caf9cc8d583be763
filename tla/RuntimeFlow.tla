---------------------------- MODULE RuntimeFlow ----------------------------
(***************************************************************************)
(* What the daemon does with a message of any channel, internal/daemon     *)
(* (router.go, runtime_pipeline.go, session_reset.go): one message of a    *)
(* session after the other, it is routed to an agent and planned as one or *)
(* two steps, each a run under a request ID of its own, which the command  *)
(* queue answers from its cache if it has seen it; the critic looks at the *)
(* result of every step, under the ID of the whole request.                *)
(*                                                                         *)
(* A request that is repeated with its ID has the session, the agent and   *)
(* the plan that it had.  A run is AgentRunner's; here it comes to a       *)
(* result.  Telegram's IDs are new for every message.                      *)
(***************************************************************************)
EXTENDS Naturals, Sequences, FiniteSets

CONSTANTS
    Messages,       \* calls of RouteMessageAndWait
    FlowRequests,       \* what they ask for: the same twice if it is repeated
    FlowKeys,           \* session keys
    MaxForgets      \* bound: entries of the queue's cache that expire

Steps == 1..2
Critic == 0
NoReply == [by |-> "nobody", step |-> 0, is |-> "none"]
SendReply(m, i, is) == [by |-> m, step |-> i, is |-> is]

VARIABLES
    request,    \* per message, what it asks for
    keyOf, plan, \* per request, its session and its number of steps
    critic,     \* whether there is an agent with that role
    place,      \* per message, where it is
    step,       \* its step
    output,     \* the result of its last step
    verdict,    \* the reply of the critic to it
    response,   \* what its caller gets
    queueCache, \* the queue's cache: <<request, step>>, Critic for the request itself
    runs, forgets \* history: runs of each of these, and expiries

requestFacts == <<request, keyOf, plan, critic>>
flowVars == <<requestFacts, place, step, output, verdict, response, queueCache, runs, forgets>>

Ids == FlowRequests \X ({Critic} \cup Steps)

FlowInit ==
    /\ request \in [Messages -> FlowRequests]
    /\ keyOf \in [FlowRequests -> FlowKeys] /\ plan \in [FlowRequests -> Steps]
    /\ critic \in BOOLEAN
    /\ place = [m \in Messages |-> "new"] /\ step = [m \in Messages |-> 1]
    /\ output = [m \in Messages |-> NoReply] /\ verdict = [m \in Messages |-> NoReply]
    /\ response = [m \in Messages |-> NoReply]
    /\ queueCache = [id \in Ids |-> NoReply]
    /\ runs = [id \in Ids |-> 0] /\ forgets = [id \in Ids |-> 0]

Key(m) == keyOf[request[m]]
OnLane(m) == place[m] \notin {"new", "queued", "done"}
To(m, p) == place' = [place EXCEPT ![m] = p]
AnswerMessage(m, r) == To(m, "done") /\ response' = [response EXCEPT ![m] = r]

\* The channel may be unknown; else the message is put on its session's lane.
RouteMessage(m) ==
    /\ place[m] = "new"
    /\ \/ To(m, "queued") /\ UNCHANGED response
       \/ AnswerMessage(m, SendReply(m, 0, "error"))
    /\ UNCHANGED <<requestFacts, step, output, verdict, queueCache, runs, forgets>>

\* Variant: the lane does not keep messages apart.
TakeMessageBeside(m) ==
    /\ place[m] = "queued" /\ To(m, "process")
    /\ UNCHANGED <<requestFacts, step, output, verdict, response, queueCache, runs, forgets>>

TakeMessage(m) ==
    /\ place[m] = "queued" /\ \A o \in Messages : Key(o) = Key(m) => ~OnLane(o)
    /\ To(m, "process")
    /\ UNCHANGED <<requestFacts, step, output, verdict, response, queueCache, runs, forgets>>

\* Routing, moderation, the choice of the agent or the plan may fail, a reset
\* needs no agent; else the plan is run.
ProcessMessage(m) ==
    /\ place[m] = "process"
    /\ \/ AnswerMessage(m, SendReply(m, 0, "error"))
       \/ AnswerMessage(m, SendReply(m, 0, "greeting"))
       \/ To(m, "step") /\ UNCHANGED response
    /\ UNCHANGED <<requestFacts, step, output, verdict, queueCache, runs, forgets>>

\* "<request>:step-<i>".
StepId(m) == <<request[m], step[m]>>

\* The queue has the reply to this ID, or a run is started.  With two steps an
\* instance is made for it first, and that may fail.
CallStep(m) ==
    /\ place[m] = "step"
    /\ \/ /\ plan[request[m]] > 1
          /\ output' = [output EXCEPT ![m] = SendReply(m, step[m], "error")]
          /\ To(m, "result") /\ UNCHANGED runs
       \/ IF queueCache[StepId(m)] # NoReply
          THEN /\ output' = [output EXCEPT ![m] = queueCache[StepId(m)]]
               /\ To(m, "result") /\ UNCHANGED runs
          ELSE /\ runs' = [runs EXCEPT ![StepId(m)] = @ + 1]
               /\ To(m, "run") /\ UNCHANGED output
    /\ UNCHANGED <<requestFacts, step, verdict, response, queueCache, forgets>>

\* The queue keeps errors as well.  With two steps the instance is stopped then, and
\* that may fail, whatever the run came to.
StepReturns(m) ==
    /\ place[m] = "run" /\ To(m, "result")
    /\ \E is \in {"ok", "aborted", "error"} :
           queueCache' = [queueCache EXCEPT ![StepId(m)] = SendReply(m, step[m], is)]
    /\ \/ output' = [output EXCEPT ![m] = queueCache'[StepId(m)]]
       \/ plan[request[m]] > 1 /\ output' = [output EXCEPT ![m] = SendReply(m, step[m], "error")]
    /\ UNCHANGED <<requestFacts, step, verdict, response, runs, forgets>>

\* An error ends the plan; an aborted step counts as completed.
SeeResult(m) ==
    /\ place[m] = "result"
    /\ IF output[m].is = "error" THEN AnswerMessage(m, output[m])
       ELSE To(m, IF critic THEN "critic" ELSE "next") /\ UNCHANGED response
    /\ UNCHANGED <<requestFacts, step, output, verdict, queueCache, runs, forgets>>

\* The critic runs under the ID of the request: what it said of the first step
\* is what the queue answers for the second.
CallCritic(m) ==
    /\ place[m] = "critic"
    /\ IF queueCache[<<request[m], Critic>>] # NoReply
       THEN /\ verdict' = [verdict EXCEPT ![m] = queueCache[<<request[m], Critic>>]]
            /\ To(m, "next") /\ UNCHANGED runs
       ELSE /\ runs' = [runs EXCEPT ![<<request[m], Critic>>] = @ + 1]
            /\ To(m, "review") /\ UNCHANGED verdict
    /\ UNCHANGED <<requestFacts, step, output, response, queueCache, forgets>>

CriticReturns(m) ==
    /\ place[m] = "review" /\ To(m, "next")
    /\ \E is \in {"approved", "rejected", "error"} :
           /\ verdict' = [verdict EXCEPT ![m] = SendReply(m, step[m], is)]
           /\ queueCache' = [queueCache EXCEPT ![<<request[m], Critic>>] = verdict'[m]]
    /\ UNCHANGED <<requestFacts, step, output, response, runs, forgets>>

\* The verdict is logged only.  The response of the last step is the reply,
\* unless it is redacted.
NextStep(m) ==
    /\ place[m] = "next"
    /\ IF step[m] < plan[request[m]]
       THEN /\ step' = [step EXCEPT ![m] = @ + 1] /\ To(m, "step") /\ UNCHANGED response
       ELSE /\ \/ AnswerMessage(m, output[m])
               \/ AnswerMessage(m, [output[m] EXCEPT !.is = "redacted"])
            /\ UNCHANGED step
    /\ UNCHANGED <<requestFacts, output, verdict, queueCache, runs, forgets>>

\* An entry of the queue's cache expires or is evicted.
ForgetReply(id) ==
    /\ queueCache[id] # NoReply /\ forgets[id] < MaxForgets
    /\ queueCache' = [queueCache EXCEPT ![id] = NoReply]
    /\ forgets' = [forgets EXCEPT ![id] = @ + 1]
    /\ UNCHANGED <<requestFacts, place, step, output, verdict, response, runs>>

FlowStep(m) ==
    \/ TakeMessage(m) \/ ProcessMessage(m) \/ CallStep(m) \/ StepReturns(m)
    \/ SeeResult(m) \/ CallCritic(m) \/ CriticReturns(m) \/ NextStep(m)

FlowNext ==
    \/ \E m \in Messages : RouteMessage(m) \/ FlowStep(m)
    \/ \E id \in Ids : ForgetReply(id)

\* The queue runs what it is given, and a run ends: see CommandQueue, AgentRunner.
FlowFairness == \A m \in Messages : WF_flowVars(FlowStep(m))
FlowSpec == FlowInit /\ [][FlowNext]_flowVars /\ FlowFairness

-----------------------------------------------------------------------------
\* However often a request is repeated with its ID, a step of it runs again
\* only if the queue has forgotten its result, failed or not.
StepsRunOnce ==
    \A r \in FlowRequests, i \in Steps : runs[<<r, i>>] <= 1 + forgets[<<r, i>>]

\* A caller gets an error, a greeting, or the response that the last step of
\* the plan of its own request came to, whichever of its repetitions ran it,
\* and never what the critic or an earlier step said.
ReplyIsTheResponse == \A m \in Messages :
    response[m].is \in {"ok", "aborted", "redacted"} =>
        /\ response[m].step = plan[request[m]]
        /\ request[response[m].by] = request[m]

\* Repetitions, the critic and the cache mix up neither the runs nor the
\* replies.  runtime_pipeline.go:64-300.
FlowIsHonest == StepsRunOnce /\ ReplyIsTheResponse

\* Every message that is queued is answered.
MessagesOnTheWay == \E m \in Messages : place[m] \notin {"new", "done"}
MessagesAreAnswered == MessagesOnTheWay ~> ~MessagesOnTheWay

=============================================================================

--------------------------- MODULE MessagesProofs ---------------------------
(***************************************************************************)
(* Proofs about the components that a message passes beside the session    *)
(* store, the gateway and the agent runner: the runtime flow, the chat's   *)
(* ingress, the webhook server and the memory index.  The last section is  *)
(* about all of them together.                                             *)
(***************************************************************************)
EXTENDS MCMessages, SessionProofs, AgentRunnerProofs, GatewayProofs, TLAPS,
        FiniteSetTheorems, SequenceTheorems

-----------------------------------------------------------------------------
\* The runtime flow.
Outcomes == {"none", "ok", "aborted", "error", "greeting", "redacted", "approved", "rejected"}
Results == [by : Messages \cup {"nobody"}, step : Nat, is : Outcomes]
FlowPlaces == {"new", "queued", "process", "step", "run", "result", "critic", "review", "next",
           "done"}

FlowTypes ==
    /\ request \in [Messages -> FlowRequests]
    /\ plan \in [FlowRequests -> Steps]
    /\ place \in [Messages -> FlowPlaces] /\ step \in [Messages -> Steps]
    /\ output \in [Messages -> Results] /\ verdict \in [Messages -> Results]
    /\ response \in [Messages -> Results]
    /\ queueCache \in [Ids -> Results]
    /\ runs \in [Ids -> Nat] /\ forgets \in [Ids -> Nat]

\* The messages of a session are handled one after the other.
FlowLaneInv ==
    \A m, o \in Messages : Key(m) = Key(o) /\ OnLane(m) /\ OnLane(o) => m = o

\* A step that has neither a run nor a reply in the cache is one whose replies
\* have all been forgotten.
FlowRunsInv ==
    \A r \in FlowRequests, i \in Steps :
        /\ runs[<<r, i>>] <= 1 + forgets[<<r, i>>]
        /\ queueCache[<<r, i>>] = NoReply
           /\ (\A m \in Messages : place[m] = "run" => StepId(m) # <<r, i>>)
           => runs[<<r, i>>] <= forgets[<<r, i>>]

\* What a result is about.
IsResultOf(res, r, i) == res.by \in Messages /\ res.step = i /\ request[res.by] = r

\* The cache keeps under the ID of a step what a run of it came to; a message
\* has the result of its own step, which its plan has.
FlowResultInv ==
    /\ \A r \in FlowRequests, i \in Steps :
          queueCache[<<r, i>>] # NoReply => IsResultOf(queueCache[<<r, i>>], r, i)
    /\ \A m \in Messages :
          /\ step[m] <= plan[request[m]]
          /\ place[m] \in {"result", "critic", "review", "next"} =>
                 IsResultOf(output[m], request[m], step[m])

FlowInv == FlowTypes /\ FlowLaneInv /\ FlowRunsInv /\ FlowResultInv /\ ReplyIsTheResponse

\* Before the first message nothing has run.
LEMMA FlowInitInv == FlowInit => FlowInv
<1> SUFFICES ASSUME FlowInit PROVE FlowInv
  OBVIOUS
<1> USE DEF FlowInit
<1>1. FlowTypes
  BY DEF NoReply, FlowTypes, Results, Steps, FlowPlaces, Outcomes
<1>2. FlowLaneInv /\ ReplyIsTheResponse
  BY DEF FlowLaneInv, OnLane, ReplyIsTheResponse, NoReply
<1>3. FlowRunsInv
  BY DEF FlowRunsInv, Ids
<1>4. FlowResultInv
  BY DEF FlowResultInv, Ids, Steps
<1> QED BY <1>1, <1>2, <1>3, <1>4 DEF FlowInv

\* Every step keeps the types.
LEMMA FlowTypeStep == FlowInv /\ [FlowNext]_flowVars => FlowTypes'
<1> SUFFICES ASSUME FlowInv, [FlowNext]_flowVars PROVE FlowTypes'
  OBVIOUS
<1>0. FlowTypes
  BY DEF FlowInv
<1>1. ASSUME NEW m \in Messages, NEW i \in Nat, NEW is \in Outcomes
      PROVE  SendReply(m, i, is) \in Results
  BY DEF SendReply, Results
<1>2. NoReply \in Results
  BY DEF NoReply, Results, Outcomes
<1> USE <1>0 DEF FlowTypes, FlowPlaces, Outcomes, requestFacts, To, AnswerMessage
<1>3. CASE UNCHANGED flowVars
  BY <1>3 DEF flowVars
<1>4. ASSUME NEW id \in Ids, ForgetReply(id) PROVE FlowTypes'
  BY <1>2, <1>4 DEF ForgetReply
<1>5. ASSUME NEW m \in Messages, RouteMessage(m) PROVE FlowTypes'
  BY <1>1, <1>5 DEF RouteMessage
<1>6. ASSUME NEW m \in Messages, TakeMessage(m) PROVE FlowTypes'
  BY <1>6 DEF TakeMessage
<1>7. ASSUME NEW m \in Messages, ProcessMessage(m) PROVE FlowTypes'
  BY <1>1, <1>7 DEF ProcessMessage
<1>8. ASSUME NEW m \in Messages, CallStep(m) PROVE FlowTypes'
  <2>1. StepId(m) \in Ids /\ step[m] \in Nat
    BY DEF StepId, Ids, Steps
  <2> QED BY <1>1, <1>8, <2>1 DEF CallStep
<1>9. ASSUME NEW m \in Messages, StepReturns(m) PROVE FlowTypes'
  <2>1. step[m] \in Nat
    BY DEF Steps
  <2>2. PICK is \in {"ok", "aborted", "error"} :
           queueCache' = [queueCache EXCEPT ![StepId(m)] = SendReply(m, step[m], is)]
    BY <1>9 DEF StepReturns
  <2>3. queueCache' \in [Ids -> Results] /\ StepId(m) \in Ids
    BY <1>1, <2>1, <2>2 DEF StepId, Ids
  <2>4. \/ output' = [output EXCEPT ![m] = queueCache'[StepId(m)]]
        \/ output' = [output EXCEPT ![m] = SendReply(m, step[m], "error")]
    BY <1>9 DEF StepReturns
  <2>5. output' \in [Messages -> Results]
    BY <1>1, <2>1, <2>3, <2>4
  <2> QED BY <1>9, <2>3, <2>5 DEF StepReturns
<1>10. ASSUME NEW m \in Messages, SeeResult(m) PROVE FlowTypes'
  BY <1>10 DEF SeeResult
<1>11. ASSUME NEW m \in Messages, CallCritic(m) PROVE FlowTypes'
  <2>1. <<request[m], Critic>> \in Ids
    BY DEF Ids
  <2> QED BY <1>11, <2>1 DEF CallCritic
<1>12. ASSUME NEW m \in Messages, CriticReturns(m) PROVE FlowTypes'
  <2>1. step[m] \in Nat
    BY DEF Steps
  <2>2. PICK is \in {"approved", "rejected", "error"} :
           queueCache' = [queueCache EXCEPT ![<<request[m], Critic>>] = verdict'[m]]
           /\ verdict' = [verdict EXCEPT ![m] = SendReply(m, step[m], is)]
    BY <1>12 DEF CriticReturns
  <2> QED BY <1>1, <1>12, <2>1, <2>2 DEF CriticReturns
<1>13. ASSUME NEW m \in Messages, NextStep(m) PROVE FlowTypes'
  <2>1. [output[m] EXCEPT !.is = "redacted"] \in Results
    BY DEF Results
  <2>2. step[m] < plan[request[m]] => step[m] + 1 \in Steps
    BY DEF Steps
  <2> QED BY <1>13, <2>1, <2>2 DEF NextStep
<1> QED BY <1>3, <1>4, <1>5, <1>6, <1>7, <1>8, <1>9, <1>10, <1>11, <1>12, <1>13
        DEF FlowNext, FlowStep

\* The lane of the session.
LEMMA FlowLaneStep == FlowInv /\ [FlowNext]_flowVars => FlowLaneInv'
<1> SUFFICES ASSUME FlowInv, [FlowNext]_flowVars PROVE FlowLaneInv'
  OBVIOUS
<1>0. FlowTypes /\ FlowLaneInv
  BY DEF FlowInv
<1>1. ASSUME request' = request, keyOf' = keyOf, \A m \in Messages : OnLane(m)' => OnLane(m)
      PROVE  FlowLaneInv'
  BY <1>0, <1>1 DEF FlowLaneInv, Key
<1>2. ASSUME NEW m \in Messages, TakeMessage(m) PROVE FlowLaneInv'
  <2>1. /\ request' = request /\ keyOf' = keyOf
        /\ \A o \in Messages : Key(o) = Key(m) => ~OnLane(o)
        /\ \A o \in Messages \ {m} : place'[o] = place[o]
    BY <1>0, <1>2 DEF TakeMessage, To, requestFacts, FlowTypes
  <2>2. \A o \in Messages \ {m} : OnLane(o)' <=> OnLane(o)
    BY <2>1 DEF OnLane
  <2>3. \A o \in Messages : Key(o)' = Key(o)
    BY <2>1 DEF Key
  <2> QED BY <1>0, <2>1, <2>2, <2>3 DEF FlowLaneInv
<1>3. ASSUME NEW m \in Messages, RouteMessage(m) \/ ProcessMessage(m) \/ CallStep(m)
             \/ StepReturns(m) \/ SeeResult(m) \/ CallCritic(m) \/ CriticReturns(m)
             \/ NextStep(m)
      PROVE  FlowLaneInv'
  <2>1. /\ request' = request /\ keyOf' = keyOf
        /\ \E p \in FlowPlaces : place' = [place EXCEPT ![m] = p]
        /\ RouteMessage(m) => place'[m] \in {"queued", "done"}
        /\ ~RouteMessage(m) => place[m] \notin {"new", "queued", "done"}
    BY <1>0, <1>3 DEF RouteMessage, ProcessMessage, CallStep, StepReturns, SeeResult,
       CallCritic, CriticReturns, NextStep, requestFacts, To, AnswerMessage, FlowPlaces, FlowTypes
  <2> QED BY <1>0, <1>1, <2>1 DEF OnLane, FlowTypes
<1>4. CASE UNCHANGED flowVars \/ \E id \in Ids : ForgetReply(id)
  BY <1>1, <1>4 DEF flowVars, ForgetReply, requestFacts, OnLane
<1> QED BY <1>2, <1>3, <1>4 DEF FlowNext, FlowStep

\* No message waits at the run of a step that it shares with another.
LEMMA FlowRunIsAlone ==
    ASSUME FlowInv, NEW m \in Messages, NEW o \in Messages, OnLane(m), OnLane(o),
           StepId(m) = StepId(o)
    PROVE  m = o
BY DEF FlowInv, FlowLaneInv, Key, StepId

\* A step of a plan runs again only when its reply was forgotten.
LEMMA FlowRunsStep == FlowInv /\ [FlowNext]_flowVars => FlowRunsInv'
<1> SUFFICES ASSUME FlowInv, [FlowNext]_flowVars PROVE FlowRunsInv'
  OBVIOUS
<1>0. FlowTypes /\ FlowRunsInv
  BY DEF FlowInv
<1>a. \A r \in FlowRequests, i \in Steps : <<r, i>> \in Ids /\ <<r, i>> # <<r, Critic>>
  BY DEF Ids, Steps, Critic
\* What keeps the runs, the replies and the messages that are at a run.
<1>1. ASSUME runs' = runs, queueCache' = queueCache, forgets' = forgets,
             \A m \in Messages : place[m] = "run" =>
                 place'[m] = "run" /\ StepId(m)' = StepId(m)
      PROVE  FlowRunsInv'
  BY <1>0, <1>1 DEF FlowRunsInv
<1>2. ASSUME NEW m \in Messages, RouteMessage(m) \/ TakeMessage(m) \/ ProcessMessage(m)
             \/ SeeResult(m) \/ NextStep(m)
      PROVE  FlowRunsInv'
  <2>1. /\ request' = request /\ place[m] # "run"
        /\ \A o \in Messages \ {m} : place'[o] = place[o] /\ step'[o] = step[o]
        /\ runs' = runs /\ queueCache' = queueCache /\ forgets' = forgets
    BY <1>0, <1>2 DEF RouteMessage, TakeMessage, ProcessMessage, SeeResult, NextStep,
       requestFacts, To, AnswerMessage, FlowTypes
  <2> QED BY <1>1, <2>1 DEF StepId
<1>3. ASSUME NEW m \in Messages, CallStep(m) PROVE FlowRunsInv'
  <2>1. /\ request' = request /\ step' = step /\ place[m] = "step"
        /\ \A o \in Messages \ {m} : place'[o] = place[o]
        /\ queueCache' = queueCache /\ forgets' = forgets
        /\ \A o \in Messages : StepId(o)' = StepId(o)
    BY <1>0, <1>3 DEF CallStep, requestFacts, To, FlowTypes, StepId
  <2>2. CASE runs' = runs
    BY <1>1, <2>1, <2>2
  <2>3. CASE queueCache[StepId(m)] = NoReply /\ place' = [place EXCEPT ![m] = "run"]
             /\ runs' = [runs EXCEPT ![StepId(m)] = @ + 1]
    <3>1. StepId(m) \in FlowRequests \X Steps /\ StepId(m) \in Ids
      BY <1>0 DEF StepId, FlowTypes, Ids
    <3>2. \A o \in Messages : place[o] = "run" => StepId(o) # StepId(m)
      BY <2>1, FlowRunIsAlone DEF OnLane
    <3>3. runs[StepId(m)] <= forgets[StepId(m)]
      BY <1>0, <2>3, <3>1, <3>2 DEF FlowRunsInv
    <3>4. place'[m] = "run" /\ StepId(m)' = StepId(m)
      BY <1>0, <2>1, <2>3 DEF FlowTypes
    <3> SUFFICES ASSUME NEW r \in FlowRequests, NEW i \in Steps
                 PROVE  /\ runs'[<<r, i>>] <= 1 + forgets'[<<r, i>>]
                        /\ queueCache'[<<r, i>>] = NoReply
                           /\ (\A o \in Messages : place'[o] = "run" => StepId(o)' # <<r, i>>)
                           => runs'[<<r, i>>] <= forgets'[<<r, i>>]
      BY DEF FlowRunsInv
    <3>5. CASE <<r, i>> = StepId(m)
      <4>1. runs'[<<r, i>>] = runs[<<r, i>>] + 1
        BY <1>0, <2>3, <3>1, <3>5 DEF FlowTypes
      <4>2. runs[<<r, i>>] \in Nat /\ forgets[<<r, i>>] \in Nat
        BY <1>0, <1>a DEF FlowTypes
      <4> QED BY <2>1, <3>3, <3>4, <3>5, <4>1, <4>2
    <3>6. CASE <<r, i>> # StepId(m)
      <4>1. runs'[<<r, i>>] = runs[<<r, i>>]
        BY <1>0, <1>a, <2>3, <3>1, <3>6 DEF FlowTypes
      <4>2. \A o \in Messages : place[o] = "run" => place'[o] = "run"
        BY <2>1
      <4> QED BY <1>0, <2>1, <4>1, <4>2 DEF FlowRunsInv
    <3> QED BY <3>5, <3>6
  <2> QED BY <1>3, <2>2, <2>3 DEF CallStep, To
<1>4. ASSUME NEW m \in Messages, StepReturns(m) PROVE FlowRunsInv'
  <2>1. /\ request' = request /\ step' = step
        /\ \A o \in Messages \ {m} : place'[o] = place[o]
        /\ runs' = runs /\ forgets' = forgets
        /\ \A o \in Messages : StepId(o)' = StepId(o)
    BY <1>0, <1>4 DEF StepReturns, requestFacts, To, FlowTypes, StepId
  <2>2. StepId(m) \in Ids
    BY <1>0 DEF StepId, FlowTypes, Ids
  <2>3. queueCache'[StepId(m)] # NoReply
        /\ \A id \in Ids \ {StepId(m)} : queueCache'[id] = queueCache[id]
    BY <1>0, <1>4, <2>2 DEF StepReturns, FlowTypes, SendReply, NoReply
  <2> QED BY <1>0, <1>a, <2>1, <2>3 DEF FlowRunsInv
<1>5. ASSUME NEW m \in Messages, CallCritic(m) \/ CriticReturns(m) PROVE FlowRunsInv'
  <2>1. /\ request' = request /\ step' = step /\ place[m] # "run" /\ forgets' = forgets
        /\ \A o \in Messages \ {m} : place'[o] = place[o]
    BY <1>0, <1>5 DEF CallCritic, CriticReturns, requestFacts, To, FlowTypes
  <2>2. \A id \in Ids : id # <<request[m], Critic>> =>
            runs'[id] = runs[id] /\ queueCache'[id] = queueCache[id]
    BY <1>0, <1>5 DEF CallCritic, CriticReturns, FlowTypes
  <2>3. \A r \in FlowRequests, i \in Steps :
            runs'[<<r, i>>] = runs[<<r, i>>] /\ queueCache'[<<r, i>>] = queueCache[<<r, i>>]
    BY <1>a, <2>2 DEF Steps, Critic
  <2>4. \A o \in Messages : place[o] = "run" => place'[o] = "run" /\ StepId(o)' = StepId(o)
    BY <2>1 DEF StepId
  <2> QED BY <1>0, <2>1, <2>3, <2>4 DEF FlowRunsInv
<1>6. ASSUME NEW id \in Ids, ForgetReply(id) PROVE FlowRunsInv'
  <2>1. /\ request' = request /\ step' = step /\ place' = place /\ runs' = runs
        /\ \A o \in Messages : StepId(o)' = StepId(o)
        /\ forgets[id] \in Nat /\ forgets'[id] = forgets[id] + 1
        /\ \A x \in Ids \ {id} : queueCache'[x] = queueCache[x] /\ forgets'[x] = forgets[x]
    BY <1>0, <1>6 DEF ForgetReply, requestFacts, StepId, FlowTypes
  <2> SUFFICES ASSUME NEW r \in FlowRequests, NEW i \in Steps
               PROVE  /\ runs'[<<r, i>>] <= 1 + forgets'[<<r, i>>]
                      /\ queueCache'[<<r, i>>] = NoReply
                         /\ (\A o \in Messages : place'[o] = "run" => StepId(o)' # <<r, i>>)
                         => runs'[<<r, i>>] <= forgets'[<<r, i>>]
    BY DEF FlowRunsInv
  <2>2. runs[<<r, i>>] <= 1 + forgets[<<r, i>>] /\ runs[<<r, i>>] \in Nat
    BY <1>0, <1>a DEF FlowRunsInv, FlowTypes
  <2>3. CASE <<r, i>> = id
    BY <2>1, <2>2, <2>3
  <2>4. CASE <<r, i>> # id
    BY <1>0, <1>a, <2>1, <2>4 DEF FlowRunsInv
  <2> QED BY <2>3, <2>4
<1>7. CASE UNCHANGED flowVars
  BY <1>1, <1>7 DEF flowVars, requestFacts, StepId
<1> QED BY <1>2, <1>3, <1>4, <1>5, <1>6, <1>7 DEF FlowNext, FlowStep

\* Whose result it is that the cache, a message and its caller have.
LEMMA FlowResultStep ==
    FlowInv /\ [FlowNext]_flowVars => FlowResultInv' /\ ReplyIsTheResponse'
<1> SUFFICES ASSUME FlowInv, [FlowNext]_flowVars
             PROVE  FlowResultInv' /\ ReplyIsTheResponse'
  OBVIOUS
<1>0. FlowTypes /\ FlowResultInv /\ ReplyIsTheResponse
  BY DEF FlowInv
<1>a. \A r \in FlowRequests, i \in Steps : <<r, i>> \in Ids /\ <<r, i>> # <<r, Critic>>
  BY DEF Ids, Steps, Critic
<1>f. request' = request /\ plan' = plan
  BY DEF FlowNext, FlowStep, flowVars, requestFacts, RouteMessage, TakeMessage, ProcessMessage,
     CallStep, StepReturns, SeeResult, CallCritic, CriticReturns, NextStep, ForgetReply
<1> DEFINE CacheOK == \A r \in FlowRequests, i \in Steps : queueCache'[<<r, i>>] # NoReply =>
                          IsResultOf(queueCache'[<<r, i>>], r, i)
           OutputOK(m) == /\ step'[m] <= plan[request[m]]
                          /\ place'[m] \in {"result", "critic", "review", "next"} =>
                                 IsResultOf(output'[m], request[m], step'[m])
           ResponseOK(m) == response'[m].is \in {"ok", "aborted", "redacted"} =>
                                /\ response'[m].step = plan[request[m]]
                                /\ request[response'[m].by] = request[m]
\* What a step changes of one message and of the cache is all there is to show.
<1>1. ASSUME NEW m \in Messages, CacheOK, OutputOK(m), ResponseOK(m),
             \A o \in Messages \ {m} : /\ place'[o] = place[o] /\ step'[o] = step[o]
                                       /\ output'[o] = output[o] /\ response'[o] = response[o]
      PROVE  FlowResultInv' /\ ReplyIsTheResponse'
  <2>1. \A o \in Messages : OutputOK(o)
    BY <1>0, <1>1 DEF FlowResultInv
  <2>2. \A o \in Messages : ResponseOK(o)
    BY <1>0, <1>1 DEF ReplyIsTheResponse
  <2>3. FlowResultInv'
    BY <1>1, <1>f, <2>1 DEF FlowResultInv, IsResultOf
  <2> QED BY <1>f, <2>2, <2>3 DEF ReplyIsTheResponse
<1> HIDE DEF OutputOK, ResponseOK, CacheOK
<1>2. ASSUME queueCache' = queueCache PROVE CacheOK
  BY <1>0, <1>2 DEF FlowResultInv, CacheOK
<1>3. ASSUME NEW m \in Messages, response'[m] = response[m] PROVE ResponseOK(m)
  BY <1>0, <1>3 DEF ReplyIsTheResponse, ResponseOK
<1>4. ASSUME NEW m \in Messages, NEW i \in Nat, NEW is \in {"error", "greeting"},
             response'[m] = SendReply(m, i, is)
      PROVE  ResponseOK(m)
  BY <1>4 DEF ResponseOK, SendReply
<1>5. ASSUME NEW m \in Messages, RouteMessage(m) \/ TakeMessage(m) \/ ProcessMessage(m)
      PROVE  FlowResultInv' /\ ReplyIsTheResponse'
  <2>1. /\ queueCache' = queueCache /\ step' = step /\ output' = output
        /\ \A o \in Messages \ {m} : place'[o] = place[o] /\ response'[o] = response[o]
        /\ place'[m] \in {"queued", "process", "step", "done"}
    BY <1>0, <1>5 DEF RouteMessage, TakeMessage, ProcessMessage, To, AnswerMessage, FlowTypes
  <2>2. \/ response'[m] = response[m]
        \/ \E is \in {"error", "greeting"} : response'[m] = SendReply(m, 0, is)
    BY <1>0, <1>5 DEF RouteMessage, TakeMessage, ProcessMessage, To, AnswerMessage, FlowTypes
  <2>3. OutputOK(m)
    BY <1>0, <2>1 DEF FlowResultInv, OutputOK
  <2>4. ResponseOK(m)
    BY <1>3, <1>4, <2>2
  <2> QED BY <1>1, <1>2, <2>1, <2>3, <2>4
<1>6. ASSUME NEW m \in Messages, CallStep(m) PROVE FlowResultInv' /\ ReplyIsTheResponse'
  <2>1. /\ queueCache' = queueCache /\ step' = step /\ response' = response
        /\ \A o \in Messages \ {m} : place'[o] = place[o] /\ output'[o] = output[o]
    BY <1>0, <1>6 DEF CallStep, To, FlowTypes
  <2>2. IsResultOf(SendReply(m, step[m], "error"), request[m], step[m])
    BY DEF IsResultOf, SendReply
  <2>3. queueCache[StepId(m)] # NoReply =>
            IsResultOf(queueCache[StepId(m)], request[m], step[m])
    BY <1>0 DEF FlowResultInv, StepId, FlowTypes
  <2>4. \/ place'[m] = "run"
        \/ place'[m] = "result" /\ output'[m] = SendReply(m, step[m], "error")
        \/ /\ place'[m] = "result" /\ output'[m] = queueCache[StepId(m)]
           /\ queueCache[StepId(m)] # NoReply
    BY <1>0, <1>6 DEF CallStep, To, FlowTypes
  <2>5. OutputOK(m)
    BY <1>0, <2>1, <2>2, <2>3, <2>4 DEF FlowResultInv, OutputOK
  <2> QED BY <1>1, <1>2, <1>3, <2>1, <2>5
<1>7. ASSUME NEW m \in Messages, StepReturns(m) PROVE FlowResultInv' /\ ReplyIsTheResponse'
  <2>1. PICK is \in {"ok", "aborted", "error"} :
           queueCache' = [queueCache EXCEPT ![StepId(m)] = SendReply(m, step[m], is)]
    BY <1>7 DEF StepReturns
  <2>r. \A res \in {SendReply(m, step[m], "error"), SendReply(m, step[m], is)} :
            IsResultOf(res, request[m], step[m])
    BY DEF IsResultOf, SendReply
  <2>c. StepId(m) \in Ids /\ queueCache'[StepId(m)] = SendReply(m, step[m], is)
    BY <1>0, <2>1 DEF FlowTypes, StepId, Ids
  <2>2. /\ step' = step /\ response' = response
        /\ \A o \in Messages \ {m} : place'[o] = place[o] /\ output'[o] = output[o]
        /\ \/ output'[m] = queueCache'[StepId(m)]
           \/ output'[m] = SendReply(m, step[m], "error")
    BY <1>0, <1>7 DEF StepReturns, To, FlowTypes
  <2>3. IsResultOf(output'[m], request[m], step[m])
    BY <2>2, <2>r, <2>c
  <2>4. CacheOK
    <3> SUFFICES ASSUME NEW r \in FlowRequests, NEW i \in Steps, queueCache'[<<r, i>>] # NoReply
                 PROVE  IsResultOf(queueCache'[<<r, i>>], r, i)
      BY DEF CacheOK
    <3>1. CASE <<r, i>> = StepId(m)
      <4>1. queueCache'[<<r, i>>] = SendReply(m, step[m], is) /\ r = request[m] /\ i = step[m]
        BY <2>c, <3>1 DEF StepId
      <4> QED BY <2>r, <4>1
    <3>2. CASE <<r, i>> # StepId(m)
      <4>1. queueCache'[<<r, i>>] = queueCache[<<r, i>>]
        BY <1>0, <1>a, <2>1, <3>2 DEF FlowTypes
      <4> QED BY <1>0, <4>1 DEF FlowResultInv
    <3> QED BY <3>1, <3>2
  <2>5. OutputOK(m)
    BY <1>0, <2>2, <2>3 DEF FlowResultInv, OutputOK
  <2> QED BY <1>1, <1>3, <2>2, <2>4, <2>5
<1>8. ASSUME NEW m \in Messages, SeeResult(m) PROVE FlowResultInv' /\ ReplyIsTheResponse'
  <2>1. /\ queueCache' = queueCache /\ step' = step /\ output' = output /\ place[m] = "result"
        /\ \A o \in Messages \ {m} : place'[o] = place[o] /\ response'[o] = response[o]
        /\ \/ response'[m] = response[m]
           \/ response'[m] = output[m] /\ output[m].is = "error"
    BY <1>0, <1>8 DEF SeeResult, To, AnswerMessage, FlowTypes
  <2>2. OutputOK(m)
    BY <1>0, <2>1 DEF FlowResultInv, OutputOK
  <2>3. ResponseOK(m)
    BY <1>3, <2>1 DEF ResponseOK
  <2> QED BY <1>1, <1>2, <2>1, <2>2, <2>3
<1>9. ASSUME NEW m \in Messages, CallCritic(m) \/ CriticReturns(m)
      PROVE  FlowResultInv' /\ ReplyIsTheResponse'
  <2>1. /\ step' = step /\ output' = output /\ response' = response
        /\ place[m] \in {"critic", "review"}
        /\ \A o \in Messages \ {m} : place'[o] = place[o]
    BY <1>0, <1>9 DEF CallCritic, CriticReturns, To, FlowTypes
  <2>2. \A id \in Ids : id # <<request[m], Critic>> => queueCache'[id] = queueCache[id]
    BY <1>0, <1>9 DEF CallCritic, CriticReturns, FlowTypes
  <2>3. \A r \in FlowRequests, i \in Steps : queueCache'[<<r, i>>] = queueCache[<<r, i>>]
    BY <1>a, <2>2 DEF Steps, Critic
  <2>4. CacheOK
    BY <1>0, <2>3 DEF FlowResultInv, CacheOK
  <2>5. OutputOK(m)
    BY <1>0, <2>1 DEF FlowResultInv, OutputOK
  <2> QED BY <1>1, <1>3, <2>1, <2>4, <2>5
<1>10. ASSUME NEW m \in Messages, NextStep(m) PROVE FlowResultInv' /\ ReplyIsTheResponse'
  <2>1. /\ queueCache' = queueCache /\ output' = output /\ place[m] = "next"
        /\ \A o \in Messages \ {m} : /\ place'[o] = place[o] /\ step'[o] = step[o]
                                     /\ response'[o] = response[o]
    BY <1>0, <1>10 DEF NextStep, To, AnswerMessage, FlowTypes
  <2>2. /\ step[m] \in Steps /\ plan[request[m]] \in Steps /\ step[m] <= plan[request[m]]
        /\ IsResultOf(output[m], request[m], step[m]) /\ output[m] \in Results
    BY <1>0, <2>1 DEF FlowTypes, FlowResultInv
  <2>3. CASE step[m] < plan[request[m]]
    <3>1. step'[m] = step[m] + 1 /\ place'[m] = "step" /\ response'[m] = response[m]
      BY <1>0, <1>10, <2>3 DEF NextStep, To, FlowTypes
    <3>2. OutputOK(m)
      BY <2>2, <2>3, <3>1 DEF OutputOK, Steps
    <3> QED BY <1>1, <1>2, <1>3, <2>1, <3>1, <3>2
  <2>4. CASE ~(step[m] < plan[request[m]])
    <3>1. /\ step'[m] = step[m] /\ place'[m] = "done"
          /\ response'[m] \in {output[m], [output[m] EXCEPT !.is = "redacted"]}
      BY <1>0, <1>10, <2>4 DEF NextStep, AnswerMessage, To, FlowTypes
    <3>2. step[m] = plan[request[m]]
      BY <2>2, <2>4 DEF Steps
    <3>3. response'[m].step = output[m].step /\ response'[m].by = output[m].by
      BY <2>2, <3>1 DEF Results
    <3>4. OutputOK(m) /\ ResponseOK(m)
      BY <2>2, <3>1, <3>2, <3>3 DEF OutputOK, ResponseOK, IsResultOf
    <3> QED BY <1>1, <1>2, <2>1, <3>4
  <2> QED BY <2>3, <2>4
<1>11. ASSUME NEW id \in Ids, ForgetReply(id) PROVE FlowResultInv' /\ ReplyIsTheResponse'
  <2>1. /\ step' = step /\ output' = output /\ response' = response /\ place' = place
        /\ queueCache'[id] = NoReply
        /\ \A x \in Ids \ {id} : queueCache'[x] = queueCache[x]
    BY <1>0, <1>11 DEF ForgetReply, FlowTypes
  <2> QED BY <1>0, <1>a, <1>f, <2>1 DEF FlowResultInv, ReplyIsTheResponse, IsResultOf
<1>12. CASE UNCHANGED flowVars
  BY <1>0, <1>12 DEF flowVars, requestFacts, FlowResultInv, ReplyIsTheResponse, IsResultOf
<1> QED BY <1>5, <1>6, <1>7, <1>8, <1>9, <1>10, <1>11, <1>12 DEF FlowNext, FlowStep

\* Whatever is repeated, cached, forgotten or reviewed, for any number of
\* messages, requests and sessions, a step runs once for each time that its
\* reply was forgotten, and a caller gets the response of its own plan's end.
THEOREM FlowIsHonestHolds == FlowSpec => []FlowIsHonest
<1>1. FlowInit => FlowInv
  BY FlowInitInv
<1>2. FlowInv /\ [FlowNext]_flowVars => FlowInv'
  BY FlowTypeStep, FlowLaneStep, FlowRunsStep, FlowResultStep DEF FlowInv
<1>3. FlowInv => FlowIsHonest
  BY DEF FlowInv, FlowIsHonest, StepsRunOnce, FlowRunsInv
<1> QED BY <1>1, <1>2, <1>3, PTL DEF FlowSpec

-----------------------------------------------------------------------------
\* The chat's ingress.
IngressTypes ==
    /\ inbox \in Seq(Texts \cup Replies)
    /\ cacheEntries \in [Texts -> {"none", "fresh", "old"}]
    /\ lapses \in [Texts -> Nat] /\ dispatches \in [Texts -> Nat]
    /\ shown \in [Texts -> {"nothing", "part", "answer"}]

\* The text whose run is still to be dispatched, and the entries of the cache
\* that have not grown too old, count as 1.
Pending(t) == IF update = t /\ stage \in {"open", "dispatch"} THEN 1 ELSE 0
Fresh(t) == IF cacheEntries[t] = "fresh" THEN 1 ELSE 0
DispatchInv == \A t \in Texts : dispatches[t] + Pending(t) <= lapses[t] + Fresh(t)

\* The stages in which there can be a stream, and the text is not answered yet.
Showing == {"dispatch", "wait", "answer"}
StreamInv ==
    /\ stage \in {"message", "open"} \cup Showing => update \in Texts
    /\ stage \in Showing => shown[update] # "answer"
    /\ stage \notin Showing => stream = "none"
    /\ editing => stream \in {"open", "stopped", "flush"}
    /\ stage \in {"dispatch", "wait"} => stream \in {"none", "open"}

IngressInv == IngressTypes /\ DispatchInv /\ StreamInv

\* Before the first update nothing was dispatched.
LEMMA IngressInitInv == IngressInit => IngressInv
<1> SUFFICES ASSUME IngressInit PROVE IngressInv
  OBVIOUS
<1>1. IngressTypes
  BY EmptySeq DEF IngressInit, IngressTypes
<1>2. DispatchInv
  BY DEF IngressInit, DispatchInv, Pending, Fresh
<1>3. StreamInv
  BY DEF IngressInit, StreamInv, Showing
<1> QED BY <1>1, <1>2, <1>3 DEF IngressInv

\* Every step keeps the types.
LEMMA IngressTypeStep == IngressInv /\ [IngressNext]_ingressVars => IngressTypes'
<1> SUFFICES ASSUME IngressInv, [IngressNext]_ingressVars PROVE IngressTypes'
  OBVIOUS
<1>0. IngressTypes
  BY DEF IngressInv
<1> USE <1>0 DEF IngressTypes, updateVars, cacheVars, chatRunVars, streamVars
<1>1. ASSUME NEW u \in Texts \cup Replies, Write(u) PROVE IngressTypes'
  BY <1>1, AppendProperties DEF Write
<1>2. ASSUME NEW t \in Texts, Redeliver(t) PROVE IngressTypes'
  BY <1>2, AppendProperties DEF Redeliver
<1>3. ASSUME NEW t \in Texts, EntryAges(t) PROVE IngressTypes'
  <2>1. lapses[t] + 1 \in Nat
    OBVIOUS
  <2> QED BY <1>3, <2>1 DEF EntryAges
<1>4. CASE TakeUpdate
  BY <1>4, HeadTailProperties DEF TakeUpdate
<1>5. CASE StopBot \/ HandleApprove \/ TurnAway
  BY <1>5 DEF StopBot, HandleApprove, TurnAway
<1>6. CASE CheckDuplicate
  BY <1>6 DEF CheckDuplicate
<1>7. CASE StartStream
  BY <1>7 DEF StartStream
<1>8. CASE DispatchText
  <2>1. update \in Texts /\ dispatches[update] + 1 \in Nat
    BY <1>8 DEF IngressInv, StreamInv, Showing, DispatchText
  <2> QED BY <1>8, <2>1 DEF DispatchText
<1>9. CASE RunIsOver
  BY <1>9 DEF RunIsOver
<1>10. CASE Answer
  BY <1>10 DEF Answer
<1>11. CASE TakeEvent \/ TickerFires \/ LastFlush \/ CloseDone
  BY <1>11 DEF TakeEvent, TickerFires, LastFlush, CloseDone
<1>12. CASE EditReturns
  BY <1>12 DEF EditReturns
<1>13. ASSUME NEW r \in ChatRuns, BeginGatewayRun(r) \/ Publish(r) \/ AskApproval(r)
              \/ LapseApproval(r) \/ EndRun(r)
       PROVE  IngressTypes'
  BY <1>13 DEF BeginGatewayRun, Publish, AskApproval, LapseApproval, EndRun
<1>14. CASE UNCHANGED ingressVars
  BY <1>14 DEF ingressVars
<1> QED BY <1>1, <1>2, <1>3, <1>4, <1>5, <1>6, <1>7, <1>8, <1>9, <1>10, <1>11, <1>12, <1>13,
        <1>14 DEF IngressNext, LoopStep, StreamStep

\* An update is dispatched again only after its mark has lapsed.
LEMMA DispatchStep == IngressInv /\ [IngressNext]_ingressVars => DispatchInv'
<1> SUFFICES ASSUME IngressInv, [IngressNext]_ingressVars PROVE DispatchInv'
  OBVIOUS
<1>0. IngressTypes /\ DispatchInv /\ StreamInv
  BY DEF IngressInv
<1> USE DEF updateVars, cacheVars, chatRunVars, streamVars
\* Only four steps change what is counted.
<1>1. ASSUME dispatches' = dispatches, lapses' = lapses, cacheEntries' = cacheEntries,
             stage' \in {"open", "dispatch"} => stage \in {"open", "dispatch"} /\ update' = update
      PROVE  DispatchInv'
  BY <1>0, <1>1 DEF DispatchInv, Pending, Fresh, IngressTypes
<1>2. CASE CheckDuplicate
  <2>1. CASE cacheEntries[update] = "fresh"
    BY <1>1, <1>2, <2>1 DEF CheckDuplicate, HandledNow
  <2>2. CASE cacheEntries[update] # "fresh"
    <3>1. /\ update' = update /\ stage = "message" /\ stage' = "open"
          /\ lapses' = lapses /\ dispatches' = dispatches /\ update \in Texts
          /\ cacheEntries' = [cacheEntries EXCEPT ![update] = "fresh"]
      BY <1>0, <1>2, <2>2 DEF CheckDuplicate, StreamInv
    <3>2. \A t \in Texts : t # update => Pending(t)' = Pending(t) /\ Fresh(t)' = Fresh(t)
      BY <1>0, <3>1 DEF Pending, Fresh, IngressTypes
    <3>3. Pending(update)' = 1 /\ Pending(update) = 0 /\ Fresh(update)' = 1 /\ Fresh(update) = 0
      BY <1>0, <2>2, <3>1 DEF Pending, Fresh, IngressTypes
    <3>4. \A t \in Texts : dispatches[t] \in Nat /\ lapses[t] \in Nat
      BY <1>0 DEF IngressTypes
    <3> QED BY <1>0, <3>1, <3>2, <3>3, <3>4 DEF DispatchInv
  <2> QED BY <2>1, <2>2
<1>3. CASE DispatchText
  <2>1. /\ update' = update /\ stage = "dispatch" /\ stage' = "wait" /\ update \in Texts
        /\ lapses' = lapses /\ cacheEntries' = cacheEntries
        /\ \A t \in Texts : dispatches'[t] = IF t = update THEN dispatches[t] + 1
                                                           ELSE dispatches[t]
    BY <1>0, <1>3 DEF DispatchText, StreamInv, Showing, IngressTypes
  <2>2. \A t \in Texts : dispatches'[t] + Pending(t)' = dispatches[t] + Pending(t)
    BY <1>0, <2>1 DEF Pending, IngressTypes
  <2>3. \A t \in Texts : Fresh(t)' = Fresh(t)
    BY <2>1 DEF Fresh
  <2> QED BY <1>0, <2>1, <2>2, <2>3 DEF DispatchInv
<1>4. ASSUME NEW t \in Texts, EntryAges(t) PROVE DispatchInv'
  <2>1. /\ update' = update /\ stage' = stage /\ dispatches' = dispatches
        /\ \A o \in Texts : Pending(o)' = Pending(o)
    BY <1>4 DEF EntryAges, Pending
  <2>2. \A o \in Texts : lapses'[o] + Fresh(o)' = lapses[o] + Fresh(o)
    <3>1. CASE /\ cacheEntries[t] = "fresh" /\ cacheEntries' = [cacheEntries EXCEPT ![t] = "old"]
               /\ lapses' = [lapses EXCEPT ![t] = @ + 1]
      <4>1. \A o \in Texts \ {t} : lapses'[o] = lapses[o] /\ Fresh(o)' = Fresh(o)
        BY <1>0, <3>1 DEF Fresh, IngressTypes
      <4>2. lapses'[t] = lapses[t] + 1 /\ Fresh(t) = 1 /\ Fresh(t)' = 0 /\ lapses[t] \in Nat
        BY <1>0, <3>1 DEF Fresh, IngressTypes
      <4> QED BY <4>1, <4>2
    <3>2. CASE /\ cacheEntries[t] = "old" /\ cacheEntries' = [cacheEntries EXCEPT ![t] = "none"]
               /\ lapses' = lapses
      BY <1>0, <3>2 DEF Fresh, IngressTypes
    <3> QED BY <1>4, <3>1, <3>2 DEF EntryAges
  <2> QED BY <1>0, <2>1, <2>2 DEF DispatchInv
<1>5. CASE TakeUpdate \/ StopBot \/ HandleApprove \/ TurnAway \/ StartStream \/ RunIsOver \/ Answer
  BY <1>1, <1>5 DEF TakeUpdate, StopBot, HandleApprove, TurnAway, StartStream, RunIsOver, Answer,
     HandledNow
<1>6. CASE TakeEvent \/ TickerFires \/ LastFlush \/ CloseDone \/ EditReturns
  BY <1>1, <1>6 DEF TakeEvent, TickerFires, LastFlush, CloseDone, EditReturns
<1>7. ASSUME NEW r \in ChatRuns, BeginGatewayRun(r) \/ Publish(r) \/ AskApproval(r)
              \/ LapseApproval(r) \/ EndRun(r)
      PROVE  DispatchInv'
  BY <1>1, <1>7 DEF BeginGatewayRun, Publish, AskApproval, LapseApproval, EndRun
<1>8. ASSUME NEW u, Write(u) \/ Redeliver(u) PROVE DispatchInv'
  BY <1>1, <1>8 DEF Write, Redeliver
<1>9. CASE UNCHANGED ingressVars
  BY <1>1, <1>9 DEF ingressVars
<1> QED BY <1>2, <1>3, <1>4, <1>5, <1>6, <1>7, <1>8, <1>9 DEF IngressNext, LoopStep, StreamStep

\* The stream keeps what it has shown.
LEMMA StreamInvStep == IngressInv /\ [IngressNext]_ingressVars => StreamInv'
<1> SUFFICES ASSUME IngressInv, [IngressNext]_ingressVars PROVE StreamInv'
  OBVIOUS
<1>0. IngressTypes /\ StreamInv
  BY DEF IngressInv
<1> USE <1>0, IngressAssumption DEF StreamInv, Showing, updateVars, cacheVars, chatRunVars, streamVars
<1>1. CASE TakeUpdate
  <2>1. inbox # <<>> => Head(inbox) \in Texts \cup Replies
    BY HeadTailProperties DEF IngressTypes
  <2> QED BY <1>1, <2>1 DEF TakeUpdate
<1>2. CASE HandleApprove \/ TurnAway
  BY <1>2 DEF HandleApprove, TurnAway, HandledNow
<1>3. CASE CheckDuplicate
  BY <1>3 DEF CheckDuplicate, HandledNow
<1>4. CASE StartStream
  <2>1. shown'[update] # "answer"
    BY <1>4 DEF StartStream, IngressTypes
  <2> QED BY <1>4, <2>1 DEF StartStream
<1>5. CASE DispatchText
  BY <1>5 DEF DispatchText
<1>6. CASE RunIsOver
  BY <1>6 DEF RunIsOver
<1>7. CASE Answer
  BY <1>7 DEF Answer, HandledNow
<1>8. CASE TakeEvent \/ TickerFires
  BY <1>8 DEF TakeEvent, TickerFires
<1>9. CASE LastFlush \/ CloseDone
  BY <1>9 DEF LastFlush, CloseDone
<1>10. CASE EditReturns
  <2>1. shown'[update] = shown[update] \/ shown'[update] = "part"
    BY <1>10 DEF EditReturns, IngressTypes
  <2> QED BY <1>10, <2>1 DEF EditReturns
<1>11. ASSUME NEW r \in ChatRuns, BeginGatewayRun(r) \/ Publish(r) \/ AskApproval(r)
              \/ LapseApproval(r) \/ EndRun(r)
       PROVE  StreamInv'
  BY <1>11 DEF BeginGatewayRun, Publish, AskApproval, LapseApproval, EndRun
<1>12. ASSUME NEW u, Write(u) \/ Redeliver(u) \/ EntryAges(u) PROVE StreamInv'
  BY <1>12 DEF Write, Redeliver, EntryAges
<1>13. CASE UNCHANGED ingressVars \/ StopBot
  BY <1>13 DEF ingressVars, StopBot
<1> QED BY <1>1, <1>2, <1>3, <1>4, <1>5, <1>6, <1>7, <1>8, <1>9, <1>10, <1>11, <1>12, <1>13
        DEF IngressNext, LoopStep, StreamStep

\* All parts of the ingress hold in every state.
LEMMA IngressInductive == IngressSpec => []IngressInv
<1>1. IngressInv /\ [IngressNext]_ingressVars => IngressInv'
  BY IngressTypeStep, DispatchStep, StreamInvStep DEF IngressInv
<1> QED BY <1>1, IngressInitInv, PTL DEF IngressSpec

\* For every number of texts, replies and runs and every size of the buffer the
\* variables have values of their types: the channel of a stream never holds
\* more than its buffer does.
THEOREM IngressTypeCorrect == IngressSpec => []IngressTypeOK
<1>1. IngressInit => IngressTypeOK
  BY EmptySeq, IngressAssumption DEF IngressInit, IngressTypeOK
<1>2. IngressTypeOK /\ [IngressNext]_ingressVars => IngressTypeOK'
  <2> SUFFICES ASSUME IngressTypeOK, [IngressNext]_ingressVars PROVE IngressTypeOK'
    OBVIOUS
  <2> USE IngressAssumption DEF IngressTypeOK, updateVars, cacheVars, chatRunVars, streamVars
  <2>1. ASSUME NEW u \in Texts \cup Replies, Write(u) PROVE IngressTypeOK'
    BY <2>1, AppendProperties DEF Write
  <2>2. ASSUME NEW t \in Texts, Redeliver(t) PROVE IngressTypeOK'
    BY <2>2, AppendProperties DEF Redeliver
  <2>3. ASSUME NEW t \in Texts, EntryAges(t) PROVE IngressTypeOK'
    BY <2>3 DEF EntryAges
  <2>4. CASE TakeUpdate
    BY <2>4, HeadTailProperties DEF TakeUpdate
  <2>5. CASE StopBot \/ HandleApprove \/ TurnAway
    BY <2>5 DEF StopBot, HandleApprove, TurnAway, HandledNow
  <2>6. CASE CheckDuplicate
    BY <2>6 DEF CheckDuplicate, HandledNow
  <2>7. CASE StartStream \/ DispatchText
    BY <2>7 DEF StartStream, DispatchText
  <2>8. CASE RunIsOver \/ Answer
    BY <2>8 DEF RunIsOver, Answer, HandledNow
  <2>9. CASE TakeEvent \/ TickerFires \/ LastFlush \/ CloseDone
    BY <2>9 DEF TakeEvent, TickerFires, LastFlush, CloseDone
  <2>10. CASE EditReturns
    BY <2>10 DEF EditReturns
  <2>11. ASSUME NEW r \in ChatRuns, BeginGatewayRun(r) \/ Publish(r) \/ AskApproval(r)
                \/ LapseApproval(r) \/ EndRun(r)
         PROVE  IngressTypeOK'
    BY <2>11 DEF BeginGatewayRun, Publish, AskApproval, LapseApproval, EndRun
  <2>12. CASE UNCHANGED ingressVars
    BY <2>12 DEF ingressVars
  <2> QED BY <2>1, <2>2, <2>3, <2>4, <2>5, <2>6, <2>7, <2>8, <2>9, <2>10, <2>11, <2>12
          DEF IngressNext, LoopStep, StreamStep
<1> QED BY <1>1, <1>2, PTL DEF IngressSpec

\* However often Telegram delivers a message and however the cache ages, the
\* message is run once for every time that its entry has grown too old, and
\* once more.
THEOREM RunsOncePerLapseHolds == IngressSpec => []RunsOncePerLapse
<1>1. IngressInv => RunsOncePerLapse
  <2> SUFFICES ASSUME IngressInv, NEW t \in Texts PROVE dispatches[t] <= 1 + lapses[t]
    BY DEF RunsOncePerLapse
  <2>1. dispatches[t] \in Nat /\ lapses[t] \in Nat /\ Pending(t) \in {0, 1}
        /\ Fresh(t) \in {0, 1} /\ dispatches[t] + Pending(t) <= lapses[t] + Fresh(t)
    BY DEF IngressInv, IngressTypes, DispatchInv, Pending, Fresh
  <2> QED BY <2>1
<1> QED BY <1>1, IngressInductive, PTL

\* No edit of the stream replaces an answer, in whatever order events, ticks,
\* edits and the end of the run come.
THEOREM AnswerStaysHolds == IngressSpec => AnswerStays
<1>1. IngressInv /\ [IngressNext]_ingressVars =>
          [\A t \in Texts : shown[t] = "answer" => shown'[t] # "part"]_ingressVars
  <2> SUFFICES ASSUME IngressInv, IngressNext, NEW t \in Texts, shown[t] = "answer"
               PROVE  shown'[t] # "part"
    OBVIOUS
  <2>0. IngressTypes /\ StreamInv
    BY DEF IngressInv
  <2>1. CASE EditReturns
    <3>1. t # update
      BY <2>0, <2>1 DEF EditReturns, StreamInv, Showing
    <3> QED BY <2>0, <2>1, <3>1 DEF EditReturns, IngressTypes
  <2>2. CASE StartStream
    BY <2>0, <2>2 DEF StartStream, IngressTypes
  <2>3. CASE Answer
    BY <2>0, <2>3 DEF Answer, IngressTypes
  <2>4. CASE shown' = shown
    BY <2>4
  <2> QED BY <2>1, <2>2, <2>3, <2>4 DEF IngressNext, LoopStep, StreamStep, Write, Redeliver,
          EntryAges, StopBot, TakeUpdate, HandleApprove, TurnAway, CheckDuplicate, DispatchText,
          RunIsOver, TakeEvent, LastFlush, CloseDone, TickerFires, BeginGatewayRun, Publish,
          AskApproval, LapseApproval, EndRun, chatRunVars, streamVars, updateVars
<1> QED BY <1>1, IngressInductive, PTL DEF IngressSpec, AnswerStays

-----------------------------------------------------------------------------
\* The webhook server.
Notices == [gateway : {0, 1}, queue : {0, 1}]
WebhookTypes ==
    /\ address \in [Posts -> Addresses]
    /\ progress \in [Posts -> {"none", "admitted", "tracked", "passed", "waiting", "answered",
                               "notify", "done"}]
    /\ handler \in [Posts -> {"none", "running", "returned"}]
    /\ reply \in [Posts -> {"none", "refused", "result", "failed", "timeout"}]
    /\ log \in [Addresses -> SUBSET Posts]
    /\ notices \in [Posts -> Notices]

\* What a request has come to tells what is known of it.
PostInv == \A q \in Posts :
    /\ progress[q] \in {"tracked", "passed", "waiting", "answered"} => q \in tracked
    /\ progress[q] \in {"none", "admitted", "tracked", "passed", "waiting"} => reply[q] = "none"
    /\ progress[q] = "waiting" => handler[q] # "none"
    /\ reply[q] \in {"result", "timeout"} => handler[q] # "none"
    /\ progress[q] = "notify" => reply[q] \in {"result", "timeout"}
    /\ notices[q] # [gateway |-> 0, queue |-> 0] => progress[q] = "notify"

LimitInv == \A a \in Addresses :
    IsFiniteSet(log[a]) /\ Cardinality(log[a]) <= MaxPerMinute

WebhookInv == WebhookTypes /\ PostInv /\ LimitInv

\* Before the first post nobody is counted.
LEMMA WebhookInitInv == WebhookInit => WebhookInv
<1> SUFFICES ASSUME WebhookInit PROVE WebhookInv
  OBVIOUS
<1>1. WebhookTypes
  BY DEF WebhookInit, WebhookTypes, Notices
<1>2. PostInv
  BY DEF WebhookInit, PostInv
<1>3. LimitInv
  BY FS_EmptySet, WebhookAssumption DEF WebhookInit, LimitInv
<1> QED BY <1>1, <1>2, <1>3 DEF WebhookInv

\* Every step keeps the types.
LEMMA WebhookTypeStep == WebhookInv /\ [WebhookNext]_webhookVars => WebhookTypes'
<1> SUFFICES ASSUME WebhookInv, [WebhookNext]_webhookVars PROVE WebhookTypes'
  OBVIOUS
<1>0. WebhookTypes
  BY DEF WebhookInv
<1> USE <1>0 DEF WebhookTypes, Proceed, Respond, postVars
<1>1. ASSUME NEW q \in Posts, Arrive(q) \/ TrackPost(q) PROVE WebhookTypes'
  BY <1>1 DEF Arrive, TrackPost
<1>2. ASSUME NEW q \in Posts, CheckLimit(q) PROVE WebhookTypes'
  <2>1. log' \in [Addresses -> SUBSET Posts]
    BY <1>2 DEF CheckLimit, Refuse
  <2> QED BY <1>2, <2>1 DEF CheckLimit, Refuse, VerifyPost
<1>3. ASSUME NEW q \in Posts, StartWebhookHandler(q) \/ WebhookHandlerReturns(q)
      PROVE  WebhookTypes'
  BY <1>3 DEF StartWebhookHandler, WebhookHandlerReturns
<1>4. ASSUME NEW q \in Posts, TakeWebhookResult(q) \/ Untrack(q) PROVE WebhookTypes'
  BY <1>4 DEF TakeWebhookResult, Untrack
<1>5. ASSUME NEW q \in Posts, NEW n \in {"gateway", "queue"}, Notify(q, n)
      PROVE  WebhookTypes'
  <2>1. [notices[q] EXCEPT ![n] = @ + 1] \in Notices
    BY <1>5 DEF Notify, Notices
  <2> QED BY <1>5, <2>1 DEF Notify
<1>6. CASE PassWebhookMinute
  BY <1>6 DEF PassWebhookMinute
<1>7. CASE BeginShutdown \/ Drain \/ EndShutdown \/ UNCHANGED webhookVars
  BY <1>7 DEF BeginShutdown, Drain, EndShutdown, webhookVars
<1> QED BY <1>1, <1>2, <1>3, <1>4, <1>5, <1>6, <1>7 DEF WebhookNext, Serve

\* A post keeps its place between answer, handler and notices.
LEMMA PostStep == WebhookInv /\ [WebhookNext]_webhookVars => PostInv'
<1> SUFFICES ASSUME WebhookInv, [WebhookNext]_webhookVars PROVE PostInv'
  OBVIOUS
<1>0. WebhookTypes /\ PostInv
  BY DEF WebhookInv
\* A step is of one request.
<1>1. ASSUME NEW q \in Posts,
             \A o \in Posts \ {q} : /\ progress'[o] = progress[o] /\ handler'[o] = handler[o]
                                    /\ reply'[o] = reply[o] /\ notices'[o] = notices[o]
                                    /\ o \in tracked' <=> o \in tracked,
             /\ progress'[q] \in {"tracked", "passed", "waiting", "answered"} => q \in tracked'
             /\ progress'[q] \in {"none", "admitted", "tracked", "passed", "waiting"} =>
                    reply'[q] = "none"
             /\ progress'[q] = "waiting" => handler'[q] # "none"
             /\ reply'[q] \in {"result", "timeout"} => handler'[q] # "none"
             /\ progress'[q] = "notify" => reply'[q] \in {"result", "timeout"}
             /\ notices'[q] # [gateway |-> 0, queue |-> 0] => progress'[q] = "notify"
      PROVE  PostInv'
  BY <1>0, <1>1 DEF PostInv
<1> USE <1>0, <1>1 DEF WebhookTypes, PostInv, Proceed, Respond
<1>2. ASSUME NEW q \in Posts, Arrive(q) PROVE PostInv'
  BY <1>2 DEF Arrive
<1>3. ASSUME NEW q \in Posts, TrackPost(q) PROVE PostInv'
  BY <1>3 DEF TrackPost
<1>4. ASSUME NEW q \in Posts, CheckLimit(q) PROVE PostInv'
  BY <1>4 DEF CheckLimit, Refuse, VerifyPost
<1>5. ASSUME NEW q \in Posts, StartWebhookHandler(q) PROVE PostInv'
  BY <1>5 DEF StartWebhookHandler
<1>6. ASSUME NEW q \in Posts, WebhookHandlerReturns(q) PROVE PostInv'
  BY <1>6 DEF WebhookHandlerReturns
<1>7. ASSUME NEW q \in Posts, TakeWebhookResult(q) PROVE PostInv'
  BY <1>7 DEF TakeWebhookResult
<1>8. ASSUME NEW q \in Posts, Untrack(q) PROVE PostInv'
  BY <1>8 DEF Untrack
<1>9. ASSUME NEW q \in Posts, NEW n \in {"gateway", "queue"}, Notify(q, n) PROVE PostInv'
  BY <1>9 DEF Notify
<1>10. CASE PassWebhookMinute \/ BeginShutdown \/ Drain \/ EndShutdown \/ UNCHANGED webhookVars
  BY <1>10 DEF PassWebhookMinute, BeginShutdown, Drain, EndShutdown, webhookVars, postVars
<1> QED BY <1>2, <1>3, <1>4, <1>5, <1>6, <1>7, <1>8, <1>9, <1>10 DEF WebhookNext, Serve

\* No window admits more than the limit.
LEMMA LimitStep == WebhookInv /\ [WebhookNext]_webhookVars => LimitInv'
<1> SUFFICES ASSUME WebhookInv, [WebhookNext]_webhookVars PROVE LimitInv'
  OBVIOUS
<1>0. WebhookTypes /\ LimitInv
  BY DEF WebhookInv
<1>1. CASE log' = log
  BY <1>0, <1>1 DEF LimitInv
<1>2. ASSUME NEW q \in Posts, CheckLimit(q), log' # log PROVE LimitInv'
  <2> DEFINE b == address[q]
  <2>1. /\ b \in Addresses /\ ~(Cardinality(log[b]) >= MaxPerMinute)
        /\ \A a \in Addresses : log'[a] = IF a = b THEN log[a] \cup {q} ELSE log[a]
    BY <1>0, <1>2 DEF CheckLimit, Refuse, WebhookTypes
  <2>2. IsFiniteSet(log[b]) /\ Cardinality(log[b]) \in Nat
    BY <1>0, <2>1, FS_CardinalityType DEF LimitInv
  <2>3. IsFiniteSet(log[b] \cup {q})
        /\ Cardinality(log[b] \cup {q}) <= Cardinality(log[b]) + 1
    BY <2>2, FS_AddElement
  <2>4. IsFiniteSet(log[b] \cup {q}) /\ Cardinality(log[b] \cup {q}) <= MaxPerMinute
    BY <2>1, <2>2, <2>3, FS_CardinalityType, WebhookAssumption
  <2> QED BY <1>0, <2>1, <2>4 DEF LimitInv
<1>3. CASE PassWebhookMinute
  BY <1>3, FS_EmptySet, WebhookAssumption DEF PassWebhookMinute, LimitInv
<1> QED BY <1>1, <1>2, <1>3 DEF WebhookNext, Serve, Arrive, TrackPost, StartWebhookHandler,
        WebhookHandlerReturns, TakeWebhookResult, Untrack, Notify, BeginShutdown, Drain,
        EndShutdown, webhookVars

\* Whatever races at the webhook server - a handler and its timeout, requests
\* of one address, requests and Stop - events follow handled requests only, no
\* address passes its limit, and Stop leaves out no request that it waits for.
THEOREM EventsFollowAnswersHolds == WebhookSpec => []EventsFollowAnswers
<1>1. WebhookInv /\ [WebhookNext]_webhookVars => WebhookInv'
  BY WebhookTypeStep, PostStep, LimitStep DEF WebhookInv
<1>2. WebhookInv => EventsFollowAnswers
  <2> SUFFICES ASSUME WebhookInv PROVE EventsFollowAnswers
    OBVIOUS
  <2>1. ASSUME NEW q \in Posts
        PROVE  /\ notices[q].gateway + notices[q].queue > 0 =>
                      reply[q] \in {"result", "timeout"} /\ handler[q] # "none"
               /\ notices[q].gateway <= 1 /\ notices[q].queue <= 1
               /\ handler[q] = "running" /\ progress[q] = "waiting" => q \in tracked
    <3>1. notices[q].gateway \in {0, 1} /\ notices[q].queue \in {0, 1}
      BY DEF WebhookInv, WebhookTypes, Notices
    <3>2. notices[q].gateway + notices[q].queue > 0 => notices[q] # [gateway |-> 0, queue |-> 0]
      OBVIOUS
    <3> QED BY <3>1, <3>2 DEF WebhookInv, PostInv
  <2> QED BY <2>1 DEF EventsFollowAnswers, WebhookInv, LimitInv
<1> QED BY <1>1, <1>2, WebhookInitInv, PTL DEF WebhookSpec

-----------------------------------------------------------------------------
\* The memory index.
MemoryRows == [id : Nat, version : Nat]
MemoryTypes ==
    /\ fileRow \in [MemoryFiles -> MemoryRows] /\ chunkRow \in [MemoryFiles -> MemoryRows]
    /\ vectors \in [MemoryFiles -> Nat]
    /\ nextRow \in Nat \ {0}

\* A chunk that is not there has no vector, which a new one would inherit.
ChunkInv == \A f \in MemoryFiles : chunkRow[f].id = 0 => vectors[f] = 0

\* A version is read from a file that is there.
ReadingInv ==
    /\ content \in [MemoryFiles -> Nat] /\ writes \in Nat
    /\ syncStep = "insert" => reading.version \in Nat

MemoryInv == MemoryTypes /\ ChunkInv /\ ReadingInv /\ IndexIsWhole

\* The empty index is whole.
LEMMA MemoryInitInv == MemoryInit => MemoryInv
BY DEF MemoryInit, MemoryInv, MemoryTypes, MemoryRows, NoRow, ChunkInv, ReadingInv, IndexIsWhole

\* Every transaction leaves the index whole.
LEMMA MemoryStep == MemoryInv /\ [MemoryNext]_memoryVars => MemoryInv'
<1> SUFFICES ASSUME MemoryInv, [MemoryNext]_memoryVars PROVE MemoryInv'
  OBVIOUS
<1>0. MemoryTypes /\ ChunkInv /\ ReadingInv /\ IndexIsWhole
  BY DEF MemoryInv
\* Most steps leave the tables alone.
<1>1. ASSUME UNCHANGED tableVars, ReadingInv' PROVE MemoryInv'
  BY <1>0, <1>1 DEF tableVars, MemoryInv, MemoryTypes, ChunkInv, IndexIsWhole
<1>2. ASSUME NEW f \in MemoryFiles, WriteMemory(f) PROVE MemoryInv'
  <2>1. ReadingInv'
    BY <1>0, <1>2 DEF WriteMemory, ReadingInv, syncVars
  <2> QED BY <1>1, <1>2, <2>1 DEF WriteMemory
<1>3. ASSUME NEW f \in MemoryFiles, ReadMemoryFile(f) PROVE MemoryInv'
  <2>1. ReadingInv'
    BY <1>0, <1>3 DEF ReadMemoryFile, ReadingInv, fileVars
  <2> QED BY <1>1, <1>3, <2>1 DEF ReadMemoryFile
<1>4. CASE IndexFile /\ chunkRow[reading.file].id = 0
  <2> DEFINE f == reading.file  v == reading.version  n == nextRow
  <2>1. /\ fileRow' = [fileRow EXCEPT ![f] = [id |-> n, version |-> v]]
        /\ chunkRow' = [chunkRow EXCEPT ![f] = [id |-> n, version |-> v]]
        /\ terms' = terms \cup {<<f, v>>}
        /\ vectors' = vectors \/ vectors' = [vectors EXCEPT ![f] = v]
        /\ nextRow' = n + 1 /\ v \in Nat /\ n \in Nat \ {0}
    BY <1>0, <1>4 DEF IndexFile, StoreEmbedding, MemoryTypes, ReadingInv
  <2>2. [id |-> n, version |-> v] \in MemoryRows
    BY <2>1 DEF MemoryRows
  <2> HIDE DEF f, v, n
  <2>3. MemoryTypes'
    <3>1. /\ fileRow' \in [MemoryFiles -> MemoryRows] /\ chunkRow' \in [MemoryFiles -> MemoryRows]
          /\ vectors' \in [MemoryFiles -> Nat]
      BY <1>0, <2>1, <2>2 DEF MemoryTypes
    <3>2. nextRow' \in Nat \ {0}
      BY <2>1
    <3> QED BY <3>1, <3>2 DEF MemoryTypes
  <2>4. ASSUME NEW g \in MemoryFiles, g # f
        PROVE  /\ fileRow'[g] = fileRow[g] /\ chunkRow'[g] = chunkRow[g]
               /\ vectors'[g] = vectors[g]
    BY <1>0, <2>1, <2>4 DEF MemoryTypes
  <2>5. f \in MemoryFiles => /\ fileRow'[f] = [id |-> n, version |-> v]
                             /\ chunkRow'[f] = [id |-> n, version |-> v]
                             /\ vectors'[f] \in {0, v}
    BY <1>0, <1>4, <2>1 DEF MemoryTypes, ChunkInv, f
  <2>6. ChunkInv'
    BY <1>0, <2>1, <2>4, <2>5 DEF ChunkInv
  <2>7. IndexIsWhole'
    BY <1>0, <2>1, <2>4, <2>5 DEF IndexIsWhole
  <2>8. ReadingInv'
    BY <1>0, <1>4 DEF IndexFile, ReadingInv, fileVars
  <2> QED BY <2>3, <2>6, <2>7, <2>8 DEF MemoryInv
<1>5. CASE IndexFile /\ chunkRow[reading.file].id # 0
  BY <1>0, <1>1, <1>5 DEF IndexFile, ReadingInv, fileVars
<1>6. CASE PruneDeletedFiles
  <2>1. /\ UNCHANGED <<chunkRow, terms, vectors, nextRow>>
        /\ \A f \in MemoryFiles : fileRow'[f] \in {fileRow[f], NoRow}
        /\ fileRow' = [f \in MemoryFiles |-> fileRow'[f]]
    BY <1>6 DEF PruneDeletedFiles
  <2>2. NoRow \in MemoryRows /\ NoRow.id = 0
    BY DEF NoRow, MemoryRows
  <2>3. MemoryTypes'
    BY <1>0, <2>1, <2>2 DEF MemoryTypes
  <2>4. ChunkInv' /\ IndexIsWhole'
    BY <1>0, <2>1, <2>2 DEF ChunkInv, IndexIsWhole
  <2>5. ReadingInv'
    BY <1>0, <1>6 DEF PruneDeletedFiles, ReadingInv
  <2> QED BY <2>3, <2>4, <2>5 DEF MemoryInv
<1>7. CASE MarkDirty \/ WalkWorkspace \/ WalkFails \/ Restart \/ UNCHANGED memoryVars
           \/ (\E by \in {Loop} \cup Searches : StartSync(by))
           \/ (\E s \in Searches : \/ BeginSearch(s) \/ RefuseSync(s) \/ MatchChunks(s)
                                   \/ FetchChunk(s) \/ ReturnResults(s))
  <2>1. UNCHANGED tableVars /\ UNCHANGED <<content, writes>>
        /\ (syncStep' = "insert" => syncStep = "insert" /\ reading' = reading)
    BY <1>7 DEF MarkDirty, WalkWorkspace, WalkFails, Restart, memoryVars, StartSync, BeginSearch,
       RefuseSync, MatchChunks, FetchChunk, ReturnResults, fileVars, syncVars
  <2> QED BY <1>0, <1>1, <2>1 DEF ReadingInv
<1> QED BY <1>2, <1>3, <1>4, <1>5, <1>6, <1>7 DEF MemoryNext, Indexing

\* Whenever a file is written, a sync fails, a search begins one or the program
\* restarts: what the index knows of a file is of one version.
THEOREM IndexIsWholeHolds == MemorySpec => []IndexIsWhole
<1> QED BY MemoryInitInv, MemoryStep, PTL DEF MemorySpec, MemoryInv

-----------------------------------------------------------------------------
\* The composition that is model-checked is all seven components at once, with
\* the fairness of each: whatever is proved here and in the modules on sessions,
\* runs and the gateway holds of it too.
THEOREM MessagesAreComponents ==
    PartSpec => /\ FairSpec /\ RunnerSpec /\ IngressSpec /\ FlowSpec
                /\ GatewaySpec /\ WebhookSpec /\ MemorySpec
<1>1. PartInit => /\ Init /\ RunnerInit /\ IngressInit /\ FlowInit
                  /\ GatewayInit /\ WebhookInit /\ MemoryInit
  BY DEF PartInit
<1>2. [PartNext]_PartVars =>
      /\ [Next]_vars /\ [RunnerNext]_runnerVars /\ [IngressNext]_ingressVars
      /\ [FlowNext]_flowVars /\ [GatewayNext]_gatewayVars
      /\ [WebhookNext]_webhookVars /\ [MemoryNext]_memoryVars
  BY DEF PartNext, PartVars, GatewayPart
<1> QED
  BY <1>1, <1>2, PTL
     DEF PartSpec, PartFairness, FairSpec, Spec, RunnerSpec, IngressSpec, FlowSpec,
         GatewaySpec, WebhookSpec, MemorySpec

\* The values of all components keep their types side by side.
THEOREM MessagesTypeCorrect == PartSpec => []MessagesTypeOK
<1>1. TypeOK /\ RunnerTypeOK /\ IngressTypeOK /\ GatewayTypeOK => MessagesTypeOK
  BY DEF MessagesTypeOK
<1> QED
  BY <1>1, MessagesAreComponents, SessionTypeCorrect, RunnerTypeCorrect,
     IngressTypeCorrect, GatewayTypeCorrect, PTL DEF FairSpec
=============================================================================

------------------------------ MODULE Webhook ------------------------------
(***************************************************************************)
(* The webhook server, pkg/webhook: a request passes the limit of its      *)
(* address and the checks of its webhook, its handler runs in a goroutine  *)
(* with a timeout, and the answer is followed by an event on the gateway   *)
(* and one on the queue.  Stop waits for the requests it knows of.         *)
(*                                                                         *)
(* Paths, signatures and bodies are left out: whether a request passes its *)
(* checks is chosen.  Time goes in steps of the limiter's window.          *)
(***************************************************************************)
EXTENDS Naturals, FiniteSets

CONSTANTS
    Posts,          \* the requests
    Addresses,      \* of their clients
    MaxPerMinute,   \* ServerOptions.RateLimitPerMinute
    MaxMinutes      \* bound: minutes that pass

ASSUME WebhookAssumption == MaxPerMinute \in Nat

VARIABLES
    address,     \* of each request
    progress,    \* where handleWebhook is
    handler,     \* its handler: "none", "running" or "returned"
    reply,       \* "none", "refused", "result", "failed" or "timeout"
    tracked,     \* inFlightReqs
    log,         \* RateLimitState: per address the requests of the last minute
    notices,     \* how often a request's event was sent: gateway and queue
    shutdown,    \* Stop: "no", "flagged", "drained", "forced" or "stopped"
    minutes

postVars == <<address, progress, handler, reply, tracked, notices>>
webhookVars == <<postVars, log, shutdown, minutes>>

WebhookInit ==
    /\ address \in [Posts -> Addresses]
    /\ progress = [q \in Posts |-> "none"]
    /\ handler = [q \in Posts |-> "none"]
    /\ reply = [q \in Posts |-> "none"]
    /\ tracked = {}
    /\ log = [a \in Addresses |-> {}]
    /\ notices = [q \in Posts |-> [gateway |-> 0, queue |-> 0]]
    /\ shutdown = "no" /\ minutes = 0

Proceed(q, p) == progress' = [progress EXCEPT ![q] = p]
Respond(q, r) == reply' = [reply EXCEPT ![q] = r]

-----------------------------------------------------------------------------
\* handleWebhook looks at isShuttingDown ...
Arrive(q) ==
    /\ progress[q] = "none" /\ shutdown # "stopped"
    /\ IF shutdown = "no" THEN Proceed(q, "admitted") /\ UNCHANGED reply
       ELSE Proceed(q, "done") /\ Respond(q, "refused")
    /\ UNCHANGED <<address, handler, tracked, notices, log, shutdown, minutes>>

\* ... and is counted from then on.
TrackPost(q) ==
    /\ progress[q] = "admitted"
    /\ Proceed(q, "tracked") /\ tracked' = tracked \cup {q}
    /\ UNCHANGED <<address, handler, reply, notices, log, shutdown, minutes>>

Refuse(q) == Proceed(q, "answered") /\ Respond(q, "refused")

\* The webhook is found, the signature verified and the body parsed, or not.
VerifyPost(q) == Refuse(q) \/ (Proceed(q, "passed") /\ UNCHANGED reply)

CheckLimit(q) ==
    /\ progress[q] = "tracked"
    /\ IF Cardinality(log[address[q]]) >= MaxPerMinute THEN Refuse(q) /\ UNCHANGED log
       ELSE VerifyPost(q) /\ log' = [log EXCEPT ![address[q]] = @ \cup {q}]
    /\ UNCHANGED <<address, handler, tracked, notices, shutdown, minutes>>

\* executeHandler starts the handler ...
StartWebhookHandler(q) ==
    /\ progress[q] = "passed"
    /\ Proceed(q, "waiting") /\ handler' = [handler EXCEPT ![q] = "running"]
    /\ UNCHANGED <<address, reply, tracked, notices, log, shutdown, minutes>>

\* ... which may run for longer than anyone waits for it ...
WebhookHandlerReturns(q) ==
    /\ handler[q] = "running"
    /\ handler' = [handler EXCEPT ![q] = "returned"]
    /\ UNCHANGED <<address, progress, reply, tracked, notices, log, shutdown, minutes>>

\* ... and takes its result or the timeout, which is no error: either may be
\* taken when both are there.
TakeWebhookResult(q) ==
    /\ progress[q] = "waiting"
    /\ \/ handler[q] = "returned" /\ \E r \in {"result", "failed"} : Respond(q, r)
       \/ Respond(q, "timeout")
    /\ Proceed(q, "answered")
    /\ UNCHANGED <<address, handler, tracked, notices, log, shutdown, minutes>>

\* Variant: a failed handler is followed by the events as well.
UntrackAndNotify(q) ==
    /\ progress[q] = "answered"
    /\ tracked' = tracked \ {q} /\ Proceed(q, "notify")
    /\ UNCHANGED <<address, handler, reply, notices, log, shutdown, minutes>>

\* The deferred Done.  A handled request starts its two events.
Untrack(q) ==
    /\ progress[q] = "answered"
    /\ tracked' = tracked \ {q}
    /\ Proceed(q, IF reply[q] \in {"result", "timeout"} THEN "notify" ELSE "done")
    /\ UNCHANGED <<address, handler, reply, notices, log, shutdown, minutes>>

\* broadcastEvent and enqueueSystemEvent, each in a goroutine of its own.
Notify(q, n) ==
    /\ progress[q] = "notify" /\ notices[q][n] = 0
    /\ notices' = [notices EXCEPT ![q][n] = @ + 1]
    /\ UNCHANGED <<address, progress, handler, reply, tracked, log, shutdown, minutes>>

\* A minute has passed: what is in the log is older, and cleanup forgets it.
PassWebhookMinute ==
    /\ minutes < MaxMinutes /\ minutes' = minutes + 1
    /\ log' = [a \in Addresses |-> {}]
    /\ UNCHANGED <<postVars, shutdown>>

-----------------------------------------------------------------------------
BeginShutdown ==
    /\ shutdown = "no" /\ shutdown' = "flagged"
    /\ UNCHANGED <<postVars, log, minutes>>

\* The requests that are counted are done, or 30 seconds have passed.
Drain ==
    /\ shutdown = "flagged"
    /\ \/ tracked = {} /\ shutdown' = "drained"
       \/ shutdown' = "forced"
    /\ UNCHANGED <<postVars, log, minutes>>

EndShutdown ==
    /\ shutdown \in {"drained", "forced"} /\ shutdown' = "stopped"
    /\ UNCHANGED <<postVars, log, minutes>>

-----------------------------------------------------------------------------
Serve(q) == TrackPost(q) \/ CheckLimit(q) \/ StartWebhookHandler(q)
            \/ TakeWebhookResult(q) \/ Untrack(q) \/ \E n \in {"gateway", "queue"} : Notify(q, n)

WebhookNext ==
    \/ \E q \in Posts : Arrive(q) \/ Serve(q) \/ WebhookHandlerReturns(q)
    \/ PassWebhookMinute \/ BeginShutdown \/ Drain \/ EndShutdown

\* The server goes on; handlers owe nothing.
WebhookFairness ==
    /\ \A q \in Posts : WF_webhookVars(Serve(q))
    /\ WF_webhookVars(Drain \/ EndShutdown)

WebhookSpec == WebhookInit /\ [][WebhookNext]_webhookVars /\ WebhookFairness

-----------------------------------------------------------------------------
\* Events tell of requests whose handler was called and did not fail, once; no
\* address has more than its limit handled in a minute; and when Stop was not
\* forced, what it waited for has its answer.
EventsFollowAnswers ==
    /\ \A q \in Posts :
          /\ notices[q].gateway + notices[q].queue > 0 =>
                 reply[q] \in {"result", "timeout"} /\ handler[q] # "none"
          /\ notices[q].gateway <= 1 /\ notices[q].queue <= 1
    /\ \A a \in Addresses : Cardinality(log[a]) <= MaxPerMinute
    /\ shutdown = "drained" =>
           \A q \in Posts : handler[q] = "running" /\ progress[q] = "waiting"
                            => q \in tracked

\* A request that is let in is answered, its events are sent, and Stop ends,
\* also when its handler never returns.
WebhookAtWork ==
    \/ \E q \in Posts : \/ progress[q] \notin {"none", "notify", "done"}
                        \/ progress[q] = "notify" /\ notices[q] # [gateway |-> 1, queue |-> 1]
    \/ shutdown \notin {"no", "stopped"}
WebhookRequestsEnd == WebhookAtWork ~> ~WebhookAtWork
=============================================================================

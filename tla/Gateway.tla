------------------------------ MODULE Gateway ------------------------------
(***************************************************************************)
(* The gateway, pkg/gateway: clients connect over WebSocket, answer a      *)
(* challenge and send requests, each handled by a goroutine of its own     *)
(* (server.go); a request with an idempotency key is answered from the     *)
(* cache or waits for the one that is running (router.go); events are      *)
(* numbered and written to the clients (broadcaster.go); Stop closes all   *)
(* of it while it works.                                                   *)
(*                                                                         *)
(* Signatures, scopes and methods are left out: what checking them comes   *)
(* to is chosen.  A request over HTTP has no client.                       *)
(***************************************************************************)
EXTENDS Naturals, FiniteSets

CONSTANTS
    Clients,
    GatewayRequests,
    IdempotencyKeys,
    MaxConcurrent,   \* ClientRateLimiter.maxConcurrent
    MaxEvents,       \* bound: events numbered before that of Stop
    MaxExpiries      \* bound: cached responses that expire

NoClient == "http"
NoKey == "no key"
NoOne == "no one"
Senders == {"ticker", "stopper"} \cup GatewayRequests

ASSUME GatewayAssumption ==
    /\ IsFiniteSet(GatewayRequests)
    /\ NoClient \notin Clients /\ NoKey \notin IdempotencyKeys
    /\ {NoOne, "ticker", "stopper"} \cap GatewayRequests = {}
    /\ MaxConcurrent \in Nat /\ MaxEvents \in Nat /\ MaxExpiries \in Nat

VARIABLES
    stopping,    \* how far Stop is: "no", "flagged", "told", "waited", "closing", "stopped"
    link,        \* per client: what its connection is
    attempts,    \* Client.AuthAttempts
    closed,      \* the clients whose connection was closed on this side
    caller, key, \* of each request
    requestStage,       \* where a request is
    answer,      \* the request whose handler answered it, if one has
    cached,      \* idempotencyCache: per key the request whose response it holds
    inFlight,    \* RPCRouter.inFlight: per key the request that is running
    expiries,
    concurrent,  \* ClientRateLimiter.concurrentRequests
    seq,         \* EventBroadcaster.seq
    writing,     \* per sender: the number of its event, 0 if it sends none
    toWrite,     \* and the clients it has still to write to
    seen         \* per client, the number of the last event it was sent

linkVars == <<link, attempts, closed>>
routeVars == <<caller, key, requestStage, answer, cached, inFlight, expiries, concurrent>>
eventVars == <<seq, writing, toWrite, seen>>
gatewayVars == <<stopping, linkVars, routeVars, eventVars>>

GatewayInit ==
    /\ stopping = "no"
    /\ link = [c \in Clients |-> "none"] /\ attempts = [c \in Clients |-> 0]
    /\ closed = {}
    /\ caller = [q \in GatewayRequests |-> NoClient] /\ key = [q \in GatewayRequests |-> NoKey]
    /\ requestStage = [q \in GatewayRequests |-> "none"]
    /\ answer = [q \in GatewayRequests |-> NoOne]
    /\ cached = [k \in IdempotencyKeys |-> NoOne]
    /\ inFlight = [k \in IdempotencyKeys |-> NoOne]
    /\ expiries = 0
    /\ concurrent = [c \in Clients |-> 0]
    /\ seq = 0
    /\ writing = [s \in Senders |-> 0] /\ toWrite = [s \in Senders |-> {}]
    /\ seen = [c \in Clients |-> 0]

Handled == {"look", "mark", "wait", "run", "store", "unmark", "reply"}
InHand(c) == {q \in GatewayRequests : caller[q] = c /\ requestStage[q] \in Handled}
Registered == {c \in Clients : link[c] \in {"connecting", "challenged", "authenticated"}}
Authenticated == {c \in Clients : link[c] = "authenticated"}
RequestMoves(q, s) == requestStage' = [requestStage EXCEPT ![q] = s]
Relink(c, l) == link' = [link EXCEPT ![c] = l]

-----------------------------------------------------------------------------
\* Connections.  handleWebSocket looks at isShuttingDown, then upgrades.
CheckShutdown(c) ==
    /\ link[c] = "none" /\ stopping # "stopped"
    /\ Relink(c, IF stopping = "no" THEN "admitted" ELSE "refused")
    /\ UNCHANGED <<stopping, attempts, closed, routeVars, eventVars>>

\* The upgrade fails, or the client is registered.
Upgrade(c) ==
    /\ link[c] = "admitted"
    /\ \E l \in {"refused", "connecting"} : Relink(c, l)
    /\ UNCHANGED <<stopping, attempts, closed, routeVars, eventVars>>

\* The challenge is sent and the goroutine that reads is started.
SendAuthChallenge(c) ==
    /\ link[c] = "connecting"
    /\ \E l \in {"gone", "challenged"} : Relink(c, l)
    /\ UNCHANGED <<stopping, attempts, closed, routeVars, eventVars>>

\* The third failed attempt closes the connection.
HandleAuthResponse(c) ==
    /\ link[c] = "challenged" /\ c \notin closed
    /\ \/ Relink(c, "authenticated") /\ attempts' = [attempts EXCEPT ![c] = 0]
          /\ UNCHANGED closed
       \/ /\ attempts' = [attempts EXCEPT ![c] = @ + 1]
          /\ closed' = IF attempts[c] + 1 >= 3 THEN closed \cup {c} ELSE closed
          /\ UNCHANGED link
    /\ UNCHANGED <<stopping, routeVars, eventVars>>

\* The peer goes, its deadline passes, or the connection was closed here:
\* handleClient ends.
Disconnect(c) ==
    /\ link[c] \in {"challenged", "authenticated"}
    /\ Relink(c, "gone")
    /\ UNCHANGED <<stopping, attempts, closed, routeVars, eventVars>>

-----------------------------------------------------------------------------
\* Requests.
CheckRequestAllowed(c) == concurrent[c] < MaxConcurrent

\* handleMessage: without the scopes, over the limits and before the client
\* is known the request is refused, else it gets a goroutine.
HandleMessage(c, q, k) ==
    /\ requestStage[q] = "none"
    /\ link[c] \in {"challenged", "authenticated"} /\ c \notin closed
    /\ caller' = [caller EXCEPT ![q] = c] /\ key' = [key EXCEPT ![q] = k]
    /\ \/ RequestMoves(q, "refused") /\ UNCHANGED concurrent
       \/ /\ link[c] = "authenticated" /\ CheckRequestAllowed(c)
          /\ RequestMoves(q, "look")
          /\ concurrent' = [concurrent EXCEPT ![c] = @ + 1]
    /\ UNCHANGED <<stopping, linkVars, answer, cached, inFlight, expiries, eventVars>>

\* handleRPC: the same router, without limits.
HandleRPC(q, k) ==
    /\ requestStage[q] = "none" /\ stopping # "stopped"
    /\ key' = [key EXCEPT ![q] = k]
    /\ \E s \in {"refused", "look"} : RequestMoves(q, s)
    /\ UNCHANGED <<stopping, linkVars, caller, answer, cached, inFlight, expiries,
                   concurrent, eventVars>>

\* RouteRequest: the cache first, under a lock of its own ...
GetCachedResponse(q) ==
    /\ requestStage[q] = "look"
    /\ IF key[q] = NoKey THEN RequestMoves(q, "run") /\ UNCHANGED answer
       ELSE IF cached[key[q]] # NoOne
            THEN RequestMoves(q, "reply") /\ answer' = [answer EXCEPT ![q] = cached[key[q]]]
            ELSE RequestMoves(q, "mark") /\ UNCHANGED answer
    /\ UNCHANGED <<stopping, linkVars, caller, key, cached, inFlight, expiries,
                   concurrent, eventVars>>

\* Variant: the key is marked without looking whether it is.
MarkUnseen(q) ==
    /\ requestStage[q] = "mark"
    /\ RequestMoves(q, "run") /\ inFlight' = [inFlight EXCEPT ![key[q]] = q]
    /\ UNCHANGED <<stopping, linkVars, caller, key, answer, cached, expiries,
                   concurrent, eventVars>>

\* ... then the key is marked as running, or the one that has it waited for.
MarkInFlight(q) ==
    /\ requestStage[q] = "mark"
    /\ IF inFlight[key[q]] = NoOne
       THEN RequestMoves(q, "run") /\ inFlight' = [inFlight EXCEPT ![key[q]] = q]
       ELSE RequestMoves(q, "wait") /\ UNCHANGED inFlight
    /\ UNCHANGED <<stopping, linkVars, caller, key, answer, cached, expiries,
                   concurrent, eventVars>>

\* The handler answers, with a result or an error, and the answer is cached; or
\* there is no such method, and so no handler runs.
RunHandler(q) ==
    /\ requestStage[q] = "run" /\ writing[q] = 0
    /\ \/ RequestMoves(q, "store") /\ answer' = [answer EXCEPT ![q] = q]
       \/ RequestMoves(q, "unmark") /\ UNCHANGED answer
    /\ UNCHANGED <<stopping, linkVars, caller, key, cached, inFlight, expiries,
                   concurrent, eventVars>>

CacheResponse(q) ==
    /\ requestStage[q] = "store"
    /\ RequestMoves(q, "unmark")
    /\ cached' = IF key[q] = NoKey THEN cached ELSE [cached EXCEPT ![key[q]] = q]
    /\ UNCHANGED <<stopping, linkVars, caller, key, answer, inFlight, expiries,
                   concurrent, eventVars>>

\* The deferred function: the mark is taken and those who wait look again.
Unmark(q) ==
    /\ requestStage[q] = "unmark"
    /\ IF key[q] = NoKey THEN RequestMoves(q, "reply") /\ UNCHANGED inFlight
       ELSE /\ requestStage' = [p \in GatewayRequests |->
                 IF p = q THEN "reply"
                 ELSE IF requestStage[p] = "wait" /\ key[p] = key[q] THEN "look"
                 ELSE requestStage[p]]
            /\ inFlight' = [inFlight EXCEPT ![key[q]] = NoOne]
    /\ UNCHANGED <<stopping, linkVars, caller, key, answer, cached, expiries,
                   concurrent, eventVars>>

\* The response is written, or fails to be, and the goroutine ends.
Reply(q) ==
    /\ requestStage[q] = "reply"
    /\ RequestMoves(q, "done")
    /\ concurrent' = IF caller[q] = NoClient THEN concurrent
                     ELSE [concurrent EXCEPT ![caller[q]] = @ - 1]
    /\ UNCHANGED <<stopping, linkVars, caller, key, answer, cached, inFlight, expiries,
                   eventVars>>

ExpireResponse(k) ==
    /\ cached[k] # NoOne /\ expiries < MaxExpiries
    /\ cached' = [cached EXCEPT ![k] = NoOne]
    /\ expiries' = expiries + 1
    /\ UNCHANGED <<stopping, linkVars, caller, key, requestStage, answer, inFlight, concurrent,
                   eventVars>>

-----------------------------------------------------------------------------
\* Events.  The number is drawn and the clients written to under one lock.
Unlocked == \A s \in Senders : writing[s] = 0

MaySend(s) ==
    CASE s = "ticker"  -> stopping = "no"
      [] s = "stopper" -> stopping = "flagged"
      [] OTHER         -> requestStage[s] = "run"

\* Variant: the lock is not taken.
BroadcastUnlocked(s) ==
    /\ MaySend(s) /\ writing[s] = 0 /\ (seq < MaxEvents \/ s = "stopper")
    /\ seq' = seq + 1
    /\ writing' = [writing EXCEPT ![s] = seq + 1]
    /\ toWrite' = [toWrite EXCEPT ![s] = Authenticated]
    /\ UNCHANGED <<stopping, linkVars, routeVars, seen>>

\* Broadcast goes to the clients that are authenticated now, BroadcastToClient
\* to the one whose request is handled.
Broadcast(s) ==
    /\ MaySend(s) /\ Unlocked /\ (seq < MaxEvents \/ s = "stopper")
    /\ seq' = seq + 1
    /\ writing' = [writing EXCEPT ![s] = seq + 1]
    /\ \E to \in {Authenticated} \cup
                 (IF s \in GatewayRequests THEN {{caller[s]} \cap Registered} ELSE {}) :
          toWrite' = [toWrite EXCEPT ![s] = to]
    /\ UNCHANGED <<stopping, linkVars, routeVars, seen>>

WriteEvent(s, c) ==
    /\ writing[s] # 0 /\ c \in toWrite[s]
    /\ toWrite' = [toWrite EXCEPT ![s] = @ \ {c}]
    /\ seen' = IF link[c] = "gone" \/ c \in closed THEN seen
               ELSE [seen EXCEPT ![c] = writing[s]]
    /\ UNCHANGED <<stopping, linkVars, routeVars, seq, writing>>

EndBroadcast(s) ==
    /\ writing[s] # 0 /\ toWrite[s] = {}
    /\ writing' = [writing EXCEPT ![s] = 0]
    /\ stopping' = IF s = "stopper" THEN "told" ELSE stopping
    /\ UNCHANGED <<linkVars, routeVars, seq, toWrite, seen>>

-----------------------------------------------------------------------------
\* Stop waits for the ticker, tells the clients, waits for the requests of
\* clients, closes the connections there are and shuts the HTTP server down.
BeginStop ==
    /\ stopping = "no" /\ writing["ticker"] = 0
    /\ stopping' = "flagged"
    /\ UNCHANGED <<linkVars, routeVars, eventVars>>

\* Either inFlightReqs is down to zero or 30 seconds have passed.
WaitForRequests ==
    /\ stopping = "told"
    /\ stopping' = "waited"
    /\ UNCHANGED <<linkVars, routeVars, eventVars>>

CloseClients ==
    /\ stopping = "waited"
    /\ stopping' = "closing" /\ closed' = closed \cup Registered
    /\ UNCHANGED <<link, attempts, routeVars, eventVars>>

ShutdownHTTP ==
    /\ stopping = "closing"
    /\ stopping' = "stopped"
    /\ UNCHANGED <<linkVars, routeVars, eventVars>>

-----------------------------------------------------------------------------
Connecting(c) ==
    CheckShutdown(c) \/ Upgrade(c) \/ SendAuthChallenge(c) \/ HandleAuthResponse(c)
    \/ Disconnect(c)
Answering(q) ==
    GetCachedResponse(q) \/ MarkInFlight(q) \/ RunHandler(q) \/ CacheResponse(q)
    \/ Unmark(q) \/ Reply(q)
WriteTo(s) == (\E c \in Clients : WriteEvent(s, c)) \/ EndBroadcast(s)
Stopping == WaitForRequests \/ CloseClients \/ ShutdownHTTP

GatewayNext ==
    \/ \E c \in Clients : Connecting(c)
    \/ \E q \in GatewayRequests : Answering(q)
    \/ \E q \in GatewayRequests, k \in IdempotencyKeys \cup {NoKey} :
          HandleRPC(q, k) \/ \E c \in Clients : HandleMessage(c, q, k)
    \/ \E k \in IdempotencyKeys : ExpireResponse(k)
    \/ \E s \in Senders : Broadcast(s) \/ WriteTo(s)
    \/ BeginStop \/ Stopping

\* Handlers return, writes have deadlines, Stop is a sequence of steps, and a
\* connection that was closed is read from no more.
GatewayFairness ==
    /\ \A q \in GatewayRequests : WF_gatewayVars(Answering(q))
    /\ \A s \in Senders : WF_gatewayVars(WriteTo(s))
    /\ WF_gatewayVars(Broadcast("stopper"))
    /\ WF_gatewayVars(Stopping)
    /\ \A c \in Clients : WF_gatewayVars(SendAuthChallenge(c))
                          /\ WF_gatewayVars(c \in closed /\ Disconnect(c))

GatewaySpec == GatewayInit /\ [][GatewayNext]_gatewayVars /\ GatewayFairness

-----------------------------------------------------------------------------
GatewayTypeOK ==
    /\ stopping \in {"no", "flagged", "told", "waited", "closing", "stopped"}
    /\ caller \in [GatewayRequests -> Clients \cup {NoClient}]
    /\ key \in [GatewayRequests -> IdempotencyKeys \cup {NoKey}]
    /\ cached \in [IdempotencyKeys -> GatewayRequests \cup {NoOne}]
    /\ inFlight \in [IdempotencyKeys -> GatewayRequests \cup {NoOne}]
    /\ seen \in [Clients -> 0..(MaxEvents + 1)]

\* Two requests with one idempotency key are never in their handlers together,
\* and who waits for a key waits for one that is there to wake it.
KeysRunAlone ==
    \A q \in GatewayRequests : key[q] # NoKey =>
        /\ requestStage[q] \in {"run", "store", "unmark"} <=> inFlight[key[q]] = q
        /\ requestStage[q] = "wait" => inFlight[key[q]] # NoOne

\* A client has as many requests in hand as its limiter counts, and no more
\* than it may have, also when it disconnects while they run.
LimitsAreKept ==
    \A c \in Clients : /\ concurrent[c] = Cardinality(InHand(c))
                       /\ concurrent[c] <= MaxConcurrent

\* Idempotency keys and limits hold for requests in any order of arrival, answer
\* and disconnection.  router.go:83-193, server.go:418-536.
RequestsAreOrderly == KeysRunAlone /\ LimitsAreKept

\* What a client receives is numbered in the order it arrives in, whatever
\* handlers, the ticker and Stop send at once.
EventsAreInOrder ==
    [][\A c \in Clients : seen'[c] # seen[c] => seen'[c] > seen[c]]_gatewayVars

\* Every request is answered, Stop ends, and the clients it closed go.
GatewayAtWork ==
    \/ \E q \in GatewayRequests : requestStage[q] \in Handled
    \/ stopping \notin {"no", "stopped"}
    \/ \E c \in closed : link[c] # "gone"
GatewayComesToRest == GatewayAtWork ~> ~GatewayAtWork

\* router_test.go:236, "handler should run only once for duplicate idempotency
\* key": as long as no response has expired, of the requests with one key one at
\* most has its handler run, and is answered by it.
KeyRunsOnce ==
    \A q1, q2 \in GatewayRequests :
        q1 # q2 /\ key[q1] = key[q2] /\ key[q1] # NoKey /\ expiries = 0
        => ~(answer[q1] = q1 /\ answer[q2] = q2)

=============================================================================

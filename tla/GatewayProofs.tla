--------------------------- MODULE GatewayProofs ---------------------------
(***************************************************************************)
(* The gateway for every set of clients, requests and idempotency keys.    *)
(*                                                                         *)
(* KeysRunAlone is not inductive: a request that draws its key must not be *)
(* found under it already (MarkInv).  LimitsAreKept needs to know that a   *)
(* request nobody has made yet counts for no client (FreshInv), and the    *)
(* order of events that the one who holds the broadcaster's lock writes    *)
(* the last number drawn, to clients that have not seen it (EventInv).     *)
(***************************************************************************)
EXTENDS Gateway, TLAPS, FiniteSetTheorems

RequestStages == {"none", "refused", "done"} \cup Handled

TypeInv ==
    /\ GatewayTypeOK
    /\ link \in [Clients -> {"none", "admitted", "refused", "connecting", "challenged",
                             "authenticated", "gone"}]
    /\ attempts \in [Clients -> Nat] /\ closed \subseteq Clients
    /\ requestStage \in [GatewayRequests -> RequestStages]
    /\ answer \in [GatewayRequests -> GatewayRequests \cup {NoOne}]
    /\ expiries \in Nat
    /\ concurrent \in [Clients -> Nat]
    /\ seq \in Nat /\ seen \in [Clients -> Nat]
    /\ writing \in [Senders -> Nat] /\ toWrite \in [Senders -> SUBSET Clients]

\* A key is marked by a request that carries it; who is about to mark one, or
\* waits for one, has one.
MarkInv ==
    /\ \A k \in IdempotencyKeys, q \in GatewayRequests : inFlight[k] = q => key[q] = k
    /\ \A q \in GatewayRequests : requestStage[q] \in {"mark", "wait"} => key[q] # NoKey

\* A request that was not made yet has no client.
FreshInv == \A q \in GatewayRequests : requestStage[q] = "none" => caller[q] = NoClient

\* One sender at a time writes, the last number drawn, to clients that have
\* seen smaller ones only; the event of Stop is the only one beyond MaxEvents.
EventInv ==
    /\ \A s1, s2 \in Senders : writing[s1] # 0 /\ writing[s2] # 0 => s1 = s2
    /\ \A s \in Senders : writing[s] # 0 =>
           writing[s] = seq /\ \A c \in toWrite[s] : seen[c] < seq
    /\ \A c \in Clients : seen[c] <= seq
    /\ writing["stopper"] # 0 => stopping = "flagged"
    /\ seq <= MaxEvents + 1
    /\ stopping = "no" \/ (stopping = "flagged" /\ writing["stopper"] = 0)
       => seq <= MaxEvents

GInv == TypeInv /\ MarkInv /\ KeysRunAlone /\ FreshInv /\ LimitsAreKept /\ EventInv

-----------------------------------------------------------------------------
\* Before the first client all parts hold.
LEMMA InitGInv == GatewayInit => GInv
<1> SUFFICES ASSUME GatewayInit PROVE GInv
  OBVIOUS
<1> USE GatewayAssumption DEF GatewayInit
<1>1. TypeInv
  BY DEF TypeInv, GatewayTypeOK, RequestStages, Handled, Senders
<1>2. MarkInv /\ KeysRunAlone /\ FreshInv
  BY DEF MarkInv, KeysRunAlone, FreshInv
<1>3. LimitsAreKept
  <2>1. \A c \in Clients : InHand(c) = {}
    BY DEF InHand, Handled
  <2> QED BY <2>1, FS_EmptySet, SMTT(30) DEF LimitsAreKept
<1>4. EventInv
  BY DEF EventInv, Senders
<1> QED BY <1>1, <1>2, <1>3, <1>4 DEF GInv

-----------------------------------------------------------------------------
\* A client's requests in hand are finitely many, as the requests are.
LEMMA InHandFinite ==
    ASSUME NEW c \in Clients
    PROVE  IsFiniteSet(InHand(c)) /\ Cardinality(InHand(c)) \in Nat
<1>1. InHand(c) \in SUBSET GatewayRequests
  BY DEF InHand
<1> QED BY <1>1, FS_Subset, FS_CardinalityType, GatewayAssumption

\* Where the requests are after a step, and what else of them it touches.
LEMMA MoveType ==
    ASSUME TypeInv, NEW q \in GatewayRequests, NEW s \in RequestStages, RequestMoves(q, s)
    PROVE  /\ requestStage' \in [GatewayRequests -> RequestStages]
           /\ requestStage'[q] = s
           /\ \A p \in GatewayRequests \ {q} : requestStage'[p] = requestStage[p]
BY DEF TypeInv, RequestMoves

\* The events' variables keep their types; seen stays within the numbers drawn.
LEMMA EventsStep == GInv /\ [GatewayNext]_gatewayVars => EventInv'
<1> SUFFICES ASSUME GInv, [GatewayNext]_gatewayVars PROVE EventInv'
  OBVIOUS
<1> USE GatewayAssumption
<1>0. /\ writing \in [Senders -> Nat] /\ toWrite \in [Senders -> SUBSET Clients]
      /\ seen \in [Clients -> Nat] /\ seq \in Nat /\ EventInv
      /\ "stopper" \in Senders
  BY DEF GInv, TypeInv, Senders
<1>1. ASSUME UNCHANGED <<stopping, eventVars>> PROVE EventInv'
  BY <1>0, <1>1 DEF EventInv, eventVars
<1>2. ASSUME NEW c \in Clients, Connecting(c) PROVE EventInv'
  BY <1>1, <1>2 DEF Connecting, CheckShutdown, Upgrade, SendAuthChallenge,
     HandleAuthResponse, Disconnect
<1>3. ASSUME NEW q \in GatewayRequests, Answering(q) PROVE EventInv'
  BY <1>1, <1>3 DEF Answering, GetCachedResponse, MarkInFlight, RunHandler, CacheResponse,
     Unmark, Reply
<1>4. ASSUME NEW q \in GatewayRequests, NEW k \in IdempotencyKeys \cup {NoKey},
             HandleRPC(q, k) \/ \E c \in Clients : HandleMessage(c, q, k)
      PROVE  EventInv'
  BY <1>1, <1>4 DEF HandleRPC, HandleMessage
<1>5. ASSUME NEW k \in IdempotencyKeys, ExpireResponse(k) PROVE EventInv'
  BY <1>1, <1>5 DEF ExpireResponse
<1>6. ASSUME NEW s \in Senders, Broadcast(s) PROVE EventInv'
  <2>1. /\ MaySend(s) /\ \A t \in Senders : writing[t] = 0
        /\ seq' = seq + 1 /\ writing' = [writing EXCEPT ![s] = seq + 1]
        /\ seq < MaxEvents \/ s = "stopper"
        /\ UNCHANGED <<stopping, seen>>
    BY <1>6 DEF Broadcast, Unlocked
  <2>2. toWrite' \in [Senders -> SUBSET Clients]
    BY <1>0, <1>6 DEF Broadcast, Authenticated, Registered
  <2>3. \A t \in Senders : writing'[t] = IF t = s THEN seq + 1 ELSE 0
    BY <1>0, <2>1
  <2>4. \A c \in Clients : seen'[c] < seq'
    BY <1>0, <2>1 DEF EventInv
  <2>5. s = "stopper" => stopping = "flagged" /\ seq <= MaxEvents
    BY <1>0, <2>1 DEF MaySend, EventInv
  <2>6. seq' <= MaxEvents + 1 /\ (s # "stopper" => seq' <= MaxEvents)
    BY <1>0, <2>1, <2>5
  <2>7. \A t \in Senders : writing'[t] # 0 =>
            writing'[t] = seq' /\ \A c \in toWrite'[t] : seen'[c] < seq'
    BY <1>0, <2>1, <2>2, <2>3, <2>4
  <2>8. \A c \in Clients : seen'[c] <= seq'
    BY <1>0, <2>1, <2>4
  <2> QED BY <1>0, <2>1, <2>3, <2>5, <2>6, <2>7, <2>8 DEF EventInv
<1>7. ASSUME NEW s \in Senders, NEW c \in Clients, WriteEvent(s, c) PROVE EventInv'
  <2>1. /\ writing[s] = seq /\ c \in toWrite[s] /\ \A t \in Senders \ {s} : writing[t] = 0
        /\ UNCHANGED <<stopping, seq, writing>>
    BY <1>0, <1>7 DEF WriteEvent, EventInv
  <2>2. \A d \in Clients \ {c} : seen'[d] = seen[d]
    BY <1>0, <1>7 DEF WriteEvent
  <2>3. seen'[c] <= seq
    BY <1>0, <1>7, <2>1 DEF WriteEvent, EventInv
  <2>4. c \notin toWrite'[s] /\ toWrite'[s] \subseteq toWrite[s] /\ toWrite[s] \subseteq Clients
    BY <1>0, <1>7 DEF WriteEvent
  <2>5. \A d \in toWrite'[s] : seen'[d] < seq \/ writing[s] = 0
    BY <1>0, <2>2, <2>4 DEF EventInv
  <2> QED BY <1>0, <2>1, <2>2, <2>3, <2>5 DEF EventInv
<1>8. ASSUME NEW s \in Senders, EndBroadcast(s) PROVE EventInv'
  <2>1. /\ UNCHANGED <<seq, toWrite, seen>> /\ writing[s] # 0
        /\ \A t \in Senders : writing'[t] = IF t = s THEN 0 ELSE writing[t]
        /\ stopping' = IF s = "stopper" THEN "told" ELSE stopping
    BY <1>0, <1>8 DEF EndBroadcast
  <2>2. \A t \in Senders : writing'[t] = 0
    BY <1>0, <2>1 DEF EventInv
  <2> QED BY <1>0, <2>1, <2>2 DEF EventInv
<1>9. CASE BeginStop \/ Stopping \/ UNCHANGED gatewayVars
  <2>1. UNCHANGED eventVars
    BY <1>9 DEF BeginStop, Stopping, WaitForRequests, CloseClients, ShutdownHTTP, gatewayVars
  <2>2. \/ stopping' = stopping
        \/ stopping = "no" /\ stopping' = "flagged"
        \/ stopping \in {"told", "waited", "closing"}
           /\ stopping' \in {"waited", "closing", "stopped"}
    BY <1>9 DEF BeginStop, Stopping, WaitForRequests, CloseClients, ShutdownHTTP, gatewayVars
  <2> QED BY <1>0, <2>1, <2>2 DEF EventInv, eventVars
<1> QED BY <1>2, <1>3, <1>4, <1>5, <1>6, <1>7, <1>8, <1>9 DEF GatewayNext, WriteTo

-----------------------------------------------------------------------------
\* Keys: who runs is marked, who waits has somebody to wait for.
LEMMA KeysStep ==
    GInv /\ [GatewayNext]_gatewayVars => MarkInv' /\ KeysRunAlone' /\ FreshInv'
<1> SUFFICES ASSUME GInv, [GatewayNext]_gatewayVars
             PROVE  MarkInv' /\ KeysRunAlone' /\ FreshInv'
  OBVIOUS
<1> USE GatewayAssumption
<1>0. /\ TypeInv /\ MarkInv /\ KeysRunAlone /\ FreshInv
      /\ key \in [GatewayRequests -> IdempotencyKeys \cup {NoKey}]
      /\ caller \in [GatewayRequests -> Clients \cup {NoClient}]
      /\ inFlight \in [IdempotencyKeys -> GatewayRequests \cup {NoOne}]
      /\ requestStage \in [GatewayRequests -> RequestStages]
  BY DEF GInv, TypeInv, GatewayTypeOK
<1>1. ASSUME UNCHANGED <<key, inFlight, caller, requestStage>>
      PROVE  MarkInv' /\ KeysRunAlone' /\ FreshInv'
  BY <1>0, <1>1 DEF MarkInv, KeysRunAlone, FreshInv
<1>2. ASSUME NEW c \in Clients, Connecting(c)
      PROVE  MarkInv' /\ KeysRunAlone' /\ FreshInv'
  BY <1>1, <1>2 DEF Connecting, CheckShutdown, Upgrade, SendAuthChallenge,
     HandleAuthResponse, Disconnect, routeVars
<1>3. ASSUME NEW q \in GatewayRequests, NEW s \in RequestStages, RequestMoves(q, s),
             UNCHANGED <<key, caller, inFlight>>, requestStage[q] # "none",
             s \in {"run", "store", "unmark"} /\ key[q] # NoKey <=>
                 requestStage[q] \in {"run", "store", "unmark"} /\ key[q] # NoKey,
             s \in {"mark", "wait"} => key[q] # NoKey,
             s = "wait" => inFlight[key[q]] # NoOne, s # "none"
      PROVE  MarkInv' /\ KeysRunAlone' /\ FreshInv'
  <2>1. requestStage'[q] = s
        /\ \A p \in GatewayRequests \ {q} : requestStage'[p] = requestStage[p]
    BY <1>0, <1>3, MoveType
  <2>2. MarkInv'
    BY <1>0, <1>3, <2>1 DEF MarkInv
  <2>3. KeysRunAlone'
    BY <1>0, <1>3, <2>1 DEF KeysRunAlone
  <2>4. FreshInv'
    BY <1>0, <1>3, <2>1 DEF FreshInv
  <2> QED BY <2>2, <2>3, <2>4
<1>4. ASSUME NEW q \in GatewayRequests, GetCachedResponse(q)
      PROVE  MarkInv' /\ KeysRunAlone' /\ FreshInv'
  <2>1. UNCHANGED <<key, caller, inFlight>> /\ requestStage[q] = "look"
    BY <1>4 DEF GetCachedResponse
  <2>2. \/ RequestMoves(q, "run") /\ key[q] = NoKey
        \/ RequestMoves(q, "reply")
        \/ RequestMoves(q, "mark") /\ key[q] # NoKey
    BY <1>4 DEF GetCachedResponse
  <2> QED BY <1>3, <2>1, <2>2 DEF RequestStages, Handled
<1>5. ASSUME NEW q \in GatewayRequests, MarkInFlight(q)
      PROVE  MarkInv' /\ KeysRunAlone' /\ FreshInv'
  <2>1. /\ UNCHANGED <<key, caller>> /\ requestStage[q] = "mark"
        /\ key[q] \in IdempotencyKeys
    BY <1>0, <1>5 DEF MarkInFlight, MarkInv
  <2>2. CASE inFlight[key[q]] = NoOne
    <3>1. /\ RequestMoves(q, "run")
          /\ \A k \in IdempotencyKeys : inFlight'[k] = IF k = key[q] THEN q ELSE inFlight[k]
      BY <1>0, <1>5, <2>2 DEF MarkInFlight
    <3>2. requestStage'[q] = "run"
          /\ \A p \in GatewayRequests \ {q} : requestStage'[p] = requestStage[p]
      BY <1>0, <3>1, MoveType DEF RequestStages, Handled
    <3>3. MarkInv'
      BY <1>0, <2>1, <3>1, <3>2 DEF MarkInv
    <3>4. KeysRunAlone'
      BY <1>0, <2>1, <2>2, <3>1, <3>2 DEF KeysRunAlone
    <3>5. FreshInv'
      BY <1>0, <2>1, <3>2 DEF FreshInv
    <3> QED BY <3>3, <3>4, <3>5
  <2>3. CASE inFlight[key[q]] # NoOne
    <3>1. RequestMoves(q, "wait") /\ UNCHANGED inFlight
      BY <1>5, <2>3 DEF MarkInFlight
    <3> QED BY <1>0, <1>3, <2>1, <2>3, <3>1 DEF RequestStages, Handled
  <2> QED BY <2>2, <2>3
<1>6. ASSUME NEW q \in GatewayRequests, RunHandler(q) \/ CacheResponse(q)
      PROVE  MarkInv' /\ KeysRunAlone' /\ FreshInv'
  <2>1. /\ UNCHANGED <<key, caller, inFlight>> /\ requestStage[q] \in {"run", "store"}
        /\ RequestMoves(q, "store") \/ RequestMoves(q, "unmark")
    BY <1>6 DEF RunHandler, CacheResponse
  <2> QED BY <1>3, <2>1 DEF RequestStages, Handled
<1>7. ASSUME NEW q \in GatewayRequests, Unmark(q)
      PROVE  MarkInv' /\ KeysRunAlone' /\ FreshInv'
  <2>1. UNCHANGED <<key, caller>> /\ requestStage[q] = "unmark"
    BY <1>7 DEF Unmark
  <2>2. CASE key[q] = NoKey
    <3>1. RequestMoves(q, "reply") /\ UNCHANGED inFlight
      BY <1>7, <2>2 DEF Unmark
    <3> QED BY <1>3, <2>1, <2>2, <3>1 DEF RequestStages, Handled
  <2>3. CASE key[q] # NoKey
    <3>1. /\ key[q] \in IdempotencyKeys
          /\ \A k \in IdempotencyKeys : inFlight'[k] = IF k = key[q] THEN NoOne ELSE inFlight[k]
          /\ \A p \in GatewayRequests : requestStage'[p] =
                 IF p = q THEN "reply"
                 ELSE IF requestStage[p] = "wait" /\ key[p] = key[q] THEN "look"
                 ELSE requestStage[p]
      BY <1>0, <1>7, <2>3 DEF Unmark
    <3>2. MarkInv'
      BY <1>0, <2>1, <3>1 DEF MarkInv
    <3>3. KeysRunAlone'
      BY <1>0, <2>1, <2>3, <3>1 DEF KeysRunAlone
    <3>4. FreshInv'
      BY <1>0, <2>1, <3>1 DEF FreshInv
    <3> QED BY <3>2, <3>3, <3>4
  <2> QED BY <2>2, <2>3
<1>8. ASSUME NEW q \in GatewayRequests, Reply(q)
      PROVE  MarkInv' /\ KeysRunAlone' /\ FreshInv'
  <2>1. /\ UNCHANGED <<key, caller, inFlight>> /\ requestStage[q] = "reply"
        /\ RequestMoves(q, "done")
    BY <1>8 DEF Reply
  <2> QED BY <1>3, <2>1 DEF RequestStages
<1>9. ASSUME NEW q \in GatewayRequests, NEW k \in IdempotencyKeys \cup {NoKey},
             HandleRPC(q, k) \/ \E c \in Clients : HandleMessage(c, q, k)
      PROVE  MarkInv' /\ KeysRunAlone' /\ FreshInv'
  <2>1. /\ requestStage[q] = "none" /\ UNCHANGED inFlight
        /\ \A p \in GatewayRequests : key'[p] = IF p = q THEN k ELSE key[p]
        /\ \A p \in GatewayRequests \ {q} : caller'[p] = caller[p]
    BY <1>0, <1>9 DEF HandleRPC, HandleMessage
  <2>2. \E s \in {"refused", "look"} : RequestMoves(q, s)
    BY <1>9 DEF HandleRPC, HandleMessage
  <2>3. /\ requestStage'[q] \in {"refused", "look"}
        /\ \A p \in GatewayRequests \ {q} : requestStage'[p] = requestStage[p]
    BY <1>0, <2>2, MoveType DEF RequestStages, Handled
  <2>4. \A i \in IdempotencyKeys : inFlight[i] # q
    BY <1>0, <2>1 DEF MarkInv, KeysRunAlone
  <2>5. MarkInv'
    BY <1>0, <2>1, <2>3, <2>4 DEF MarkInv
  <2>6. KeysRunAlone'
    BY <1>0, <2>1, <2>3, <2>4 DEF KeysRunAlone
  <2>7. FreshInv'
    BY <1>0, <2>1, <2>3 DEF FreshInv
  <2> QED BY <2>5, <2>6, <2>7
<1>10. ASSUME NEW k \in IdempotencyKeys, ExpireResponse(k)
       PROVE  MarkInv' /\ KeysRunAlone' /\ FreshInv'
  BY <1>1, <1>10 DEF ExpireResponse
<1>11. ASSUME NEW s \in Senders, Broadcast(s) \/ WriteTo(s)
       PROVE  MarkInv' /\ KeysRunAlone' /\ FreshInv'
  BY <1>1, <1>11 DEF Broadcast, WriteTo, WriteEvent, EndBroadcast, routeVars
<1>12. CASE BeginStop \/ Stopping \/ UNCHANGED gatewayVars
  BY <1>1, <1>12 DEF BeginStop, Stopping, WaitForRequests, CloseClients, ShutdownHTTP,
     gatewayVars, routeVars
<1> QED
  BY <1>2, <1>4, <1>5, <1>6, <1>7, <1>8, <1>9, <1>10, <1>11, <1>12
     DEF GatewayNext, Answering

-----------------------------------------------------------------------------
\* Limits: a client's counter follows its requests in hand.
LEMMA LimitsStep == GInv /\ [GatewayNext]_gatewayVars => LimitsAreKept'
<1> SUFFICES ASSUME GInv, [GatewayNext]_gatewayVars PROVE LimitsAreKept'
  OBVIOUS
<1> USE GatewayAssumption
<1>0. /\ TypeInv /\ LimitsAreKept /\ FreshInv
      /\ concurrent \in [Clients -> Nat]
      /\ caller \in [GatewayRequests -> Clients \cup {NoClient}]
      /\ requestStage \in [GatewayRequests -> RequestStages]
  BY DEF GInv, TypeInv, GatewayTypeOK
<1>1. ASSUME UNCHANGED concurrent, \A c \in Clients : InHand(c)' = InHand(c)
      PROVE  LimitsAreKept'
  BY <1>0, <1>1 DEF LimitsAreKept
<1>2. ASSUME UNCHANGED <<caller, concurrent>>,
             \A p \in GatewayRequests : requestStage'[p] \in Handled <=> requestStage[p] \in Handled
      PROVE  LimitsAreKept'
  BY <1>1, <1>2 DEF InHand
<1>3. ASSUME NEW c \in Clients, Connecting(c) PROVE LimitsAreKept'
  BY <1>2, <1>3 DEF Connecting, CheckShutdown, Upgrade, SendAuthChallenge,
     HandleAuthResponse, Disconnect, routeVars
<1>4. ASSUME NEW q \in GatewayRequests,
             GetCachedResponse(q) \/ MarkInFlight(q) \/ RunHandler(q) \/ CacheResponse(q)
             \/ (Unmark(q) /\ key[q] = NoKey)
      PROVE  LimitsAreKept'
  <2>1. UNCHANGED <<caller, concurrent>> /\ requestStage[q] \in Handled
    BY <1>4 DEF GetCachedResponse, MarkInFlight, RunHandler, CacheResponse, Unmark, Handled
  <2>2. \E s \in Handled : RequestMoves(q, s)
    BY <1>4 DEF GetCachedResponse, MarkInFlight, RunHandler, CacheResponse, Unmark, Handled
  <2>3. \A p \in GatewayRequests : requestStage'[p] \in Handled <=> requestStage[p] \in Handled
    BY <1>0, <2>1, <2>2, MoveType DEF RequestStages
  <2> QED BY <1>2, <2>1, <2>3
<1>5. ASSUME NEW q \in GatewayRequests, Unmark(q), key[q] # NoKey PROVE LimitsAreKept'
  <2>1. UNCHANGED <<caller, concurrent>> /\ requestStage[q] = "unmark"
    BY <1>5 DEF Unmark
  <2>2. \A p \in GatewayRequests : requestStage'[p] =
            IF p = q THEN "reply"
            ELSE IF requestStage[p] = "wait" /\ key[p] = key[q] THEN "look"
            ELSE requestStage[p]
    BY <1>5 DEF Unmark
  <2> QED BY <1>2, <2>1, <2>2 DEF Handled
<1>6. ASSUME NEW q \in GatewayRequests, Reply(q) PROVE LimitsAreKept'
  <2>1. /\ requestStage[q] = "reply" /\ RequestMoves(q, "done") /\ UNCHANGED caller
        /\ concurrent' = IF caller[q] = NoClient THEN concurrent
                         ELSE [concurrent EXCEPT ![caller[q]] = @ - 1]
    BY <1>6 DEF Reply
  <2>2. /\ requestStage'[q] = "done"
        /\ \A p \in GatewayRequests \ {q} : requestStage'[p] = requestStage[p]
    BY <1>0, <2>1, MoveType DEF RequestStages
  <2>3. \A d \in Clients : InHand(d)' = InHand(d) \ {q}
    BY <2>1, <2>2 DEF InHand, Handled
  <2>4. \A d \in Clients : d # caller[q] => InHand(d)' = InHand(d) /\ concurrent'[d] = concurrent[d]
    BY <1>0, <2>1, <2>3 DEF InHand
  <2>5. ASSUME NEW d \in Clients, d = caller[q]
        PROVE  /\ Cardinality(InHand(d)') = Cardinality(InHand(d)) - 1
               /\ concurrent'[d] = concurrent[d] - 1
    <3>1. q \in InHand(d)
      BY <2>1, <2>5 DEF InHand, Handled
    <3> QED BY <1>0, <2>1, <2>3, <2>5, <3>1, InHandFinite, FS_RemoveElement, SMTT(30)
  <2> QED BY <1>0, <2>4, <2>5, InHandFinite DEF LimitsAreKept
<1>7. ASSUME NEW q \in GatewayRequests, NEW k \in IdempotencyKeys \cup {NoKey},
             HandleRPC(q, k)
      PROVE  LimitsAreKept'
  <2>1. /\ UNCHANGED <<caller, concurrent>> /\ caller[q] = NoClient
        /\ \E s \in {"refused", "look"} : RequestMoves(q, s)
    BY <1>0, <1>7 DEF HandleRPC, FreshInv
  <2>2. \A p \in GatewayRequests \ {q} : requestStage'[p] = requestStage[p]
    BY <1>0, <2>1, MoveType DEF RequestStages, Handled
  <2> QED BY <1>1, <2>1, <2>2 DEF InHand
<1>8. ASSUME NEW q \in GatewayRequests, NEW k \in IdempotencyKeys \cup {NoKey},
             NEW c \in Clients, HandleMessage(c, q, k)
      PROVE  LimitsAreKept'
  <2>1. /\ requestStage[q] = "none" /\ caller[q] = NoClient
        /\ \A p \in GatewayRequests : caller'[p] = IF p = q THEN c ELSE caller[p]
    BY <1>0, <1>8 DEF HandleMessage, FreshInv
  <2>2. CASE RequestMoves(q, "refused") /\ UNCHANGED concurrent
    <3>1. /\ requestStage'[q] = "refused"
          /\ \A p \in GatewayRequests \ {q} : requestStage'[p] = requestStage[p]
      BY <1>0, <2>2, MoveType DEF RequestStages
    <3> QED BY <1>1, <2>1, <2>2, <3>1 DEF InHand, Handled
  <2>3. CASE /\ CheckRequestAllowed(c) /\ RequestMoves(q, "look")
             /\ concurrent' = [concurrent EXCEPT ![c] = @ + 1]
    <3>1. /\ requestStage'[q] = "look"
          /\ \A p \in GatewayRequests \ {q} : requestStage'[p] = requestStage[p]
      BY <1>0, <2>3, MoveType DEF RequestStages, Handled
    <3>2. \A d \in Clients \ {c} : InHand(d)' = InHand(d)
      BY <2>1, <3>1 DEF InHand, Handled
    <3>3. InHand(c)' = InHand(c) \cup {q} /\ q \notin InHand(c)
      BY <2>1, <3>1 DEF InHand, Handled
    <3>4. Cardinality(InHand(c)') = Cardinality(InHand(c)) + 1
      BY <3>3, InHandFinite, FS_AddElement
    <3>5. concurrent'[c] = concurrent[c] + 1 /\ concurrent[c] < MaxConcurrent
          /\ \A d \in Clients \ {c} : concurrent'[d] = concurrent[d]
      BY <1>0, <2>3 DEF CheckRequestAllowed
    <3> QED BY <1>0, <3>2, <3>4, <3>5, InHandFinite DEF LimitsAreKept
  <2> QED BY <1>8, <2>2, <2>3 DEF HandleMessage
<1>9. ASSUME NEW k \in IdempotencyKeys, ExpireResponse(k) PROVE LimitsAreKept'
  BY <1>2, <1>9 DEF ExpireResponse
<1>10. ASSUME NEW s \in Senders, Broadcast(s) \/ WriteTo(s) PROVE LimitsAreKept'
  BY <1>2, <1>10 DEF Broadcast, WriteTo, WriteEvent, EndBroadcast, routeVars
<1>11. CASE BeginStop \/ Stopping \/ UNCHANGED gatewayVars
  BY <1>2, <1>11 DEF BeginStop, Stopping, WaitForRequests, CloseClients, ShutdownHTTP,
     gatewayVars, routeVars
<1> QED
  BY <1>3, <1>4, <1>5, <1>6, <1>7, <1>8, <1>9, <1>10, <1>11 DEF GatewayNext, Answering

-----------------------------------------------------------------------------
\* Every step keeps every variable in its type.
LEMMA TypeStep == GInv /\ [GatewayNext]_gatewayVars => TypeInv'
<1> SUFFICES ASSUME GInv, [GatewayNext]_gatewayVars PROVE TypeInv'
  OBVIOUS
<1> USE GatewayAssumption
<1>0. /\ TypeInv /\ MarkInv /\ EventInv'
  BY EventsStep DEF GInv
<1>1. ASSUME NEW c \in Clients, Connecting(c) PROVE TypeInv'
  BY <1>0, <1>1 DEF TypeInv, GatewayTypeOK, Connecting, CheckShutdown, Upgrade,
     SendAuthChallenge, HandleAuthResponse, Disconnect, Relink, routeVars, eventVars, linkVars
<1>2. ASSUME NEW q \in GatewayRequests,
             GetCachedResponse(q) \/ RunHandler(q) \/ CacheResponse(q)
      PROVE  TypeInv'
  BY <1>0, <1>2 DEF TypeInv, GatewayTypeOK, GetCachedResponse, RunHandler,
     CacheResponse, RequestMoves, RequestStages, Handled, eventVars, linkVars
<1>3. ASSUME NEW q \in GatewayRequests, MarkInFlight(q) PROVE TypeInv'
  BY <1>0, <1>3 DEF TypeInv, GatewayTypeOK, MarkInv, MarkInFlight, RequestMoves,
     RequestStages, Handled, eventVars, linkVars
<1>4. ASSUME NEW q \in GatewayRequests, Unmark(q) PROVE TypeInv'
  BY <1>0, <1>4 DEF TypeInv, GatewayTypeOK, Unmark, RequestMoves, RequestStages, Handled,
     eventVars, linkVars
<1>5. ASSUME NEW q \in GatewayRequests, Reply(q) PROVE TypeInv'
  <2>1. concurrent' \in [Clients -> Nat]
    <3>1. \A c \in Clients : caller[q] = c => concurrent[c] - 1 \in Nat
      <4> SUFFICES ASSUME NEW c \in Clients, caller[q] = c PROVE concurrent[c] - 1 \in Nat
        OBVIOUS
      <4>1. q \in InHand(c)
        BY <1>5 DEF Reply, InHand, Handled
      <4>2. Cardinality(InHand(c)) # 0
        BY <4>1, InHandFinite, FS_EmptySet
      <4>3. concurrent[c] = Cardinality(InHand(c))
        BY DEF GInv, LimitsAreKept
      <4> QED BY <4>2, <4>3, InHandFinite
    <3> QED BY <1>0, <1>5, <3>1 DEF TypeInv, GatewayTypeOK, Reply
  <2>2. requestStage' \in [GatewayRequests -> RequestStages]
    BY <1>0, <1>5, MoveType DEF Reply, RequestStages
  <2> QED BY <1>0, <1>5, <2>1, <2>2 DEF TypeInv, GatewayTypeOK, Reply, eventVars, linkVars
<1>6. ASSUME NEW q \in GatewayRequests, NEW k \in IdempotencyKeys \cup {NoKey},
             HandleRPC(q, k)
      PROVE  TypeInv'
  BY <1>0, <1>6 DEF TypeInv, GatewayTypeOK, HandleRPC, RequestMoves, RequestStages, Handled,
     eventVars, linkVars
<1>7. ASSUME NEW q \in GatewayRequests, NEW k \in IdempotencyKeys \cup {NoKey},
             NEW c \in Clients, HandleMessage(c, q, k)
      PROVE  TypeInv'
  BY <1>0, <1>7 DEF TypeInv, GatewayTypeOK, HandleMessage, RequestMoves, RequestStages,
     Handled, eventVars, linkVars
<1>8. ASSUME NEW k \in IdempotencyKeys, ExpireResponse(k) PROVE TypeInv'
  BY <1>0, <1>8 DEF TypeInv, GatewayTypeOK, ExpireResponse, eventVars, linkVars
<1>9. ASSUME NEW s \in Senders, Broadcast(s) PROVE TypeInv'
  <2>1. toWrite' \in [Senders -> SUBSET Clients]
    BY <1>0, <1>9 DEF TypeInv, Broadcast, Authenticated, Registered
  <2> QED BY <1>0, <1>9, <2>1 DEF TypeInv, GatewayTypeOK, Broadcast, routeVars, linkVars
<1>10. ASSUME NEW s \in Senders, NEW c \in Clients, WriteEvent(s, c) PROVE TypeInv'
  <2>1. /\ toWrite' \in [Senders -> SUBSET Clients] /\ seen' \in [Clients -> Nat]
        /\ UNCHANGED <<seq, stopping, linkVars, routeVars, writing>>
    BY <1>0, <1>10 DEF TypeInv, WriteEvent
  <2>2. seen' \in [Clients -> 0..(MaxEvents + 1)]
    BY <1>0, <2>1 DEF EventInv, TypeInv
  <2> QED BY <1>0, <2>1, <2>2 DEF TypeInv, GatewayTypeOK, routeVars, linkVars
<1>11. ASSUME NEW s \in Senders, EndBroadcast(s) PROVE TypeInv'
  BY <1>0, <1>11 DEF TypeInv, GatewayTypeOK, EndBroadcast, routeVars, linkVars
<1>12. CASE BeginStop \/ Stopping
  BY <1>0, <1>12 DEF TypeInv, GatewayTypeOK, BeginStop, Stopping, WaitForRequests,
     CloseClients, ShutdownHTTP, Registered, routeVars, linkVars, eventVars
<1>13. CASE UNCHANGED gatewayVars
  BY <1>0, <1>13 DEF TypeInv, GatewayTypeOK, gatewayVars, routeVars, linkVars, eventVars
<1> QED
  BY <1>1, <1>2, <1>3, <1>4, <1>5, <1>6, <1>7, <1>8, <1>9, <1>10, <1>11, <1>12, <1>13
     DEF GatewayNext, Answering, WriteTo

-----------------------------------------------------------------------------
\* The invariant holds throughout every behaviour of the gateway, fair or not.
THEOREM Inductive == GatewaySpec => []GInv
<1>1. GatewayInit => GInv
  BY InitGInv
<1>2. GInv /\ [GatewayNext]_gatewayVars => GInv'
  BY TypeStep, KeysStep, LimitsStep, EventsStep DEF GInv
<1> QED BY <1>1, <1>2, PTL DEF GatewaySpec

\* The gateway's variables keep their types; in particular a client's counter
\* never goes below zero and no number is drawn after that of Stop's event.
THEOREM GatewayTypeCorrect == GatewaySpec => []GatewayTypeOK
<1>1. GInv => GatewayTypeOK
  BY DEF GInv, TypeInv
<1> QED BY <1>1, Inductive, PTL

\* However many clients send however many requests with the same keys, the
\* handlers of one key run one after another, who waits for a key waits for a
\* request that will wake it, and a client's counter is exact and bounded.
THEOREM RequestsAreOrderlyHolds == GatewaySpec => []RequestsAreOrderly
<1>1. GInv => RequestsAreOrderly
  BY DEF GInv, RequestsAreOrderly
<1> QED BY <1>1, Inductive, PTL

\* Every client sees its events in the order of their numbers, whoever sends.
THEOREM EventsAreInOrderHolds == GatewaySpec => EventsAreInOrder
<1>1. GInv /\ [GatewayNext]_gatewayVars =>
        [\A c \in Clients : seen'[c] # seen[c] => seen'[c] > seen[c]]_gatewayVars
  <2> SUFFICES ASSUME GInv, [GatewayNext]_gatewayVars, NEW c \in Clients, seen'[c] # seen[c]
               PROVE  seen'[c] > seen[c]
    OBVIOUS
  <2>1. PICK s \in Senders, d \in Clients : WriteEvent(s, d)
    BY DEF GatewayNext, Connecting, CheckShutdown, Upgrade, SendAuthChallenge,
       HandleAuthResponse, Disconnect, Answering, GetCachedResponse, MarkInFlight,
       RunHandler, CacheResponse, Unmark, Reply, HandleRPC, HandleMessage, ExpireResponse,
       Broadcast, WriteTo, EndBroadcast, BeginStop, Stopping, WaitForRequests,
       CloseClients, ShutdownHTTP, gatewayVars, eventVars
  <2>2. /\ seen \in [Clients -> Nat] /\ writing \in [Senders -> Nat] /\ seq \in Nat
        /\ toWrite \in [Senders -> SUBSET Clients]
    BY DEF GInv, TypeInv
  <2>3. c = d /\ seen'[c] = writing[s] /\ c \in toWrite[s] /\ writing[s] # 0
    BY <2>1, <2>2 DEF WriteEvent
  <2> QED BY <2>2, <2>3 DEF GInv, EventInv
<1> QED BY <1>1, Inductive, PTL DEF GatewaySpec, EventsAreInOrder
=============================================================================

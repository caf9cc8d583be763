------------------------------ MODULE Routing ------------------------------
(***************************************************************************)
(* Routes, pkg/routing: which agent gets a message.  Of the enabled routes *)
(* that match, those with the most specific binding are put in a priority  *)
(* queue, which gives the one of the highest priority.  There is one       *)
(* priority queue for all messages, and messages of several sessions are   *)
(* resolved at a time: each call of the queue has a lock of its own.       *)
(*                                                                         *)
(* Deliver is RoutingService.deliverWithFallback.  Routes are kept in a    *)
(* file, which a loop saves, and Stop; they are edited and resolved also   *)
(* before Start and after Stop, which nothing asks for.  Whether a route   *)
(* matches, and how specific its binding is, are facts of message and      *)
(* route; conditions never hold, as Evaluate looks for keys that           *)
(* isRouteEligible does not set.                                           *)
(***************************************************************************)
EXTENDS Naturals, Sequences, FiniteSets, SequencesExt, FiniteSetsExt

CONSTANTS
    Routes,         \* their IDs
    Resolves,       \* calls of ResolveRoute
    Priorities,
    Fallbacks,      \* bound: the lists of fallbacks that routes have
    MaxFallbackDepth,
    MaxRouteEdits   \* bound: routes that are added or removed

ASSUME RoutingAssumption ==
    /\ IsFiniteSet(Routes)
    /\ \A list \in Fallbacks : list \in Seq(Routes)
    /\ {MaxFallbackDepth, MaxRouteEdits} \subseteq Nat

NoRoute == [known |-> FALSE, enabled |-> FALSE, priority |-> 0, fallbacks |-> <<>>]
Nothing == "nothing"

VARIABLES
    routes,     \* RouteManager.routes
    routeEdits,
    bindingRank,\* per call and route: 0 if it does not match
    resolveAt,  \* per call "idle", "clear", "push", "pop" or "resolved"
    ranked,     \* the routes it found best bound, and has yet to enqueue
    best,       \* history: all of them
    queued,     \* RoutingService.priorityQueue: a set of <<call, route>>
    selected,   \* what it dequeued
    alone,      \* history: whether no other call was under way meanwhile
    frames,     \* a delivery's calls of tryFallback: what each has still to try
    delivered,  \* history: how often a handler succeeded for it
    routeFile,  \* the file
    routeSaver, \* the lists that the loop, or Stop, is about to save: none, or one
    shared,     \* the routes in it that are the table's own: the list is of pointers
    loading,    \* the routes of the file that Start has yet to add
    routing,    \* "new", "loading", "started", "stopping", "stopped" or, if Stop
                \* could not save, "unsaved"
    late        \* history: whether a route was edited after Stop had made its list

resolveVars == <<bindingRank, resolveAt, ranked, best, queued, selected, alone>>
deliveryVars == <<frames, delivered>>
diskVars == <<routeFile, loading, routing>>
fileVars == <<routeSaver, shared, diskVars, late>>
routingVars == <<routes, routeEdits, resolveVars, deliveryVars, fileVars>>

RoutingInit ==
    /\ routes = [r \in Routes |-> NoRoute] /\ routeEdits = 0
    /\ bindingRank \in [Resolves \X Routes -> 0..2]
    /\ resolveAt = [q \in Resolves |-> "idle"]
    /\ ranked = [q \in Resolves |-> {}] /\ best = ranked
    /\ queued = {} /\ selected = [q \in Resolves |-> Nothing]
    /\ alone = [q \in Resolves |-> TRUE]
    /\ frames = <<>> /\ delivered = 0
    /\ routeFile = routes /\ routeSaver = <<>> /\ shared = {} /\ loading = {}
    /\ routing = "new" /\ late = FALSE

Known == {r \in Routes : routes[r].known}
Enabled == {r \in Routes : routes[r].enabled}
ToSetOf(r) == ToSet(routes[r].fallbacks)

\* The routes that a delivery by r may come to.
Reach[n \in 0..Cardinality(Routes)] ==
    [r \in Routes |-> IF n = 0 THEN ToSetOf(r)
                      ELSE Reach[n - 1][r] \cup UNION {Reach[n - 1][f] : f \in ToSetOf(r)}]

\* detectCircularFallbacks, of a route with these fallbacks.
Circular(r, fallbacks) ==
    \E f \in ToSet(fallbacks) : f = r \/ r \in Reach[Cardinality(Routes)][f]

-----------------------------------------------------------------------------
SetRoute(r, route) ==
    /\ routes' = [routes EXCEPT ![r] = route]
    /\ late' = (routing \in {"stopping", "stopped", "unsaved"})

\* Variant: the fallbacks are not followed.
AddRouteUnchecked(r, route) ==
    /\ ~routes[r].known /\ routeEdits < MaxRouteEdits
    /\ r \notin ToSet(route.fallbacks)
    /\ SetRoute(r, route) /\ routeEdits' = routeEdits + 1
    /\ UNCHANGED <<routeSaver, shared, diskVars, resolveVars, deliveryVars>>

\* What is not valid, or there already, is refused.
AddRoute(r, route) ==
    /\ ~routes[r].known /\ routeEdits < MaxRouteEdits
    /\ ~Circular(r, route.fallbacks)
    /\ SetRoute(r, route) /\ routeEdits' = routeEdits + 1
    /\ UNCHANGED <<routeSaver, shared, diskVars, resolveVars, deliveryVars>>

RemoveRoute(r) ==
    /\ routes[r].known /\ routeEdits < MaxRouteEdits
    /\ SetRoute(r, NoRoute) /\ routeEdits' = routeEdits + 1
    /\ shared' = shared \ {r}
    /\ UNCHANGED <<routeSaver, diskVars, resolveVars, deliveryVars>>

\* A route is changed in its place, and so in a list that has it.
ChangeRoute(r, route) ==
    /\ routes[r].known /\ routes[r] # route /\ SetRoute(r, route)
    /\ routeSaver' = IF r \in shared THEN <<[routeSaver[1] EXCEPT ![r] = route]>>
                     ELSE routeSaver
    /\ UNCHANGED <<routeEdits, shared, diskVars, resolveVars, deliveryVars>>

SetEnabled(r, on) == ChangeRoute(r, [routes[r] EXCEPT !.enabled = on])
UpdatePriority(r, p) == ChangeRoute(r, [routes[r] EXCEPT !.priority = p])

-----------------------------------------------------------------------------
Resolving == {q \in Resolves : resolveAt[q] \in {"clear", "push", "pop"}}
ResolveGoes(q, at) == resolveAt' = [resolveAt EXCEPT ![q] = at]

\* collectEligibleRoutes, and those of the highest bindingPrecedenceScore.
BestBound(q) ==
    {r \in Enabled : /\ bindingRank[<<q, r>>] > 0
                     /\ \A o \in Enabled : bindingRank[<<q, o>>] <= bindingRank[<<q, r>>]}

\* ResolveRoute, up to its use of the queue.
RankRoutes(q) ==
    /\ resolveAt[q] = "idle"
    /\ ranked' = [ranked EXCEPT ![q] = BestBound(q)]
    /\ best' = [best EXCEPT ![q] = BestBound(q)]
    /\ ResolveGoes(q, IF BestBound(q) = {} THEN "resolved" ELSE "clear")
    /\ alone' = [o \in Resolves |-> IF o = q THEN Resolving = {}
                                    ELSE alone[o] /\ o \notin Resolving]
    /\ UNCHANGED <<routes, routeEdits, bindingRank, queued, selected, deliveryVars, fileVars>>

ClearQueue(q) ==
    /\ resolveAt[q] = "clear" /\ ResolveGoes(q, "push") /\ queued' = {}
    /\ UNCHANGED <<routes, routeEdits, bindingRank, ranked, best, selected, alone,
                   deliveryVars, fileVars>>

EnqueueRoute(q, r) ==
    /\ resolveAt[q] = "push" /\ r \in ranked[q]
    /\ queued' = queued \cup {<<q, r>>} /\ ranked' = [ranked EXCEPT ![q] = @ \ {r}]
    /\ ResolveGoes(q, IF ranked[q] = {r} THEN "pop" ELSE "push")
    /\ UNCHANGED <<routes, routeEdits, bindingRank, best, selected, alone, deliveryVars,
                   fileVars>>

\* Aging is a matter of seconds; among equals it is the first, in any order.
DequeueRoute(q) ==
    /\ resolveAt[q] = "pop" /\ ResolveGoes(q, "resolved")
    /\ \/ queued = {} /\ UNCHANGED <<queued, selected>>
       \/ \E e \in queued :
              /\ \A o \in queued : routes[o[2]].priority <= routes[e[2]].priority
              /\ queued' = queued \ {e} /\ selected' = [selected EXCEPT ![q] = e[2]]
    /\ UNCHANGED <<routes, routeEdits, bindingRank, ranked, best, alone, deliveryVars, fileVars>>

-----------------------------------------------------------------------------
\* Route delivers by a route; a handler that fails, or is not there, has the
\* fallbacks tried, in their order, and theirs, at most to a depth.
Deliver(r) ==
    /\ frames = <<>> /\ r \in Enabled
    /\ \/ delivered' = 1 /\ UNCHANGED frames
       \/ delivered' = 0 /\ frames' = <<routes[r].fallbacks>>
    /\ UNCHANGED <<routes, routeEdits, resolveVars, fileVars>>

\* A fallback that is gone, disabled or too deep is passed over.
TryFallback ==
    /\ frames # <<>> /\ Last(frames) # <<>>
    /\ LET r == Head(Last(frames))
           rest == Append(Front(frames), Tail(Last(frames)))
       IN  IF r \notin Enabled \/ Len(frames) >= MaxFallbackDepth
           THEN frames' = rest /\ UNCHANGED delivered
           ELSE \/ frames' = <<>> /\ delivered' = delivered + 1
                \/ frames' = Append(rest, routes[r].fallbacks) /\ UNCHANGED delivered
    /\ UNCHANGED <<routes, routeEdits, resolveVars, fileVars>>

\* None is left: the default handler, of whatever depth, may succeed.
DefaultFallback ==
    /\ frames # <<>> /\ Last(frames) = <<>>
    /\ \/ frames' = <<>> /\ delivered' = delivered + 1
       \/ frames' = Front(frames) /\ UNCHANGED delivered
    /\ UNCHANGED <<routes, routeEdits, resolveVars, fileVars>>

-----------------------------------------------------------------------------
StartRouting ==
    /\ routing = "new" /\ routing' = "loading"
    /\ loading' = {r \in Routes : routeFile[r].known}
    /\ UNCHANGED <<routes, routeEdits, resolveVars, deliveryVars, routeFile, routeSaver,
                   shared, late>>

\* Each is added as AddRoute does, in any order, and skipped if that fails.
LoadRoute(r) ==
    /\ r \in loading /\ loading' = loading \ {r}
    /\ routes' = IF routes[r].known \/ Circular(r, routeFile[r].fallbacks) THEN routes
                 ELSE [routes EXCEPT ![r] = routeFile[r]]
    /\ UNCHANGED <<routeEdits, resolveVars, deliveryVars, routeFile, routeSaver, shared,
                   routing, late>>

RoutesLoaded ==
    /\ routing = "loading" /\ loading = {} /\ routing' = "started"
    /\ UNCHANGED <<routes, routeEdits, resolveVars, deliveryVars, routeFile, routeSaver,
                   shared, loading, late>>

\* autoSaveLoop makes the list first, and then saves it ...
ListForSave ==
    /\ routing = "started" /\ routeSaver = <<>>
    /\ routeSaver' = <<routes>> /\ shared' = Known
    /\ UNCHANGED <<routes, routeEdits, resolveVars, deliveryVars, diskVars, late>>

\* ... and so does Stop, when the loop has ended.
StopRouting ==
    /\ routing = "started" /\ routeSaver = <<>> /\ routing' = "stopping"
    /\ routeSaver' = <<routes>> /\ shared' = Known
    /\ UNCHANGED <<routes, routeEdits, resolveVars, deliveryVars, routeFile, loading, late>>

\* It is written, or three attempts fail.
SaveRoutes ==
    /\ routeSaver # <<>> /\ routeSaver' = <<>> /\ shared' = {}
    /\ \/ /\ routeFile' = routeSaver[1]
          /\ routing' = IF routing = "stopping" THEN "stopped" ELSE routing
       \/ /\ UNCHANGED routeFile
          /\ routing' = IF routing = "stopping" THEN "unsaved" ELSE routing
    /\ UNCHANGED <<routes, routeEdits, resolveVars, deliveryVars, loading, late>>

\* The process ends, and a new one begins with the file.
RestartRouting ==
    /\ routing' = "new" /\ routeSaver' = <<>> /\ shared' = {} /\ loading' = {}
    /\ routes' = [r \in Routes |-> NoRoute] /\ late' = FALSE
    /\ resolveAt' = [q \in Resolves |-> IF q \in Resolving THEN "resolved" ELSE resolveAt[q]]
    /\ queued' = {} /\ frames' = <<>>
    /\ UNCHANGED <<routeEdits, bindingRank, ranked, best, selected, alone, delivered,
                   routeFile>>

ResolveStep(q) ==
    \/ RankRoutes(q) \/ ClearQueue(q) \/ DequeueRoute(q) \/ \E r \in Routes : EnqueueRoute(q, r)
DeliveryStep == TryFallback \/ DefaultFallback

RoutingNext ==
    \/ \E r \in Routes : \/ \E route \in [known : {TRUE}, enabled : {TRUE},
                                          priority : Priorities, fallbacks : Fallbacks] :
                                AddRoute(r, route)
                         \/ RemoveRoute(r)
                         \/ \E on \in BOOLEAN : SetEnabled(r, on)
                         \/ \E p \in Priorities : UpdatePriority(r, p)
                         \/ Deliver(r) \/ LoadRoute(r)
    \/ (\E q \in Resolves : ResolveStep(q)) \/ DeliveryStep
    \/ StartRouting \/ RoutesLoaded \/ ListForSave \/ SaveRoutes \/ StopRouting \/ RestartRouting

\* A handler has a time to return in.
RoutingFairness == WF_routingVars(DeliveryStep)

RoutingSpec == RoutingInit /\ [][RoutingNext]_routingVars /\ RoutingFairness

-----------------------------------------------------------------------------
\* No chain of fallbacks comes back to where it began, of the routes that are
\* loaded and so of those in the file, in whichever order routes came and went;
\* a message is delivered once at most; a call that has the queue for itself
\* gets one of the best routes; after a Stop that could save, the file holds all
\* there was when Stop made its list, also if the loop was saving, and so all there
\* is but for later edits.
RoutesAreSound ==
    /\ \A r \in Routes : r \notin Reach[Cardinality(Routes)][r]
    /\ delivered <= 1
    /\ \A q \in Resolves : resolveAt[q] = "resolved" /\ alone[q] =>
           selected[q] \in best[q] \cup {Nothing}
    /\ routing = "stopped" /\ ~late => routeFile = routes

\* A delivery ends, whatever becomes of the routes meanwhile.
DeliveryAtWork == frames # <<>>
DeliveriesEnd == DeliveryAtWork ~> ~DeliveryAtWork

=============================================================================

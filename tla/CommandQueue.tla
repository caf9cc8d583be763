---------------------------- MODULE CommandQueue ----------------------------
(***************************************************************************)
(* The lane-based command queue, pkg/commandqueue (queue.go, dedup.go).    *)
(*                                                                         *)
(* One element of Calls is one call of EnqueueWithContext together with    *)
(* the task record it creates.  Three kinds of goroutine interleave here:  *)
(*   - the caller (pc), from the lookup in the request cache to the        *)
(*     caching of the reply;                                               *)
(*   - processLane, spawned any number of times per lane (spawned) and     *)
(*     holding ls.mu for its whole loop (processing);                      *)
(*   - executeTask (exec), one per started record.                         *)
(* An action is the code between two points where another goroutine can    *)
(* be observed: a section under ls.mu, a channel operation, a spawn.       *)
(*                                                                         *)
(* Lanes exist from the start: a lane that initLane has not created yet    *)
(* and one it has created with an empty queue cannot be told apart.        *)
(* Logging, tracing, metrics, event handlers and the warning timer change  *)
(* none of this state and are left out.                                    *)
(***************************************************************************)
EXTENDS Naturals, Sequences, FiniteSets, Functions

CONSTANTS
    Calls,        \* calls of EnqueueWithContext
    Lanes,        \* lane names
    Requests,     \* request IDs
    NoRequest,    \* the empty request ID: the call is not deduplicated
    NoCall,       \* stands for "no call" in Parent
    LaneOf,       \* the lane of each call
    RequestOf,    \* the request ID of each call, or NoRequest
    Parent,       \* the call whose task makes this call, or NoCall
    Concurrency,  \* the concurrency each lane is created with
    Slots,        \* capacity of the global semaphore (100 in New)
    MaxConc,      \* bound: the largest concurrency SetConcurrency is given
    MaxOps        \* bound: the owner's operations (reset, clear, set, close)

ASSUME CallsAssumption == IsFiniteSet(Calls) /\ NoCall \notin Calls
ASSUME LanesAssumption ==
    /\ LaneOf \in [Calls -> Lanes]
    /\ RequestOf \in [Calls -> Requests \cup {NoRequest}]
    /\ NoRequest \notin Requests
    /\ Parent \in [Calls -> Calls \cup {NoCall}]
ASSUME BoundsAssumption ==
    /\ Concurrency \in [Lanes -> Nat \ {0}]
    /\ Slots \in Nat \ {0}
    /\ MaxConc \in Nat \ {0}
    /\ MaxOps \in Nat

VARIABLES
    pc,           \* caller: program counter of each call
    gen,          \* record.generation, read before the record is queued
    result,       \* what the record's result channel was sent, or Pending
    sends,        \* how often the record's result channel was sent to
    reply,        \* what the call returned to its caller, or Pending
    exec,         \* executeTask: program counter of each record's goroutine
    queue,        \* laneState.queue
    generation,   \* laneState.generation
    concurrency,  \* laneState.concurrency
    running,      \* laneState.running
    activeIDs,    \* laneState.activeIDs
    spawned,      \* processLane goroutines that have not taken ls.mu yet
    processing,   \* lanes whose ls.mu a processLane goroutine holds
    slots,        \* records whose token is in the global semaphore
    cache,        \* dedupCache.entries, Pending where there is none
    closing,      \* progress of Close
    ops,          \* operations of the owner made so far
    lapsed,       \* history: requests whose entry in the cache has expired
    beside        \* history: per call, the calls of its request that were on
                  \* their way when it found nothing in the cache

callerVars == <<pc, gen, reply>>
recordVars == <<result, sends, exec>>
laneVars   == <<queue, generation, concurrency, running, activeIDs>>
schedVars  == <<spawned, processing, slots>>
dedupHistory == <<lapsed, beside>>
vars == <<callerVars, recordVars, laneVars, schedVars, cache, closing, ops,
          dedupHistory>>

-----------------------------------------------------------------------------
Pending    == "pending"
Rejections == {"restarted", "cleared", "reset"}

\* "returned" is whatever the task returned, value and error: the queue hands
\* both on, and caches both, without looking at them.
Replies    == Rejections \cup {"returned"}

PCs   == {"idle", "missed", "stamped", "queued", "waiting", "replied", "done"}
Execs == {"none", "run", "ran", "updated", "sent", "spawned", "done"}

\* ls.mu is free: every other critical section on a lane is one action.
Unlocked(l) == l \notin processing

\* Records with an executeTask goroutine that still counts in ls.running.
Active(l) == {c \in Calls : LaneOf[c] = l /\ exec[c] \in {"run", "ran"}}

\* Goroutines that Close waits for: wg.Add before executeTask, wg.Done last.
Executing == {c \in Calls : exec[c] \notin {"none", "done"}}

InQueue(c) == c \in Range(queue[LaneOf[c]])
Children(c) == {d \in Calls : Parent[d] = c}

\* The other calls that carry the request ID of a call.
Twins(c) == {d \in Calls \ {c} :
                RequestOf[c] # NoRequest /\ RequestOf[d] = RequestOf[c]}

Init ==
    /\ pc = [c \in Calls |-> "idle"]
    /\ gen = [c \in Calls |-> 0]
    /\ result = [c \in Calls |-> Pending]
    /\ sends = [c \in Calls |-> 0]
    /\ reply = [c \in Calls |-> Pending]
    /\ exec = [c \in Calls |-> "none"]
    /\ queue = [l \in Lanes |-> <<>>]
    /\ generation = [l \in Lanes |-> 0]
    /\ concurrency = Concurrency
    /\ running = [l \in Lanes |-> 0]
    /\ activeIDs = [l \in Lanes |-> {}]
    /\ spawned = [l \in Lanes |-> 0]
    /\ processing = {}
    /\ slots = {}
    /\ cache = [r \in Requests |-> Pending]
    /\ closing = "open"
    /\ ops = 0
    /\ lapsed = {}
    /\ beside = [c \in Calls |-> {}]

-----------------------------------------------------------------------------
\* The caller.

\* EnqueueWithContext up to the lookup in dedupCache.  A call made by a task
\* happens while that task runs.
Lookup(c) ==
    /\ pc[c] = "idle"
    /\ Parent[c] # NoCall => exec[Parent[c]] = "run"
    /\ LET hit == RequestOf[c] # NoRequest /\ cache[RequestOf[c]] # Pending
       IN  /\ pc' = [pc EXCEPT ![c] = IF hit THEN "done" ELSE "missed"]
           /\ reply' = [reply EXCEPT ![c] =
                          IF hit THEN cache[RequestOf[c]] ELSE Pending]
           /\ beside' = [beside EXCEPT ![c] =
                  IF hit THEN {}
                  ELSE {d \in Twins(c) : pc[d] \notin {"idle", "done"}}]
    /\ UNCHANGED <<gen, recordVars, laneVars, schedVars, cache, closing, ops,
                   lapsed>>

\* The first of two critical sections: the record is given the generation.
ReadGeneration(c) ==
    /\ pc[c] = "missed"
    /\ Unlocked(LaneOf[c])
    /\ gen' = [gen EXCEPT ![c] = generation[LaneOf[c]]]
    /\ pc' = [pc EXCEPT ![c] = "stamped"]
    /\ UNCHANGED <<reply, recordVars, laneVars, schedVars, cache, closing, ops,
                   dedupHistory>>

\* The second: the record is queued, whatever happened since the first.
AppendRecord(c) ==
    /\ pc[c] = "stamped"
    /\ Unlocked(LaneOf[c])
    /\ queue' = [queue EXCEPT ![LaneOf[c]] = Append(@, c)]
    /\ pc' = [pc EXCEPT ![c] = "queued"]
    /\ UNCHANGED <<gen, reply, recordVars, generation, concurrency, running,
                   activeIDs, schedVars, cache, closing, ops, dedupHistory>>

\* After the "enqueued" handlers returned: go cq.processLane(lane).
SpawnProcessLane(c) ==
    /\ pc[c] = "queued"
    /\ spawned' = [spawned EXCEPT ![LaneOf[c]] = @ + 1]
    /\ pc' = [pc EXCEPT ![c] = "waiting"]
    /\ UNCHANGED <<gen, reply, recordVars, laneVars, processing, slots, cache,
                   closing, ops, dedupHistory>>

\* result := <-record.result
ReceiveResult(c) ==
    /\ pc[c] = "waiting"
    /\ result[c] # Pending
    /\ reply' = [reply EXCEPT ![c] = result[c]]
    /\ pc' = [pc EXCEPT ![c] = "replied"]
    /\ UNCHANGED <<gen, recordVars, laneVars, schedVars, cache, closing, ops,
                   dedupHistory>>

\* Variant: what a task returned is not cached.
CacheRejection(c) ==
    /\ pc[c] = "replied"
    /\ cache' = IF RequestOf[c] = NoRequest \/ reply[c] = "returned" THEN cache
                ELSE [cache EXCEPT ![RequestOf[c]] = reply[c]]
    /\ pc' = [pc EXCEPT ![c] = "done"]
    /\ UNCHANGED <<gen, reply, recordVars, laneVars, schedVars, closing, ops,
                   dedupHistory>>

\* dedupCache.Set, errors and rejections included; then the call returns.
CacheReply(c) ==
    /\ pc[c] = "replied"
    /\ cache' = IF RequestOf[c] = NoRequest THEN cache
                ELSE [cache EXCEPT ![RequestOf[c]] = reply[c]]
    /\ pc' = [pc EXCEPT ![c] = "done"]
    /\ UNCHANGED <<gen, reply, recordVars, laneVars, schedVars, closing, ops,
                   dedupHistory>>

-----------------------------------------------------------------------------
\* processLane.

\* A record's result channel is sent to.
Send(c, r) ==
    /\ result' = [result EXCEPT ![c] = r]
    /\ sends' = [sends EXCEPT ![c] = @ + 1]

\* A spawned processLane takes ls.mu.
BeginProcessLane(l) ==
    /\ spawned[l] > 0
    /\ Unlocked(l)
    /\ spawned' = [spawned EXCEPT ![l] = @ - 1]
    /\ processing' = processing \cup {l}
    /\ UNCHANGED <<callerVars, recordVars, laneVars, slots, cache, closing, ops,
                   dedupHistory>>

\* Variants: one task more than the concurrency, one slot more than the limit.
HasWorkOffByOne(l) == running[l] <= concurrency[l] /\ queue[l] # <<>>
HasSlotOffByOne == Cardinality(slots) <= Slots

HasWork(l) == running[l] < concurrency[l] /\ queue[l] # <<>>
HasSlot == Cardinality(slots) < Slots

\* One turn of the loop that takes a slot and starts the head of the queue.
StartHead(l) ==
    /\ l \in processing /\ HasWork(l) /\ HasSlot
    /\ LET c == Head(queue[l])
       IN  /\ gen[c] = generation[l]
           /\ running' = [running EXCEPT ![l] = @ + 1]
           /\ activeIDs' = [activeIDs EXCEPT ![l] = @ \cup {c}]
           /\ exec' = [exec EXCEPT ![c] = "run"]
           /\ slots' = slots \cup {c}
    /\ queue' = [queue EXCEPT ![l] = Tail(@)]
    /\ UNCHANGED <<callerVars, result, sends, generation, concurrency, spawned,
                   processing, cache, closing, ops, dedupHistory>>

\* One turn that takes a slot and finds a record of an earlier generation: it
\* is refused, and the slot taken for it is not given back.
RejectStaleHead(l) ==
    /\ l \in processing /\ HasWork(l) /\ HasSlot
    /\ LET c == Head(queue[l])
       IN  /\ gen[c] # generation[l]
           /\ Send(c, "restarted")
           /\ slots' = slots \cup {c}
    /\ queue' = [queue EXCEPT ![l] = Tail(@)]
    /\ UNCHANGED <<callerVars, exec, generation, concurrency, running,
                   activeIDs, spawned, processing, cache, closing, ops,
                   dedupHistory>>

\* The loop ends: no room, nothing queued, or no global slot.
EndProcessLane(l) ==
    /\ l \in processing
    /\ ~(HasWork(l) /\ HasSlot)
    /\ processing' = processing \ {l}
    /\ UNCHANGED <<callerVars, recordVars, laneVars, spawned, slots, cache,
                   closing, ops, dedupHistory>>

-----------------------------------------------------------------------------
\* executeTask.

\* record.task returns; the calls it made have returned before.
TaskReturns(c) ==
    /\ exec[c] = "run"
    /\ \A d \in Children(c) : pc[d] \in {"idle", "done"}
    /\ exec' = [exec EXCEPT ![c] = "ran"]
    /\ UNCHANGED <<callerVars, result, sends, laneVars, schedVars, cache,
                   closing, ops, dedupHistory>>

\* The critical section that takes the task off the lane's books.
UpdateLane(c) ==
    /\ exec[c] = "ran"
    /\ Unlocked(LaneOf[c])
    /\ running' = [running EXCEPT ![LaneOf[c]] = @ - 1]
    /\ activeIDs' = [activeIDs EXCEPT ![LaneOf[c]] = @ \ {c}]
    /\ exec' = [exec EXCEPT ![c] = "updated"]
    /\ UNCHANGED <<callerVars, result, sends, queue, generation, concurrency,
                   schedVars, cache, closing, ops, dedupHistory>>

SendResult(c) ==
    /\ exec[c] = "updated"
    /\ Send(c, "returned")
    /\ exec' = [exec EXCEPT ![c] = "sent"]
    /\ UNCHANGED <<callerVars, laneVars, schedVars, cache, closing, ops,
                   dedupHistory>>

\* Variant: nobody looks at the lane after a task.
SpawnNextMissing(c) ==
    /\ exec[c] = "sent"
    /\ exec' = [exec EXCEPT ![c] = "spawned"]
    /\ UNCHANGED <<callerVars, result, sends, laneVars, schedVars, cache,
                   closing, ops, dedupHistory>>

\* After the "completed" handlers returned: go cq.processLane(lane).
SpawnNext(c) ==
    /\ exec[c] = "sent"
    /\ spawned' = [spawned EXCEPT ![LaneOf[c]] = @ + 1]
    /\ exec' = [exec EXCEPT ![c] = "spawned"]
    /\ UNCHANGED <<callerVars, result, sends, laneVars, processing, slots,
                   cache, closing, ops, dedupHistory>>

\* Variant: the deferred wg.Done is lost.
ReleaseSlotWithoutDone(c) ==
    /\ exec[c] = "spawned"
    /\ slots' = slots \ {c}
    /\ UNCHANGED <<callerVars, result, sends, exec, laneVars, spawned,
                   processing, cache, closing, ops, dedupHistory>>

\* The deferred calls: the slot is given back, then wg.Done.
ReleaseSlot(c) ==
    /\ exec[c] = "spawned"
    /\ slots' = slots \ {c}
    /\ exec' = [exec EXCEPT ![c] = "done"]
    /\ UNCHANGED <<callerVars, result, sends, laneVars, spawned, processing,
                   cache, closing, ops, dedupHistory>>

-----------------------------------------------------------------------------
\* Operations on a lane, the expiry of a cache entry, Close.

CountOp == ops < MaxOps /\ ops' = ops + 1

\* Variants: the queue keeps the rejected records, the queue is emptied and
\* nobody told, the running tasks are rejected too.
RejectQueueKeeps(l, r) ==
    /\ result' = [c \in Calls |->
                     IF LaneOf[c] = l /\ InQueue(c) THEN r ELSE result[c]]
    /\ sends' = [c \in Calls |->
                     IF LaneOf[c] = l /\ InQueue(c) THEN sends[c] + 1
                                                    ELSE sends[c]]
    /\ UNCHANGED queue
RejectQueueSilent(l, r) ==
    /\ queue' = [queue EXCEPT ![l] = <<>>]
    /\ UNCHANGED <<result, sends>>
RejectQueueAndActive(l, r) ==
    /\ result' = [c \in Calls |->
                     IF LaneOf[c] = l /\ (InQueue(c) \/ c \in activeIDs[l])
                     THEN r ELSE result[c]]
    /\ queue' = [queue EXCEPT ![l] = <<>>]
    /\ UNCHANGED sends

\* Every queued record is sent a rejection and the queue is emptied.
RejectQueue(l, r) ==
    /\ result' = [c \in Calls |->
                     IF LaneOf[c] = l /\ InQueue(c) THEN r ELSE result[c]]
    /\ sends' = [c \in Calls |->
                     IF LaneOf[c] = l /\ InQueue(c) THEN sends[c] + 1
                                                    ELSE sends[c]]
    /\ queue' = [queue EXCEPT ![l] = <<>>]

ClearLane(l) ==
    /\ CountOp
    /\ Unlocked(l)
    /\ RejectQueue(l, "cleared")
    /\ UNCHANGED <<callerVars, exec, generation, concurrency, running,
                   activeIDs, schedVars, cache, closing, dedupHistory>>

ResetLane(l) ==
    /\ CountOp
    /\ Unlocked(l)
    /\ generation' = [generation EXCEPT ![l] = @ + 1]
    /\ RejectQueue(l, "reset")
    /\ UNCHANGED <<callerVars, exec, concurrency, running, activeIDs, schedVars,
                   cache, closing, dedupHistory>>

SetConcurrency(l, n) ==
    /\ CountOp
    /\ Unlocked(l)
    /\ concurrency' = [concurrency EXCEPT ![l] = n]
    /\ spawned' = IF n > concurrency[l] THEN [spawned EXCEPT ![l] = @ + 1]
                                        ELSE spawned
    /\ UNCHANGED <<callerVars, recordVars, queue, generation, running,
                   activeIDs, processing, slots, cache, closing, dedupHistory>>

\* An entry outlives its ttl: Get ignores it, cleanup removes it.
Expire(r) ==
    /\ cache[r] # Pending
    /\ cache' = [cache EXCEPT ![r] = Pending]
    /\ lapsed' = lapsed \cup {r}
    /\ UNCHANGED <<callerVars, recordVars, laneVars, schedVars, closing, ops,
                   beside>>

\* Close cancels the tasks' contexts, which a task may answer with an error,
\* refuses no call, and waits for the tasks that are executing.
CloseBegins ==
    /\ CountOp
    /\ closing = "open"
    /\ closing' = "waiting"
    /\ UNCHANGED <<callerVars, recordVars, laneVars, schedVars, cache,
                   dedupHistory>>

CloseReturns ==
    /\ closing = "waiting"
    /\ Executing = {}
    /\ closing' = "closed"
    /\ UNCHANGED <<callerVars, recordVars, laneVars, schedVars, cache, ops,
                   dedupHistory>>

-----------------------------------------------------------------------------
Caller(c) ==
    \/ Lookup(c)
    \/ ReadGeneration(c)
    \/ AppendRecord(c)
    \/ SpawnProcessLane(c)
    \/ ReceiveResult(c)
    \/ CacheReply(c)

ProcessLane(l) ==
    \/ BeginProcessLane(l)
    \/ StartHead(l)
    \/ RejectStaleHead(l)
    \/ EndProcessLane(l)

ExecuteTask(c) ==
    \/ TaskReturns(c)
    \/ UpdateLane(c)
    \/ SendResult(c)
    \/ SpawnNext(c)
    \/ ReleaseSlot(c)

Operate(l) ==
    \/ ClearLane(l)
    \/ ResetLane(l)
    \/ \E n \in 1..MaxConc : SetConcurrency(l, n)

Next ==
    \/ \E c \in Calls : Caller(c) \/ ExecuteTask(c)
    \/ \E l \in Lanes : ProcessLane(l) \/ Operate(l)
    \/ \E r \in Requests : Expire(r)
    \/ CloseBegins
    \/ CloseReturns

Spec == Init /\ [][Next]_vars

\* A goroutine that can step does, and tasks return.  Nobody has to call
\* EnqueueWithContext, nor operate on a lane.
Fairness ==
    /\ \A c \in Calls :
        /\ WF_vars(pc[c] # "idle" /\ Caller(c))
        /\ WF_vars(ExecuteTask(c))
    /\ \A l \in Lanes : WF_vars(ProcessLane(l))
    /\ WF_vars(CloseReturns)

FairSpec == Spec /\ Fairness

-----------------------------------------------------------------------------
\* Properties.

TypeOK ==
    /\ pc \in [Calls -> PCs]
    /\ gen \in [Calls -> Nat]
    /\ result \in [Calls -> Replies \cup {Pending}]
    /\ sends \in [Calls -> Nat]
    /\ reply \in [Calls -> Replies \cup {Pending}]
    /\ exec \in [Calls -> Execs]
    /\ queue \in [Lanes -> Seq(Calls)]
    /\ generation \in [Lanes -> Nat]
    /\ concurrency \in [Lanes -> Nat \ {0}]
    /\ running \in [Lanes -> Nat]
    /\ activeIDs \in [Lanes -> SUBSET Calls]
    /\ spawned \in [Lanes -> Nat]
    /\ processing \subseteq Lanes
    /\ slots \subseteq Calls
    /\ cache \in [Requests -> Replies \cup {Pending}]
    /\ closing \in {"open", "waiting", "closed"}
    /\ ops \in 0..MaxOps
    /\ lapsed \subseteq Requests
    /\ beside \in [Calls -> SUBSET Calls]

\* No result channel is sent to twice, whichever of executeTask, processLane,
\* ClearLane and ResetLane got hold of the record (a second send would block
\* its goroutine for ever, or panic on the closed channel).
AnsweredOnce == \A c \in Calls : sends[c] <= 1

\* A caller that is told its task was cleared, reset or cancelled can rely on
\* it: that task never started and never will, as its record is queued no
\* more.  A caller given a task's own result has had it executed.
HonestReplies ==
    \A c \in Calls :
        /\ result[c] \in Rejections => exec[c] = "none" /\ ~InQueue(c)
        /\ result[c] = "returned" => exec[c] \in {"sent", "spawned", "done"}

\* While a caller waits without an answer its record is in the lane's queue or
\* in an executing task: no reset, clear or skipped turn drops it.
NoLostCaller ==
    \A c \in Calls :
        pc[c] \in {"queued", "waiting"} /\ result[c] = Pending =>
            InQueue(c) \/ exec[c] \in {"run", "ran", "updated"}

\* ls.running, which admits tasks, and ls.activeIDs, which WaitForActive
\* reads, both count the tasks of the lane that are executing.
RunningIsActive ==
    \A l \in Lanes :
        /\ activeIDs[l] = Active(l)
        /\ running[l] = Cardinality(Active(l))

\* Whom no slot will be given back for: RejectStaleHead took one for it.
Refused == {c \in Calls : result[c] = "restarted"}

\* Every executing task holds a slot of its own, and the only other slots taken
\* are those lost to records of an earlier generation: the global limit bounds
\* the executing tasks of all lanes together, and nothing but a reset lowers it.
SlotsBoundTasks ==
    /\ slots = Executing \cup Refused
    /\ Cardinality(slots) <= Slots

\* What the lanes count under their locks and the semaphore without them agrees
\* with the tasks that execute.
CountersAgree == RunningIsActive /\ SlotsBoundTasks

\* A task runs again for a request only if the calls overlap, the later one
\* having looked into the cache while the other was on its way, or if the
\* entry has expired meanwhile: no reset, clear or rejection makes the cache
\* forget a request that was processed, or its task run twice.
\* queue.go:152-165, 249-252.
RerunsOverlap ==
    \A c \in Calls : exec[c] # "none" =>
        \A d \in Twins(c) : exec[d] # "none" /\ RequestOf[c] \notin lapsed =>
            d \in beside[c] \/ c \in beside[d]

\* Refinement: phases, lines and limits of LaneService.
Answered(c) == result[c] # Pending \/ reply[c] # Pending
Phase(c) ==
    CASE Answered(c) -> "answered"
      [] ~Answered(c) /\ exec[c] \in {"run", "ran"} -> "running"
      [] ~Answered(c) /\ exec[c] = "updated" -> "finished"
      [] ~Answered(c) /\ exec[c] = "none" /\ pc[c] \in {"queued", "waiting"} -> "waiting"
      [] OTHER -> "idle"

SameRequest == [c \in Calls |-> Twins(c)]

Service == INSTANCE LaneService WITH
    phase <- [c \in Calls |-> Phase(c)], line <- queue, limit <- concurrency

\* The queue is a LaneService: tasks of a lane start in the order their calls
\* were queued, within the lane's limit at that moment, and a call is answered
\* once, by its task, a rejection or a replay of its own request.
ImplementsService == Service!Spec

\* Every call that was queued is answered in the end.
EveryCallAnswered ==
    \A c \in Calls : pc[c] = "waiting" ~> pc[c] = "done"

\* Close returns once the executing tasks have, however many are queued.
CloseTerminates == closing = "waiting" ~> closing = "closed"

=============================================================================

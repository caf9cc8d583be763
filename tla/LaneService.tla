---------------------------- MODULE LaneService ----------------------------
(***************************************************************************)
(* What the command queue promises the callers of EnqueueWithContext,      *)
(* without goroutines, mutexes or the global limiter (pkg/commandqueue,    *)
(* doc.go): the calls of a lane wait in line, tasks leave the line from    *)
(* its head only, no more tasks are started than the lane's limit admits,  *)
(* and a call is answered once, by its own task, by a rejection of the     *)
(* waiting call, or by the answer another call of its request was given.   *)
(***************************************************************************)
EXTENDS Naturals, Sequences, FiniteSets

CONSTANTS
    Calls,      \* calls of EnqueueWithContext
    Lanes,
    LaneOf,     \* the lane a call names
    SameRequest \* SameRequest[c]: the other calls that carry c's request ID

VARIABLES
    phase,      \* where a call is, one of Phases
    line,       \* per lane, the waiting calls in order of arrival
    limit       \* per lane, how many tasks may be running when one starts

vars == <<phase, line, limit>>

Phases == {"idle", "waiting", "running", "finished", "answered"}

RunningIn(l) == {c \in Calls : LaneOf[c] = l /\ phase[c] = "running"}

Init ==
    /\ phase = [c \in Calls |-> "idle"]
    /\ line = [l \in Lanes |-> <<>>]
    /\ limit \in [Lanes -> Nat]

\* A call joins the line of its lane.
Submit(c) ==
    /\ phase[c] = "idle"
    /\ phase' = [phase EXCEPT ![c] = "waiting"]
    /\ line' = [line EXCEPT ![LaneOf[c]] = Append(@, c)]
    /\ UNCHANGED limit

\* The first call of a line starts, when the lane has room for it.
Start(l) ==
    /\ line[l] # <<>>
    /\ Cardinality(RunningIn(l)) < limit[l]
    /\ phase' = [phase EXCEPT ![Head(line[l])] = "running"]
    /\ line' = [line EXCEPT ![l] = Tail(@)]
    /\ UNCHANGED limit

\* The task of a call ends: it no longer counts against the limit.
Finish(c) ==
    /\ phase[c] = "running"
    /\ phase' = [phase EXCEPT ![c] = "finished"]
    /\ UNCHANGED <<line, limit>>

\* The caller is given what its task returned.
Answer(c) ==
    /\ phase[c] = "finished"
    /\ phase' = [phase EXCEPT ![c] = "answered"]
    /\ UNCHANGED <<line, limit>>

\* The first call of a line is refused without being run.
RejectFirst(l) ==
    /\ line[l] # <<>>
    /\ phase' = [phase EXCEPT ![Head(line[l])] = "answered"]
    /\ line' = [line EXCEPT ![l] = Tail(@)]
    /\ UNCHANGED limit

\* Every waiting call of a lane is refused without being run.
RejectAll(l) ==
    /\ phase' = [c \in Calls |->
                    IF phase[c] = "waiting" /\ LaneOf[c] = l THEN "answered"
                                                             ELSE phase[c]]
    /\ line' = [line EXCEPT ![l] = <<>>]
    /\ UNCHANGED limit

\* A call repeats a request that was already answered and joins no line.
Replay(c) ==
    /\ phase[c] = "idle"
    /\ \E d \in SameRequest[c] : phase[d] = "answered"
    /\ phase' = [phase EXCEPT ![c] = "answered"]
    /\ UNCHANGED <<line, limit>>

Adjust(l) ==
    /\ limit' \in [Lanes -> Nat]
    /\ \A m \in Lanes \ {l} : limit'[m] = limit[m]
    /\ UNCHANGED <<phase, line>>

Next ==
    \/ \E c \in Calls : Submit(c) \/ Finish(c) \/ Answer(c) \/ Replay(c)
    \/ \E l \in Lanes : Start(l) \/ RejectFirst(l) \/ RejectAll(l) \/ Adjust(l)

Spec == Init /\ [][Next]_vars
=============================================================================

--------------------------- MODULE MCCommandQueue ---------------------------
(***************************************************************************)
(* Instances of CommandQueue for TLC: two lanes, one with concurrency one  *)
(* as "main" and one with more as "cron", and three calls.                 *)
(***************************************************************************)
EXTENDS CommandQueue, TLC

CONSTANTS c1, c2, c3, main, cron, r1

MCCalls == {c1, c2, c3}
MCLanes == {main, cron}
MCRequests == {r1}
MCConcurrency == (main :> 1) @@ (cron :> 2)

\* Two calls in one lane and one in the other; two of them, in different
\* lanes, carry the same request ID.
MCLaneOf == (c1 :> main) @@ (c2 :> main) @@ (c3 :> cron)
MCRequestOf == (c1 :> r1) @@ (c2 :> NoRequest) @@ (c3 :> r1)
NoRequestIDs == [c \in MCCalls |-> NoRequest]
Unnested == [c \in MCCalls |-> NoCall]

\* A task of one lane that enqueues on the other lane and waits, as a routed
\* message does on the lane of its agent session.
Nested == (c1 :> NoCall) @@ (c2 :> NoCall) @@ (c3 :> c1)
=============================================================================

------------------------ MODULE CommandQueueProofs ------------------------
(***************************************************************************)
(* Safety of the command queue for every set of calls and lanes, every     *)
(* global limit and every sequence of operations.                          *)
(*                                                                         *)
(* None of the invariants is inductive alone.  AnsweredOnce needs to know  *)
(* that a record in a queue has not been answered, that a record with a    *)
(* running task is in no queue, and that a record is queued at most once;  *)
(* running never goes below zero only because it counts the active         *)
(* records.  IInv puts these facts together.                               *)
(*                                                                         *)
(* The refinement needs two more: what a caller was given fits where it    *)
(* is, and the cache holds what some caller was given.  RefInv adds them.  *)
(* RerunsOverlap needs what a call can have missed in the cache besides:   *)
(* DedupInv.                                                               *)
(***************************************************************************)
EXTENDS CommandQueue, TLAPS, FiniteSetTheorems, SequenceTheorems

\* How far a record's goroutine and its result channel have come together.
RecordInv ==
    \A c \in Calls :
        /\ sends[c] = IF result[c] = Pending THEN 0 ELSE 1
        /\ exec[c] \in {"run", "ran", "updated"} => result[c] = Pending
        /\ exec[c] \in {"sent", "spawned", "done"} => result[c] = "returned"
        /\ exec[c] = "none" => result[c] # "returned"
        /\ pc[c] \in {"idle", "missed", "stamped"} =>
               exec[c] = "none" /\ result[c] = Pending

\* A queued record is in the queue of its lane, once, and neither started nor
\* answered.
QueueInv ==
    \A l \in Lanes :
        /\ IsInjective(queue[l])
        /\ \A c \in Range(queue[l]) :
               /\ LaneOf[c] = l
               /\ pc[c] \in {"queued", "waiting"}
               /\ exec[c] = "none"
               /\ result[c] = Pending

IInv ==
    /\ TypeOK
    /\ RecordInv
    /\ QueueInv
    /\ NoLostCaller
    /\ RunningIsActive
    /\ SlotsBoundTasks

-----------------------------------------------------------------------------
\* Sequences: what the steps of a queue do to its records.

\* The empty queue holds nothing.
LEMMA EmptyRecords == Range(<<>>) = {} /\ IsInjective(<<>>)
BY DEF Range, IsInjective

\* Appending adds one record.
LEMMA AppendRecords ==
    ASSUME NEW S, NEW q \in Seq(S), NEW e \in S
    PROVE  /\ Append(q, e) \in Seq(S)
           /\ Range(Append(q, e)) = Range(q) \cup {e}
           /\ IsInjective(q) /\ e \notin Range(q) => IsInjective(Append(q, e))
<1>1. /\ Append(q, e) \in Seq(S)
      /\ Len(q) \in Nat /\ DOMAIN q = 1..Len(q)
      /\ DOMAIN Append(q, e) = 1..(Len(q) + 1)
      /\ \A i \in 1..Len(q) : Append(q, e)[i] = q[i]
      /\ Append(q, e)[Len(q) + 1] = e
  BY AppendProperties, LenProperties
<1>2. Range(Append(q, e)) = Range(q) \cup {e}
  <2>1. ASSUME NEW i \in 1..(Len(q) + 1)
        PROVE  Append(q, e)[i] \in Range(q) \cup {e}
    <3>1. CASE i \in 1..Len(q)
      BY <1>1, <3>1 DEF Range
    <3>2. CASE i = Len(q) + 1
      BY <1>1, <3>2
    <3> QED BY <1>1, <3>1, <3>2
  <2>2. e \in Range(Append(q, e))
    <3>1. Len(q) + 1 \in DOMAIN Append(q, e)
      BY <1>1
    <3> QED BY <1>1, <3>1 DEF Range
  <2>3. \A i \in 1..Len(q) : q[i] \in Range(Append(q, e))
    <3> TAKE i \in 1..Len(q)
    <3>1. i \in DOMAIN Append(q, e) /\ Append(q, e)[i] = q[i]
      BY <1>1
    <3> QED BY <3>1 DEF Range
  <2> QED BY <1>1, <2>1, <2>2, <2>3 DEF Range
<1>3. ASSUME IsInjective(q), e \notin Range(q)
      PROVE  IsInjective(Append(q, e))
  <2>1. \A i \in 1..Len(q) : q[i] # e
    BY <1>1, <1>3 DEF Range
  <2> SUFFICES ASSUME NEW i \in 1..(Len(q) + 1), NEW j \in 1..(Len(q) + 1),
                      Append(q, e)[i] = Append(q, e)[j]
               PROVE  i = j
    BY <1>1 DEF IsInjective
  <2>2. CASE i \in 1..Len(q) /\ j \in 1..Len(q)
    BY <1>1, <1>3, <2>2 DEF IsInjective
  <2>3. CASE i = Len(q) + 1 \/ j = Len(q) + 1
    BY <1>1, <2>1, <2>3
  <2> QED BY <1>1, <2>2, <2>3
<1> QED BY <1>1, <1>2, <1>3

\* Taking the head off removes one record.
LEMMA TailRecords ==
    ASSUME NEW S, NEW q \in Seq(S), q # <<>>
    PROVE  /\ Head(q) \in S /\ Head(q) \in Range(q) /\ Tail(q) \in Seq(S)
           /\ Range(Tail(q)) \subseteq Range(q)
           /\ Range(q) \subseteq Range(Tail(q)) \cup {Head(q)}
           /\ IsInjective(q) => Head(q) \notin Range(Tail(q)) /\ IsInjective(Tail(q))
<1>1. /\ Head(q) \in S /\ Head(q) = q[1]
      /\ Tail(q) \in Seq(S)
      /\ Len(q) \in Nat \ {0} /\ DOMAIN q = 1..Len(q)
      /\ DOMAIN Tail(q) = 1..(Len(q) - 1)
      /\ \A i \in 1..(Len(q) - 1) : Tail(q)[i] = q[i + 1]
  BY HeadTailProperties, LenProperties, EmptySeq
<1>2. Head(q) \in Range(q)
  <2>1. 1 \in DOMAIN q
    BY <1>1
  <2> QED BY <1>1, <2>1 DEF Range
<1>3. Range(Tail(q)) \subseteq Range(q)
  <2>1. \A i \in 1..(Len(q) - 1) : i + 1 \in DOMAIN q
    BY <1>1
  <2> QED BY <1>1, <2>1 DEF Range
<1>4. Range(q) \subseteq Range(Tail(q)) \cup {Head(q)}
  <2>1. ASSUME NEW i \in 1..Len(q) PROVE q[i] \in Range(Tail(q)) \cup {Head(q)}
    <3>1. CASE i = 1
      BY <1>1, <3>1
    <3>2. CASE i # 1
      <4>1. i - 1 \in DOMAIN Tail(q) /\ Tail(q)[i - 1] = q[i]
        BY <1>1, <3>2
      <4> QED BY <4>1 DEF Range
    <3> QED BY <3>1, <3>2
  <2> QED BY <1>1, <2>1 DEF Range
<1>5. ASSUME IsInjective(q)
      PROVE  Head(q) \notin Range(Tail(q)) /\ IsInjective(Tail(q))
  <2>1. \A i, j \in 1..(Len(q) - 1) :
            /\ i + 1 \in DOMAIN q /\ q[i + 1] # q[1]
            /\ q[i + 1] = q[j + 1] => i = j
    BY <1>1, <1>5 DEF IsInjective
  <2>2. Head(q) \notin Range(Tail(q))
    BY <1>1, <2>1 DEF Range
  <2>3. IsInjective(Tail(q))
    BY <1>1, <2>1 DEF IsInjective
  <2> QED BY <2>2, <2>3
<1> QED BY <1>1, <1>2, <1>3, <1>4, <1>5

-----------------------------------------------------------------------------
\* A lane's active records are finitely many, as the calls are.
LEMMA ActiveFinite ==
    ASSUME NEW l \in Lanes
    PROVE  IsFiniteSet(Active(l))
<1>1. Active(l) \in SUBSET Calls
  BY DEF Active
<1> QED BY <1>1, FS_Subset, CallsAssumption

\* The initial states satisfy the inductive invariant.
LEMMA InitIInv == Init => IInv
<1> SUFFICES ASSUME Init PROVE IInv
  OBVIOUS
<1> USE DEF Init, Pending
<1>1. TypeOK
  BY CallsAssumption, LanesAssumption, BoundsAssumption, EmptySeq
     DEF TypeOK, PCs, Execs, Replies, Rejections
<1>2. RecordInv
  BY DEF RecordInv
<1>3. QueueInv
  BY EmptyRecords DEF QueueInv
<1>4. NoLostCaller
  BY DEF NoLostCaller
<1>5. RunningIsActive
  <2>1. \A l \in Lanes : Active(l) = {}
    BY DEF Active
  <2> QED BY <2>1, FS_EmptySet DEF RunningIsActive
<1>6. SlotsBoundTasks
  BY BoundsAssumption, FS_EmptySet DEF SlotsBoundTasks, Executing, Refused, Pending
<1> QED BY <1>1, <1>2, <1>3, <1>4, <1>5, <1>6 DEF IInv

-----------------------------------------------------------------------------
\* Every step keeps every variable in its type.
LEMMA TypeStep == IInv /\ [Next]_vars => TypeOK'
<1> SUFFICES ASSUME IInv, [Next]_vars PROVE TypeOK'
  OBVIOUS
<1> USE LanesAssumption, BoundsAssumption
     DEF IInv, TypeOK, PCs, Execs, Replies, Rejections, callerVars, recordVars,
         laneVars, schedVars, dedupHistory
<1>1. ASSUME NEW c \in Calls, Lookup(c) PROVE TypeOK'
  <2>1. beside' \in [Calls -> SUBSET Calls]
    BY <1>1 DEF Lookup, Twins
  <2> QED BY <1>1, <2>1 DEF Lookup, Pending
<1>2. ASSUME NEW c \in Calls, ReadGeneration(c) PROVE TypeOK'
  BY <1>2 DEF ReadGeneration
<1>3. ASSUME NEW c \in Calls, AppendRecord(c) PROVE TypeOK'
  <2>1. queue' \in [Lanes -> Seq(Calls)]
    BY <1>3, AppendProperties DEF AppendRecord
  <2> QED BY <1>3, <2>1 DEF AppendRecord
<1>4. ASSUME NEW c \in Calls, SpawnProcessLane(c) PROVE TypeOK'
  <2>1. spawned' \in [Lanes -> Nat] /\ pc' \in [Calls -> PCs]
    BY <1>4 DEF SpawnProcessLane
  <2> QED BY <1>4, <2>1 DEF SpawnProcessLane
<1>5. ASSUME NEW c \in Calls, ReceiveResult(c) PROVE TypeOK'
  BY <1>5 DEF ReceiveResult
<1>6. ASSUME NEW c \in Calls, CacheReply(c) PROVE TypeOK'
  BY <1>6 DEF CacheReply
<1>7. ASSUME NEW l \in Lanes, BeginProcessLane(l) PROVE TypeOK'
  <2>1. spawned' \in [Lanes -> Nat]
    <3>1. spawned[l] \in Nat \ {0}
      BY <1>7 DEF BeginProcessLane
    <3> QED BY <1>7, <3>1 DEF BeginProcessLane
  <2> QED BY <1>7, <2>1 DEF BeginProcessLane
<1>8. ASSUME NEW l \in Lanes, StartHead(l) PROVE TypeOK'
  <2>1. Head(queue[l]) \in Calls /\ Tail(queue[l]) \in Seq(Calls)
    BY <1>8, HeadTailProperties DEF StartHead, HasWork
  <2>2. queue' \in [Lanes -> Seq(Calls)]
    BY <1>8, <2>1 DEF StartHead
  <2>4. running' \in [Lanes -> Nat]
    BY <1>8 DEF StartHead
  <2>5. activeIDs' \in [Lanes -> SUBSET Calls]
    BY <1>8, <2>1 DEF StartHead
  <2>3. exec' \in [Calls -> Execs] /\ slots' \subseteq Calls
    BY <1>8, <2>1 DEF StartHead
  <2> QED BY <1>8, <2>2, <2>3, <2>4, <2>5 DEF StartHead
<1>9. ASSUME NEW l \in Lanes, RejectStaleHead(l) PROVE TypeOK'
  <2>1. Head(queue[l]) \in Calls /\ Tail(queue[l]) \in Seq(Calls)
    BY <1>9, HeadTailProperties DEF RejectStaleHead, HasWork
  <2>2. queue' \in [Lanes -> Seq(Calls)] /\ slots' \subseteq Calls
    BY <1>9, <2>1 DEF RejectStaleHead
  <2>3. result' \in [Calls -> Replies \cup {Pending}]
    BY <1>9, <2>1 DEF RejectStaleHead, Send
  <2>4. sends' \in [Calls -> Nat]
    <3>1. sends' = [sends EXCEPT ![Head(queue[l])] = @ + 1]
      BY <1>9 DEF RejectStaleHead, Send
    <3>2. sends \in [Calls -> Nat]
      OBVIOUS
    <3> HIDE DEF IInv, TypeOK
    <3>3. sends[Head(queue[l])] + 1 \in Nat
      BY <2>1, <3>2
    <3> QED BY <2>1, <3>1, <3>2, <3>3
  <2> QED BY <1>9, <2>2, <2>3, <2>4 DEF RejectStaleHead
<1>10. ASSUME NEW l \in Lanes, EndProcessLane(l) PROVE TypeOK'
  BY <1>10 DEF EndProcessLane
<1>11. ASSUME NEW c \in Calls, TaskReturns(c) PROVE TypeOK'
  BY <1>11 DEF TaskReturns
<1>12. ASSUME NEW c \in Calls, UpdateLane(c) PROVE TypeOK'
  <2>1. Cardinality(Active(LaneOf[c])) \in Nat \ {0}
    <3>1. c \in Active(LaneOf[c])
      BY <1>12 DEF UpdateLane, Active
    <3> QED BY <3>1, ActiveFinite, FS_CardinalityType, FS_EmptySet
  <2>2. running[LaneOf[c]] \in Nat \ {0}
    BY <2>1 DEF RunningIsActive
  <2>3. running' \in [Lanes -> Nat]
    BY <1>12, <2>2 DEF UpdateLane
  <2> QED BY <1>12, <2>3 DEF UpdateLane
<1>13. ASSUME NEW c \in Calls, SendResult(c) PROVE TypeOK'
  <2>1. result' \in [Calls -> Replies \cup {Pending}] /\ exec' \in [Calls -> Execs]
    BY <1>13 DEF SendResult, Send
  <2>2. sends' \in [Calls -> Nat]
    BY <1>13 DEF SendResult, Send
  <2> QED BY <1>13, <2>1, <2>2 DEF SendResult
<1>14. ASSUME NEW c \in Calls, SpawnNext(c) PROVE TypeOK'
  <2>1. spawned' \in [Lanes -> Nat] /\ exec' \in [Calls -> Execs]
    BY <1>14 DEF SpawnNext
  <2> QED BY <1>14, <2>1 DEF SpawnNext
<1>15. ASSUME NEW c \in Calls, ReleaseSlot(c) PROVE TypeOK'
  BY <1>15 DEF ReleaseSlot
<1>16. ASSUME NEW l \in Lanes, ClearLane(l) PROVE TypeOK'
  BY <1>16, EmptySeq DEF ClearLane, RejectQueue, CountOp
<1>17. ASSUME NEW l \in Lanes, ResetLane(l) PROVE TypeOK'
  <2>1. /\ result' \in [Calls -> Replies \cup {Pending}]
        /\ sends' \in [Calls -> Nat]
        /\ queue' \in [Lanes -> Seq(Calls)]
    BY <1>17, EmptySeq DEF ResetLane, RejectQueue
  <2>2. generation' \in [Lanes -> Nat]
    BY <1>17 DEF ResetLane
  <2>3. ops' \in 0..MaxOps
    BY <1>17 DEF ResetLane, CountOp
  <2> QED BY <1>17, <2>1, <2>2, <2>3 DEF ResetLane
<1>18. ASSUME NEW l \in Lanes, NEW n \in 1..MaxConc, SetConcurrency(l, n)
       PROVE TypeOK'
  <2>1. n \in Nat \ {0}
    BY BoundsAssumption
  <2>2. concurrency' \in [Lanes -> Nat \ {0}]
    BY <1>18, <2>1 DEF SetConcurrency
  <2>3. spawned' \in [Lanes -> Nat]
    BY <1>18 DEF SetConcurrency
  <2>4. ops' \in 0..MaxOps
    BY <1>18, BoundsAssumption DEF SetConcurrency, CountOp
  <2> QED BY <1>18, <2>2, <2>3, <2>4 DEF SetConcurrency
<1>19. ASSUME NEW r \in Requests, Expire(r) PROVE TypeOK'
  BY <1>19 DEF Expire
<1>20. CASE CloseBegins
  BY <1>20 DEF CloseBegins, CountOp
<1>21. CASE CloseReturns
  BY <1>21 DEF CloseReturns
<1>22. CASE UNCHANGED vars
  BY <1>22 DEF vars
<1> QED
  BY <1>1, <1>2, <1>3, <1>4, <1>5, <1>6, <1>7, <1>8, <1>9, <1>10, <1>11, <1>12,
     <1>13, <1>14, <1>15, <1>16, <1>17, <1>18, <1>19, <1>20, <1>21, <1>22
     DEF Next, Caller, ProcessLane, ExecuteTask, Operate

-----------------------------------------------------------------------------
\* The records, their channels and the queues.
Answers == RecordInv /\ QueueInv /\ NoLostCaller

\* A queued record is neither started nor answered, and its caller waits.
LEMMA QueuedIsFresh ==
    ASSUME IInv, NEW c \in Calls, InQueue(c)
    PROVE  /\ pc[c] \in {"queued", "waiting"}
           /\ exec[c] = "none" /\ result[c] = Pending
<1>1. LaneOf[c] \in Lanes
  BY LanesAssumption
<1> QED BY <1>1 DEF IInv, QueueInv, InQueue

\* Queues hold calls only.
LEMMA QueuedIsCall ==
    ASSUME TypeOK, NEW l \in Lanes
    PROVE  Range(queue[l]) \subseteq Calls
<1>1. queue[l] \in Seq(Calls)
  BY DEF TypeOK
<1> QED BY <1>1, RangeOfSeq

\* So is the record a lane would take next, which is in its queue once.
LEMMA HeadIsFresh ==
    ASSUME IInv, NEW l \in Lanes, queue[l] # <<>>
    PROVE  /\ Head(queue[l]) \in Calls
           /\ LaneOf[Head(queue[l])] = l
           /\ pc[Head(queue[l])] \in {"queued", "waiting"}
           /\ exec[Head(queue[l])] = "none"
           /\ result[Head(queue[l])] = Pending
           /\ Head(queue[l]) \notin Range(Tail(queue[l]))
           /\ IsInjective(Tail(queue[l]))
           /\ Range(Tail(queue[l])) \subseteq Range(queue[l])
           /\ Range(queue[l]) \subseteq Range(Tail(queue[l])) \cup {Head(queue[l])}
<1>1. queue[l] \in Seq(Calls) /\ IsInjective(queue[l])
  BY DEF IInv, TypeOK, QueueInv
<1>2. Head(queue[l]) \in Range(queue[l])
  BY <1>1, TailRecords
<1> QED BY <1>1, <1>2, TailRecords DEF IInv, QueueInv

\* A step that leaves records and queues alone, and moves callers only to
\* where the invariants ask nothing new of them.
LEMMA AnswersFrame ==
    ASSUME IInv, UNCHANGED <<exec, result, sends, queue>>,
           \A c \in Calls :
               \/ pc'[c] = pc[c]
               \/ pc'[c] = "missed" /\ pc[c] = "idle"
               \/ pc'[c] = "stamped" /\ pc[c] = "missed"
               \/ pc'[c] \in {"replied", "done"} /\ ~InQueue(c)
               \/ pc'[c] = "waiting" /\ pc[c] = "queued"
    PROVE  Answers'
<1>1. RecordInv'
  BY DEF IInv, RecordInv
<1>2. QueueInv'
  <2> SUFFICES ASSUME NEW l \in Lanes, NEW c \in Range(queue[l])
               PROVE  pc'[c] \in {"queued", "waiting"}
    BY DEF IInv, QueueInv
  <2>1. c \in Calls /\ InQueue(c) /\ pc[c] \in {"queued", "waiting"}
    BY QueuedIsCall DEF InQueue, IInv, QueueInv
  <2> QED BY <2>1
<1>3. NoLostCaller'
  BY DEF IInv, NoLostCaller, InQueue
<1> QED BY <1>1, <1>2, <1>3 DEF Answers

\* Callers: queueing the record is the step that matters.
LEMMA AnswersCaller ==
    ASSUME IInv, NEW c \in Calls, Caller(c) PROVE Answers'
<1>0. pc \in [Calls -> PCs] /\ LaneOf[c] \in Lanes
  BY LanesAssumption DEF IInv, TypeOK
<1>1. CASE Lookup(c)
  <2>1. ~InQueue(c)
    BY <1>1, QueuedIsFresh DEF Lookup
  <2> QED BY <1>0, <1>1, <2>1, AnswersFrame DEF Lookup, recordVars, laneVars
<1>2. CASE ReadGeneration(c)
  BY <1>0, <1>2, AnswersFrame DEF ReadGeneration, recordVars, laneVars
<1>3. CASE AppendRecord(c)
  <2>1. /\ pc' = [pc EXCEPT ![c] = "queued"]
        /\ queue' = [queue EXCEPT ![LaneOf[c]] = Append(@, c)]
        /\ UNCHANGED <<exec, result, sends>>
    BY <1>3 DEF AppendRecord, recordVars
  <2>2. queue \in [Lanes -> Seq(Calls)]
    BY DEF IInv, TypeOK
  <2>3. c \notin Range(queue[LaneOf[c]])
    BY <1>3, QueuedIsFresh DEF AppendRecord, InQueue
  <2>4. exec[c] = "none" /\ result[c] = Pending
    BY <1>3 DEF AppendRecord, RecordInv, IInv
  <2>5. /\ Range(queue'[LaneOf[c]]) = Range(queue[LaneOf[c]]) \cup {c}
        /\ IsInjective(queue'[LaneOf[c]])
        /\ \A m \in Lanes \ {LaneOf[c]} : queue'[m] = queue[m]
    <3>1. queue[LaneOf[c]] \in Seq(Calls) /\ IsInjective(queue[LaneOf[c]])
      BY <1>0, <2>2 DEF IInv, QueueInv
    <3>2. queue'[LaneOf[c]] = Append(queue[LaneOf[c]], c)
      BY <1>0, <2>1, <2>2
    <3> QED BY <1>0, <2>1, <2>2, <2>3, <3>1, <3>2, AppendRecords
  <2>6. RecordInv'
    BY <1>0, <2>1, <2>4 DEF IInv, RecordInv
  <2>7. QueueInv'
    <3>1. \A d \in Calls : pc[d] \in {"queued", "waiting"} =>
                                 pc'[d] \in {"queued", "waiting"}
      BY <1>0, <2>1
    <3>2. \A m \in Lanes : Range(queue[m]) \subseteq Calls
      BY QueuedIsCall DEF IInv
    <3>3. pc'[c] \in {"queued", "waiting"}
      BY <1>0, <2>1
    <3> SUFFICES ASSUME NEW m \in Lanes
                 PROVE  /\ IsInjective(queue'[m])
                        /\ \A d \in Range(queue'[m]) :
                               /\ LaneOf[d] = m
                               /\ pc'[d] \in {"queued", "waiting"}
                               /\ exec[d] = "none" /\ result[d] = Pending
      BY <2>1 DEF QueueInv
    <3> QED BY <2>4, <2>5, <3>1, <3>2, <3>3 DEF IInv, QueueInv
  <2>8. NoLostCaller'
    <3>1. \A d \in Calls : LaneOf[d] \in Lanes
      BY LanesAssumption
    <3>2. \A d \in Calls : InQueue(d) \/ d = c => InQueue(d)'
      BY <2>5, <3>1 DEF InQueue
    <3> QED BY <1>0, <2>1, <3>2 DEF IInv, NoLostCaller
  <2> QED BY <2>6, <2>7, <2>8 DEF Answers
<1>4. CASE SpawnProcessLane(c)
  BY <1>0, <1>4, AnswersFrame DEF SpawnProcessLane, recordVars, laneVars
<1>5. CASE ReceiveResult(c)
  <2>1. ~InQueue(c)
    BY <1>5, QueuedIsFresh DEF ReceiveResult
  <2> QED BY <1>0, <1>5, <2>1, AnswersFrame DEF ReceiveResult, recordVars, laneVars
<1>6. CASE CacheReply(c)
  <2>1. ~InQueue(c)
    BY <1>6, QueuedIsFresh DEF CacheReply
  <2> QED BY <1>0, <1>6, <2>1, AnswersFrame DEF CacheReply, recordVars, laneVars
<1> QED BY <1>1, <1>2, <1>3, <1>4, <1>5, <1>6 DEF Caller

\* A lane's queue without its head, whose record is no longer as it was.
LEMMA AnswersHeadTaken ==
    ASSUME IInv, NEW l \in Lanes, queue[l] # <<>>, UNCHANGED pc,
           queue' = [queue EXCEPT ![l] = Tail(@)],
           \A d \in Calls \ {Head(queue[l])} :
               exec'[d] = exec[d] /\ result'[d] = result[d]
    PROVE  /\ QueueInv'
           /\ \A d \in Calls \ {Head(queue[l])} : InQueue(d) => InQueue(d)'
<1>1. /\ queue'[l] = Tail(queue[l])
      /\ \A m \in Lanes \ {l} : queue'[m] = queue[m]
  BY DEF IInv, TypeOK
<1>2. \A m \in Lanes : Range(queue[m]) \subseteq Calls
  BY QueuedIsCall DEF IInv
<1>3. QueueInv'
  <2> SUFFICES ASSUME NEW m \in Lanes
               PROVE  /\ IsInjective(queue'[m])
                      /\ \A d \in Range(queue'[m]) :
                             /\ LaneOf[d] = m
                             /\ pc[d] \in {"queued", "waiting"}
                             /\ exec'[d] = "none" /\ result'[d] = Pending
    BY DEF QueueInv
  <2>1. CASE m = l
    BY <1>1, <1>2, <2>1, HeadIsFresh DEF IInv, QueueInv
  <2>2. CASE m # l
    <3>1. Head(queue[l]) \notin Range(queue[m])
      BY <2>2, HeadIsFresh DEF IInv, QueueInv
    <3> QED BY <1>1, <1>2, <2>2, <3>1 DEF IInv, QueueInv
  <2> QED BY <2>1, <2>2
<1>4. \A d \in Calls \ {Head(queue[l])} : InQueue(d) => InQueue(d)'
  BY <1>1, HeadIsFresh, ZenonT(60), LanesAssumption DEF InQueue
<1> QED BY <1>3, <1>4

\* processLane: the head of a queue is started or refused.
LEMMA AnswersProcessLane ==
    ASSUME IInv, NEW l \in Lanes, ProcessLane(l) PROVE Answers'
<1>1. CASE BeginProcessLane(l)
  BY <1>1, AnswersFrame DEF BeginProcessLane, callerVars, recordVars, laneVars
<1>2. CASE StartHead(l)
  <2> DEFINE c == Head(queue[l])
  <2>1. /\ exec' = [exec EXCEPT ![c] = "run"]
        /\ queue' = [queue EXCEPT ![l] = Tail(@)]
        /\ UNCHANGED <<pc, result, sends>>
        /\ queue[l] # <<>>
    BY <1>2 DEF StartHead, HasWork, callerVars
  <2>2. /\ exec' = [d \in Calls |-> IF d = c THEN "run" ELSE exec[d]]
        /\ c \in Calls /\ pc[c] \in {"queued", "waiting"} /\ result[c] = Pending
    BY <2>1, HeadIsFresh DEF IInv, TypeOK
  <2> HIDE DEF c
  <2>3. RecordInv'
    BY <2>1, <2>2 DEF IInv, RecordInv
  <2>4. QueueInv' /\ \A d \in Calls \ {c} : InQueue(d) => InQueue(d)'
    BY <2>1, <2>2, AnswersHeadTaken DEF c
  <2>5. NoLostCaller'
    BY <2>1, <2>2, <2>4 DEF IInv, NoLostCaller
  <2> QED BY <2>3, <2>4, <2>5 DEF Answers
<1>3. CASE RejectStaleHead(l)
  <2> DEFINE c == Head(queue[l])
  <2>1. /\ result' = [result EXCEPT ![c] = "restarted"]
        /\ sends' = [sends EXCEPT ![c] = @ + 1]
        /\ queue' = [queue EXCEPT ![l] = Tail(@)]
        /\ UNCHANGED <<pc, exec>>
        /\ queue[l] # <<>>
    BY <1>3 DEF RejectStaleHead, Send, HasWork, callerVars
  <2>2. /\ result' = [d \in Calls |-> IF d = c THEN "restarted" ELSE result[d]]
        /\ sends' = [d \in Calls |-> IF d = c THEN sends[d] + 1 ELSE sends[d]]
        /\ c \in Calls /\ pc[c] \in {"queued", "waiting"}
        /\ exec[c] = "none" /\ result[c] = Pending
    BY <2>1, HeadIsFresh DEF IInv, TypeOK
  <2> HIDE DEF c
  <2>3. RecordInv'
    BY <2>1, <2>2 DEF IInv, RecordInv, Pending
  <2>4. QueueInv' /\ \A d \in Calls \ {c} : InQueue(d) => InQueue(d)'
    BY <2>1, <2>2, AnswersHeadTaken DEF c
  <2>5. NoLostCaller'
    BY <2>1, <2>2, <2>4 DEF IInv, NoLostCaller, Pending
  <2> QED BY <2>3, <2>4, <2>5 DEF Answers
<1>4. CASE EndProcessLane(l)
  BY <1>4, AnswersFrame DEF EndProcessLane, callerVars, recordVars, laneVars
<1> QED BY <1>1, <1>2, <1>3, <1>4 DEF ProcessLane

\* executeTask: its record left the queue when it started.
LEMMA AnswersExecuteTask ==
    ASSUME IInv, NEW c \in Calls, ExecuteTask(c) PROVE Answers'
<1>1. exec[c] # "none"
  BY DEF ExecuteTask, TaskReturns, UpdateLane, SendResult, SpawnNext, ReleaseSlot
<1>2. UNCHANGED <<pc, queue>>
  BY DEF ExecuteTask, TaskReturns, UpdateLane, SendResult, SpawnNext,
         ReleaseSlot, callerVars, laneVars
<1>3. /\ exec' \in [Calls -> Execs]
      /\ \A d \in Calls \ {c} : exec'[d] = exec[d] /\ result'[d] = result[d]
                                  /\ sends'[d] = sends[d]
  BY DEF ExecuteTask, TaskReturns, UpdateLane, SendResult, SpawnNext,
         ReleaseSlot, Send, Execs, IInv, TypeOK
<1>4. \/ /\ exec[c] \in {"run", "ran"} /\ exec'[c] \in {"ran", "updated"}
         /\ UNCHANGED <<result, sends>>
      \/ /\ exec[c] = "updated" /\ exec'[c] = "sent"
         /\ result'[c] = "returned" /\ sends'[c] = sends[c] + 1
      \/ /\ exec[c] \in {"sent", "spawned"} /\ exec'[c] \in {"spawned", "done"}
         /\ UNCHANGED <<result, sends>>
  BY DEF ExecuteTask, TaskReturns, UpdateLane, SendResult, SpawnNext,
         ReleaseSlot, Send, IInv, TypeOK
<1>5. RecordInv'
  BY <1>1, <1>2, <1>3, <1>4 DEF IInv, RecordInv, Pending
<1>6. QueueInv'
  <2>1. \A l \in Lanes : c \notin Range(queue[l])
    BY <1>1 DEF IInv, QueueInv
  <2>2. \A l \in Lanes : Range(queue[l]) \subseteq Calls
    BY QueuedIsCall DEF IInv
  <2> QED BY <1>2, <1>3, <2>1, <2>2 DEF IInv, QueueInv
<1>7. NoLostCaller'
  BY <1>2, <1>3, <1>4 DEF IInv, NoLostCaller, InQueue, Pending
<1> QED BY <1>5, <1>6, <1>7 DEF Answers

\* ClearLane and ResetLane: every record of a queue is answered, no other.
LEMMA AnswersRejectQueue ==
    ASSUME IInv, NEW l \in Lanes, NEW r \in {"cleared", "reset"},
           RejectQueue(l, r), UNCHANGED <<pc, exec>>
    PROVE  Answers'
<1>1. \A c \in Calls :
          IF LaneOf[c] = l /\ InQueue(c)
          THEN result'[c] = r /\ sends'[c] = sends[c] + 1
          ELSE result'[c] = result[c] /\ sends'[c] = sends[c]
  BY DEF RejectQueue
<1>2. queue'[l] = <<>> /\ \A m \in Lanes \ {l} : queue'[m] = queue[m]
  BY DEF RejectQueue, IInv, TypeOK
<1>3. RecordInv'
  BY <1>1, QueuedIsFresh DEF IInv, RecordInv, Pending
<1>4. QueueInv'
  <2> SUFFICES ASSUME NEW m \in Lanes
               PROVE  /\ IsInjective(queue'[m])
                      /\ \A d \in Range(queue'[m]) :
                             /\ LaneOf[d] = m
                             /\ pc[d] \in {"queued", "waiting"}
                             /\ exec[d] = "none" /\ result'[d] = Pending
    BY DEF QueueInv
  <2>1. CASE m = l
    BY <1>2, <2>1, EmptyRecords
  <2>2. CASE m # l
    <3>1. Range(queue[m]) \subseteq Calls
      BY QueuedIsCall DEF IInv
    <3> QED BY <1>1, <1>2, <2>2, <3>1 DEF IInv, QueueInv
  <2> QED BY <2>1, <2>2
<1>5. NoLostCaller'
  BY <1>1, <1>2, LanesAssumption DEF IInv, NoLostCaller, InQueue, Pending
<1> QED BY <1>3, <1>4, <1>5 DEF Answers

\* Every step preserves the part of IInv about answers.
LEMMA AnswersStep == IInv /\ [Next]_vars => Answers'
<1> SUFFICES ASSUME IInv, [Next]_vars PROVE Answers'
  OBVIOUS
<1>1. ASSUME NEW l \in Lanes, Operate(l) PROVE Answers'
  <2>1. CASE ClearLane(l)
    BY <2>1, AnswersRejectQueue DEF ClearLane, callerVars
  <2>2. CASE ResetLane(l)
    BY <2>2, AnswersRejectQueue DEF ResetLane, callerVars
  <2>3. ASSUME NEW n \in 1..MaxConc, SetConcurrency(l, n) PROVE Answers'
    BY <2>3, AnswersFrame DEF SetConcurrency, callerVars, recordVars
  <2> QED BY <1>1, <2>1, <2>2, <2>3 DEF Operate
<1>2. CASE \/ \E r \in Requests : Expire(r)
           \/ CloseBegins \/ CloseReturns \/ UNCHANGED vars
  <2>1. UNCHANGED <<pc, exec, result, sends, queue>>
    BY <1>2 DEF Expire, CloseBegins, CloseReturns, vars, callerVars, recordVars,
                laneVars
  <2> QED BY <2>1, AnswersFrame
<1> QED
  BY <1>1, <1>2, AnswersCaller, AnswersProcessLane, AnswersExecuteTask DEF Next

-----------------------------------------------------------------------------
\* Every step keeps the lanes' counts exact.
LEMMA LanesStep == IInv /\ [Next]_vars => RunningIsActive'
<1> SUFFICES ASSUME IInv, [Next]_vars PROVE RunningIsActive'
  OBVIOUS
<1>0. /\ running \in [Lanes -> Nat] /\ activeIDs \in [Lanes -> SUBSET Calls]
      /\ exec \in [Calls -> Execs]
      /\ \A l \in Lanes : activeIDs[l] = Active(l)
                          /\ running[l] = Cardinality(Active(l))
      /\ \A l \in Lanes : IsFiniteSet(Active(l)) /\ Cardinality(Active(l)) \in Nat
  BY ActiveFinite, FS_CardinalityType DEF IInv, TypeOK, RunningIsActive
<1>1. ASSUME NEW l \in Lanes, StartHead(l) PROVE RunningIsActive'
  <2> DEFINE c == Head(queue[l])
  <2>1. c \in Calls /\ LaneOf[c] = l /\ exec[c] = "none"
    BY <1>1, HeadIsFresh DEF StartHead, HasWork
  <2>2. /\ exec' = [exec EXCEPT ![c] = "run"]
        /\ running' = [running EXCEPT ![l] = @ + 1]
        /\ activeIDs' = [activeIDs EXCEPT ![l] = @ \cup {c}]
    BY <1>1 DEF StartHead
  <2> HIDE DEF c
  <2>3. /\ Active(l)' = Active(l) \cup {c} /\ c \notin Active(l)
        /\ \A m \in Lanes \ {l} : Active(m)' = Active(m)
    BY <1>0, <2>1, <2>2 DEF Active
  <2>4. Cardinality(Active(l)') = Cardinality(Active(l)) + 1
    BY <1>0, <2>3, FS_AddElement
  <2> QED BY <1>0, <2>2, <2>3, <2>4 DEF RunningIsActive
<1>2. ASSUME NEW c \in Calls, UpdateLane(c) PROVE RunningIsActive'
  <2> DEFINE l == LaneOf[c]
  <2>1. l \in Lanes /\ exec[c] = "ran"
    BY <1>2, LanesAssumption DEF UpdateLane
  <2>2. /\ exec' = [exec EXCEPT ![c] = "updated"]
        /\ running' = [running EXCEPT ![l] = @ - 1]
        /\ activeIDs' = [activeIDs EXCEPT ![l] = @ \ {c}]
    BY <1>2 DEF UpdateLane
  <2>3. /\ Active(l)' = Active(l) \ {c} /\ c \in Active(l)
        /\ \A m \in Lanes \ {l} : Active(m)' = Active(m)
    BY <1>0, <2>1, <2>2 DEF Active
  <2> HIDE DEF l
  <2>4. Cardinality(Active(l)') = Cardinality(Active(l)) - 1
    BY <1>0, <2>1, <2>3, FS_RemoveElement
  <2> QED BY <1>0, <2>1, <2>2, <2>3, <2>4 DEF RunningIsActive
<1>3. ASSUME UNCHANGED <<running, activeIDs>>, \A l \in Lanes : Active(l)' = Active(l)
      PROVE  RunningIsActive'
  BY <1>0, <1>3 DEF RunningIsActive
<1>4. ASSUME NEW c \in Calls, Caller(c) PROVE RunningIsActive'
  BY <1>3, <1>4 DEF Caller, Lookup, ReadGeneration, AppendRecord, SpawnProcessLane,
     ReceiveResult, CacheReply, Active, recordVars, laneVars
<1>5. ASSUME NEW l \in Lanes, BeginProcessLane(l) \/ RejectStaleHead(l)
                                \/ EndProcessLane(l)
      PROVE  RunningIsActive'
  BY <1>3, <1>5 DEF BeginProcessLane, RejectStaleHead, EndProcessLane, Active,
     recordVars, laneVars
<1>6. ASSUME NEW c \in Calls,
             TaskReturns(c) \/ SendResult(c) \/ SpawnNext(c) \/ ReleaseSlot(c)
      PROVE  RunningIsActive'
  <2>1. UNCHANGED <<running, activeIDs>>
    BY <1>6 DEF TaskReturns, SendResult, SpawnNext, ReleaseSlot, laneVars
  <2>2. \A d \in Calls : exec'[d] \in {"run", "ran"} <=> exec[d] \in {"run", "ran"}
    BY <1>0, <1>6 DEF TaskReturns, SendResult, SpawnNext, ReleaseSlot
  <2> QED BY <1>3, <2>1, <2>2 DEF Active
<1>7. ASSUME NEW l \in Lanes, Operate(l) PROVE RunningIsActive'
  BY <1>3, <1>7 DEF Operate, ClearLane, ResetLane, SetConcurrency, Active,
     recordVars
<1>8. CASE \/ \E r \in Requests : Expire(r)
           \/ CloseBegins \/ CloseReturns \/ UNCHANGED vars
  BY <1>3, <1>8 DEF Expire, CloseBegins, CloseReturns, vars, recordVars, laneVars,
     Active
<1> QED
  BY <1>1, <1>2, <1>4, <1>5, <1>6, <1>7, <1>8 DEF Next, ProcessLane, ExecuteTask

\* Every step keeps a slot for every executing task, no other but the lost ones,
\* and no more slots than there are.
LEMMA SlotsStep == IInv /\ [Next]_vars => SlotsBoundTasks'
<1> SUFFICES ASSUME IInv, [Next]_vars PROVE SlotsBoundTasks'
  OBVIOUS
<1>0. /\ exec \in [Calls -> Execs] /\ DOMAIN result = Calls
      /\ slots = Executing \cup Refused /\ slots \subseteq Calls /\ IsFiniteSet(slots)
      /\ Cardinality(slots) \in Nat /\ Cardinality(slots) <= Slots
      /\ Slots \in Nat
  <2>1. slots \in SUBSET Calls
    BY DEF IInv, TypeOK
  <2>2. IsFiniteSet(slots)
    BY <2>1, FS_Subset, CallsAssumption
  <2> QED BY <2>1, <2>2, FS_CardinalityType, BoundsAssumption
          DEF IInv, TypeOK, SlotsBoundTasks
<1>1. ASSUME NEW l \in Lanes, StartHead(l) \/ RejectStaleHead(l)
      PROVE  SlotsBoundTasks'
  <2> DEFINE c == Head(queue[l])
  <2>1. c \in Calls /\ exec[c] = "none" /\ result[c] = Pending
    BY <1>1, HeadIsFresh DEF StartHead, RejectStaleHead, HasWork
  <2>2. /\ slots' = slots \cup {c} /\ Cardinality(slots) < Slots
        /\ \/ exec' = [exec EXCEPT ![c] = "run"] /\ result' = result
           \/ result' = [result EXCEPT ![c] = "restarted"] /\ exec' = exec
    BY <1>1 DEF StartHead, RejectStaleHead, Send, HasSlot
  <2> HIDE DEF c
  <2>3. Executing' \cup Refused' = (Executing \cup Refused) \cup {c}
    BY <1>0, <2>1, <2>2 DEF Executing, Refused
  <2>4. Cardinality(slots') <= Cardinality(slots) + 1
    <3>1. Cardinality(slots \cup {c}) = IF c \in slots THEN Cardinality(slots)
                                        ELSE Cardinality(slots) + 1
      BY <1>0, FS_AddElement
    <3> QED BY <1>0, <2>2, <3>1
  <2>5. Cardinality(slots') \in Nat
    BY <1>0, <2>2, FS_AddElement, FS_CardinalityType
  <2> QED BY <1>0, <2>2, <2>3, <2>4, <2>5 DEF SlotsBoundTasks
<1>2. ASSUME NEW c \in Calls, ReleaseSlot(c) PROVE SlotsBoundTasks'
  <2>1. /\ slots' = slots \ {c} /\ exec' = [exec EXCEPT ![c] = "done"]
        /\ result' = result /\ result[c] = "returned"
    BY <1>2 DEF ReleaseSlot, IInv, RecordInv
  <2>2. Executing' \cup Refused' = (Executing \cup Refused) \ {c}
    BY <1>0, <2>1 DEF Executing, Refused
  <2>3. slots' \in SUBSET slots
    BY <2>1
  <2>4. Cardinality(slots') <= Cardinality(slots) /\ Cardinality(slots') \in Nat
    BY <1>0, <2>3, FS_Subset, FS_CardinalityType
  <2> QED BY <1>0, <2>1, <2>2, <2>4 DEF SlotsBoundTasks
<1>3. ASSUME slots' = slots, Executing' = Executing, Refused' = Refused
      PROVE  SlotsBoundTasks'
  BY <1>0, <1>3 DEF SlotsBoundTasks
<1>4. ASSUME NEW c \in Calls, Caller(c) PROVE SlotsBoundTasks'
  BY <1>3, <1>4 DEF Caller, Lookup, ReadGeneration, AppendRecord, SpawnProcessLane,
     ReceiveResult, CacheReply, Executing, Refused, recordVars, schedVars
<1>5. ASSUME NEW l \in Lanes, BeginProcessLane(l) \/ EndProcessLane(l)
      PROVE  SlotsBoundTasks'
  BY <1>3, <1>5 DEF BeginProcessLane, EndProcessLane, Executing, Refused, recordVars
<1>6. ASSUME NEW c \in Calls,
             TaskReturns(c) \/ UpdateLane(c) \/ SendResult(c) \/ SpawnNext(c)
      PROVE  SlotsBoundTasks'
  <2>1. slots' = slots
    BY <1>6 DEF TaskReturns, UpdateLane, SendResult, SpawnNext, schedVars
  <2>2. \A d \in Calls : exec'[d] \in {"none", "done"} <=> exec[d] \in {"none", "done"}
    BY <1>0, <1>6 DEF TaskReturns, UpdateLane, SendResult, SpawnNext
  <2>3. \A d \in Calls : result'[d] = "restarted" <=> result[d] = "restarted"
    <3>1. exec[c] = "updated" => result[c] = Pending
      BY DEF IInv, RecordInv
    <3> QED BY <1>0, <1>6, <3>1
            DEF TaskReturns, UpdateLane, SendResult, SpawnNext, Send, Pending
  <2> QED BY <1>3, <2>1, <2>2, <2>3 DEF Executing, Refused
<1>7. ASSUME NEW l \in Lanes, Operate(l) PROVE SlotsBoundTasks'
  <2>1. slots' = slots /\ exec' = exec
    BY <1>7 DEF Operate, ClearLane, ResetLane, SetConcurrency, recordVars, schedVars
  <2>2. \A d \in Calls : result'[d] = "restarted" <=> result[d] = "restarted"
    <3>1. \A d \in Calls : InQueue(d) => result[d] = Pending
      BY QueuedIsFresh
    <3> QED BY <1>7, <3>1 DEF Operate, ClearLane, ResetLane, SetConcurrency, RejectQueue,
            recordVars, Pending
  <2> QED BY <1>3, <2>1, <2>2 DEF Executing, Refused
<1>8. CASE \/ \E r \in Requests : Expire(r)
           \/ CloseBegins \/ CloseReturns \/ UNCHANGED vars
  BY <1>3, <1>8 DEF Expire, CloseBegins, CloseReturns, vars, recordVars, schedVars,
     Executing, Refused
<1> QED
  BY <1>1, <1>2, <1>4, <1>5, <1>6, <1>7, <1>8 DEF Next, ProcessLane, ExecuteTask

-----------------------------------------------------------------------------
\* The invariant holds throughout every behaviour of the queue.
THEOREM Inductive == Spec => []IInv
<1>1. Init => IInv
  BY InitIInv
<1>2. IInv /\ [Next]_vars => IInv'
  BY TypeStep, AnswersStep, LanesStep, SlotsStep DEF Answers, IInv
<1> QED BY <1>1, <1>2, PTL DEF Spec

\* Every variable keeps its type; in particular a lane's running count never
\* goes below zero.
THEOREM TypeCorrect == Spec => []TypeOK
<1>1. IInv => TypeOK
  BY DEF IInv
<1> QED BY <1>1, Inductive, PTL

\* No result channel of the queue is sent to twice.
THEOREM AnsweredOnceHolds == Spec => []AnsweredOnce
<1>1. IInv => AnsweredOnce
  BY DEF IInv, RecordInv, AnsweredOnce
<1> QED BY <1>1, Inductive, PTL

\* A rejected call never runs, and a call given a result ran.
THEOREM HonestRepliesHolds == Spec => []HonestReplies
<1>1. IInv => HonestReplies
  <2> SUFFICES ASSUME IInv, NEW c \in Calls
               PROVE  /\ result[c] \in Rejections => exec[c] = "none" /\ ~InQueue(c)
                      /\ result[c] = "returned" =>
                             exec[c] \in {"sent", "spawned", "done"}
    BY DEF HonestReplies
  <2>1. exec[c] \in Execs
    BY DEF IInv, TypeOK
  <2> QED BY <2>1, QueuedIsFresh DEF IInv, RecordInv, Rejections, Pending, Execs
<1> QED BY <1>1, Inductive, PTL

\* No reset, clear, race or skipped turn loses the record of a waiting caller.
THEOREM NoLostCallerHolds == Spec => []NoLostCaller
<1>1. IInv => NoLostCaller
  BY DEF IInv
<1> QED BY <1>1, Inductive, PTL

\* The tasks that count in a lane are at most one, if its concurrency is: only a
\* turn that starts the head of the queue adds to them, and it asks first.
LEMMA SerialStep ==
    ASSUME IInv, [Next]_vars, NEW l \in Lanes, concurrency[l] = 1, running[l] <= 1
    PROVE  (running[l] <= 1)'
<1>0. running \in [Lanes -> Nat]
  BY DEF IInv, TypeOK
<1>1. ASSUME NEW m \in Lanes, StartHead(m) PROVE (running[l] <= 1)'
  <2>1. running' = [running EXCEPT ![m] = @ + 1] /\ running[m] < concurrency[m]
    BY <1>1 DEF StartHead, HasWork
  <2> QED BY <1>0, <2>1
<1>2. ASSUME NEW c \in Calls, UpdateLane(c) PROVE (running[l] <= 1)'
  <2>1. /\ running' = [running EXCEPT ![LaneOf[c]] = @ - 1] /\ LaneOf[c] \in Lanes
    BY <1>2, LanesAssumption DEF UpdateLane
  <2> QED BY <1>0, <2>1
<1>3. CASE UNCHANGED running
  BY <1>3
<1>4. ASSUME NEW c \in Calls, Caller(c) \/ TaskReturns(c) \/ SendResult(c) \/ SpawnNext(c)
              \/ ReleaseSlot(c)
      PROVE  (running[l] <= 1)'
  BY <1>3, <1>4 DEF Caller, Lookup, ReadGeneration, AppendRecord, SpawnProcessLane,
     ReceiveResult, CacheReply, TaskReturns, SendResult, SpawnNext, ReleaseSlot, laneVars
<1>5. ASSUME NEW m \in Lanes, \/ BeginProcessLane(m) \/ RejectStaleHead(m)
                               \/ EndProcessLane(m) \/ Operate(m)
      PROVE  (running[l] <= 1)'
  BY <1>3, <1>5 DEF BeginProcessLane, RejectStaleHead, EndProcessLane, Operate, ClearLane,
     ResetLane, SetConcurrency, laneVars
<1>6. CASE \/ \E r \in Requests : Expire(r)
           \/ CloseBegins \/ CloseReturns \/ UNCHANGED vars
  BY <1>3, <1>6 DEF Expire, CloseBegins, CloseReturns, vars, laneVars
<1> QED
  BY <1>1, <1>2, <1>4, <1>5, <1>6 DEF Next, ProcessLane, ExecuteTask

\* A lane whose concurrency is one and stays one, as it is of every lane that
\* ensureLane makes for a session and of those that the node manager sets to one,
\* runs its tasks one after the other, through resets, clears and closing.  The
\* models of the runtime flow, the agent runner and the nodes rely on it.
\* queue.go:103-120, 249-256, 543-566; node/manager.go:97, 147.
THEOREM LaneOfOneIsSerial ==
    ASSUME NEW l \in Lanes
    PROVE  Spec /\ [](concurrency[l] = 1) => [](\A c, d \in Active(l) : c = d)
<1>1. Init => running[l] <= 1
  BY DEF Init
<1>2. IInv /\ concurrency[l] = 1 /\ running[l] <= 1 /\ [Next]_vars => (running[l] <= 1)'
  BY SerialStep
<1>3. IInv /\ running[l] <= 1 => \A c, d \in Active(l) : c = d
  <2> SUFFICES ASSUME IInv, running[l] <= 1, NEW c \in Active(l), NEW d \in Active(l),
                      c # d
               PROVE  FALSE
    OBVIOUS
  <2>1. /\ running[l] \in Nat /\ IsFiniteSet(Active(l))
        /\ running[l] = Cardinality(Active(l))
    BY ActiveFinite DEF IInv, TypeOK, RunningIsActive
  <2>2. Cardinality({c, d}) = 2 /\ IsFiniteSet({c, d})
    <3>1. IsFiniteSet({c}) /\ Cardinality({c}) = 1
      BY FS_Singleton
    <3>2. {c} \cup {d} = {c, d} /\ d \notin {c}
      OBVIOUS
    <3> QED BY <3>1, <3>2, FS_AddElement
  <2>3. Cardinality({c, d}) <= Cardinality(Active(l))
    BY <2>1, FS_Subset
  <2> QED BY <2>1, <2>2, <2>3
<1> QED BY <1>1, <1>2, <1>3, Inductive, PTL DEF Spec

\* The counts of the lanes are exact in every reachable state, and the global limit
\* holds for the executing tasks of all lanes together.
THEOREM CountersAgreeHolds == Spec => []CountersAgree
<1>1. IInv => CountersAgree
  BY DEF IInv, CountersAgree
<1> QED BY <1>1, Inductive, PTL

\* In a queue that is never reset no slot is lost: it is then the executing tasks
\* alone that wait for each other.  queue.go:261-300, 515-541.
THEOREM SlotsReturnWithoutResets ==
    Spec /\ [](\A l \in Lanes : generation[l] = 0) => [](slots = Executing)
<1> DEFINE Fresh == Refused = {} /\ \A c \in Calls : gen[c] = 0
           Unreset == \A l \in Lanes : generation[l] = 0
<1>1. Init => Fresh
  BY DEF Init, Refused, Pending
<1>2. IInv /\ Unreset /\ Fresh /\ [Next]_vars => Fresh'
  <2> SUFFICES ASSUME IInv, Unreset, Fresh, [Next]_vars PROVE Fresh'
    OBVIOUS
  <2>0. gen \in [Calls -> Nat] /\ DOMAIN result = Calls
    BY DEF IInv, TypeOK
  <2>1. ASSUME NEW c \in Calls, ReadGeneration(c) PROVE Fresh'
    BY <2>0, <2>1, LanesAssumption DEF ReadGeneration, recordVars, Refused
  <2>2. CASE UNCHANGED <<gen, result>>
    BY <2>2 DEF Refused
  <2>3. ASSUME NEW c \in Calls, \/ Lookup(c) \/ AppendRecord(c) \/ SpawnProcessLane(c)
                                \/ ReceiveResult(c) \/ CacheReply(c)
        PROVE  Fresh'
    BY <2>2, <2>3 DEF Lookup, AppendRecord, SpawnProcessLane, ReceiveResult, CacheReply,
       callerVars, recordVars
  <2>4. ASSUME NEW l \in Lanes, RejectStaleHead(l) PROVE Fresh'
    <3>1. Head(queue[l]) \in Calls
      BY <2>4, HeadIsFresh DEF RejectStaleHead, HasWork
    <3> QED BY <2>4, <3>1 DEF RejectStaleHead
  <2>5. ASSUME NEW l \in Lanes, BeginProcessLane(l) \/ StartHead(l) \/ EndProcessLane(l)
        PROVE  Fresh'
    BY <2>2, <2>5 DEF BeginProcessLane, StartHead, EndProcessLane,
       callerVars, recordVars
  <2>6. ASSUME gen' = gen, \A c \in Calls : result'[c] = "restarted" => result[c] = "restarted"
        PROVE  Fresh'
    BY <2>6 DEF Refused
  <2>7. ASSUME NEW c \in Calls, ExecuteTask(c) PROVE Fresh'
    BY <2>0, <2>6, <2>7 DEF ExecuteTask, TaskReturns, UpdateLane, SendResult, SpawnNext,
       ReleaseSlot, Send, callerVars, recordVars
  <2>8. ASSUME NEW l \in Lanes, Operate(l) PROVE Fresh'
    BY <2>6, <2>8 DEF Operate, ClearLane, ResetLane, SetConcurrency, RejectQueue,
       callerVars, recordVars
  <2>9. CASE \/ \E r \in Requests : Expire(r)
             \/ CloseBegins \/ CloseReturns \/ UNCHANGED vars
    BY <2>2, <2>9 DEF Expire, CloseBegins, CloseReturns, vars, callerVars, recordVars
  <2> QED
    BY <2>1, <2>3, <2>4, <2>5, <2>7, <2>8, <2>9 DEF Next, Caller, ProcessLane
<1>3. IInv /\ Fresh => slots = Executing
  BY DEF IInv, SlotsBoundTasks
<1> HIDE DEF Fresh
<1> QED BY <1>1, <1>2, <1>3, Inductive, PTL DEF Spec

-----------------------------------------------------------------------------
\* The refinement.  A call has a reply from the moment it received or looked
\* one up, and what the cache holds was the reply of a call of that request.
ReplyInv ==
    /\ \A c \in Calls : reply[c] # Pending <=> pc[c] \in {"replied", "done"}
    /\ \A r \in Requests : cache[r] # Pending =>
           \E c \in Calls : RequestOf[c] = r /\ pc[c] = "done"

\* Who has a reply has no task that is still to answer.
ReplySettled ==
    \A c \in Calls : reply[c] # Pending => exec[c] = "none" \/ result[c] # Pending

RefInv == IInv /\ ReplyInv /\ ReplySettled

\* At the start no reply is cached.
LEMMA InitReply == Init => ReplyInv /\ ReplySettled
BY DEF Init, ReplyInv, ReplySettled, Pending

\* Every step keeps replies and cache together.
LEMMA ReplyStep == RefInv /\ [Next]_vars => ReplyInv'
<1> SUFFICES ASSUME RefInv, [Next]_vars PROVE ReplyInv'
  OBVIOUS
<1> USE DEF RefInv
<1>0. /\ pc \in [Calls -> PCs] /\ reply \in [Calls -> Replies \cup {Pending}]
      /\ result \in [Calls -> Replies \cup {Pending}]
      /\ cache \in [Requests -> Replies \cup {Pending}]
      /\ RequestOf \in [Calls -> Requests \cup {NoRequest}] /\ NoRequest \notin Requests
  BY LanesAssumption DEF IInv, TypeOK
<1>1. ASSUME UNCHANGED <<reply, cache>>,
             \A c \in Calls : pc'[c] = pc[c] \/ {pc[c], pc'[c]} \subseteq PCs \ {"replied", "done"}
      PROVE  ReplyInv'
  <2>1. \A c \in Calls : pc'[c] \in {"replied", "done"} <=> pc[c] \in {"replied", "done"}
    BY <1>1
  <2>2. \A c \in Calls : pc[c] = "done" => pc'[c] = "done"
    BY <1>1
  <2> QED BY <1>1, <2>1, <2>2 DEF ReplyInv
<1>2. ASSUME NEW c \in Calls, Lookup(c) PROVE ReplyInv'
  <2>1. /\ \A d \in Calls \ {c} : pc'[d] = pc[d] /\ reply'[d] = reply[d]
        /\ cache' = cache /\ pc[c] = "idle"
        /\ \/ pc'[c] = "done" /\ reply'[c] # Pending
           \/ pc'[c] = "missed" /\ reply'[c] = Pending
    BY <1>0, <1>2 DEF Lookup
  <2> QED BY <2>1 DEF ReplyInv
<1>3. ASSUME NEW c \in Calls, ReceiveResult(c) PROVE ReplyInv'
  <2>1. /\ \A d \in Calls \ {c} : pc'[d] = pc[d] /\ reply'[d] = reply[d]
        /\ cache' = cache /\ pc[c] = "waiting"
        /\ pc'[c] = "replied" /\ reply'[c] # Pending
    BY <1>0, <1>3 DEF ReceiveResult
  <2> QED BY <2>1 DEF ReplyInv
<1>4. ASSUME NEW c \in Calls, CacheReply(c) PROVE ReplyInv'
  <2>1. /\ \A d \in Calls \ {c} : pc'[d] = pc[d]
        /\ reply' = reply /\ pc[c] = "replied" /\ pc'[c] = "done"
        /\ \A r \in Requests : r # RequestOf[c] => cache'[r] = cache[r]
    BY <1>0, <1>4 DEF CacheReply
  <2> QED BY <2>1 DEF ReplyInv
<1>5. ASSUME NEW c \in Calls,
             ReadGeneration(c) \/ AppendRecord(c) \/ SpawnProcessLane(c)
      PROVE  ReplyInv'
  BY <1>0, <1>1, <1>5 DEF ReadGeneration, AppendRecord, SpawnProcessLane, PCs
<1>6. ASSUME NEW c \in Calls, ExecuteTask(c) PROVE ReplyInv'
  BY <1>1, <1>6 DEF ExecuteTask, TaskReturns, UpdateLane, SendResult, SpawnNext,
     ReleaseSlot, callerVars
<1>7. ASSUME NEW l \in Lanes, ProcessLane(l) \/ Operate(l) PROVE ReplyInv'
  BY <1>1, <1>7 DEF ProcessLane, Operate, BeginProcessLane, StartHead, RejectStaleHead,
     EndProcessLane, ClearLane, ResetLane, SetConcurrency, callerVars
<1>8. ASSUME NEW r \in Requests, Expire(r) PROVE ReplyInv'
  <2>1. /\ UNCHANGED <<pc, reply>>
        /\ \A s \in Requests : cache'[s] # Pending => cache[s] # Pending
    BY <1>0, <1>8 DEF Expire, callerVars
  <2> QED BY <2>1 DEF ReplyInv
<1>9. CASE CloseBegins \/ CloseReturns \/ UNCHANGED vars
  BY <1>1, <1>9 DEF CloseBegins, CloseReturns, vars, callerVars
<1> QED
  BY <1>2, <1>3, <1>4, <1>5, <1>6, <1>7, <1>8, <1>9 DEF Next, Caller

\* Every step leaves the replied calls settled.
LEMMA SettledStep == RefInv /\ [Next]_vars => ReplySettled'
<1> SUFFICES ASSUME RefInv, [Next]_vars PROVE ReplySettled'
  OBVIOUS
<1> USE DEF RefInv
<1>0. /\ pc \in [Calls -> PCs] /\ reply \in [Calls -> Replies \cup {Pending}]
      /\ result \in [Calls -> Replies \cup {Pending}]
      /\ exec \in [Calls -> Execs] /\ Pending \notin Replies
      /\ \A c \in Calls : exec[c] \in {"run", "ran", "updated"} => reply[c] = Pending
  BY DEF IInv, TypeOK, RecordInv, ReplySettled, Replies, Rejections, Pending
<1>1. ASSUME UNCHANGED <<reply, exec>>,
             \A c \in Calls : result[c] # Pending => result'[c] # Pending
      PROVE  ReplySettled'
  BY <1>1 DEF ReplySettled
<1>2. ASSUME NEW c \in Calls, Lookup(c) \/ ReceiveResult(c) PROVE ReplySettled'
  <2>1. /\ \A d \in Calls \ {c} : reply'[d] = reply[d]
        /\ UNCHANGED <<exec, result>>
        /\ exec[c] = "none" \/ result[c] # Pending
    BY <1>0, <1>2 DEF Lookup, ReceiveResult, recordVars, IInv, RecordInv
  <2> QED BY <2>1 DEF ReplySettled
<1>3. ASSUME NEW c \in Calls,
             \/ ReadGeneration(c) \/ AppendRecord(c) \/ SpawnProcessLane(c)
             \/ CacheReply(c)
      PROVE  ReplySettled'
  BY <1>1, <1>3 DEF ReadGeneration, AppendRecord, SpawnProcessLane, CacheReply, recordVars
<1>4. ASSUME NEW c \in Calls, ExecuteTask(c) PROVE ReplySettled'
  <2>1. /\ \A d \in Calls \ {c} : exec'[d] = exec[d] /\ result'[d] = result[d]
        /\ UNCHANGED reply
        /\ reply[c] = Pending \/ result'[c] # Pending
    BY <1>0, <1>4 DEF ExecuteTask, TaskReturns, UpdateLane, SendResult, SpawnNext,
       ReleaseSlot, callerVars, Send, ReplySettled, Replies, Pending
  <2> QED BY <2>1 DEF ReplySettled
<1>5. ASSUME NEW l \in Lanes, StartHead(l) PROVE ReplySettled'
  <2> DEFINE c == Head(queue[l])
  <2>1. /\ exec' = [exec EXCEPT ![c] = "run"] /\ UNCHANGED <<reply, result>>
        /\ c \in Calls /\ reply[c] = Pending
    BY <1>5, HeadIsFresh DEF StartHead, HasWork, callerVars, ReplyInv
  <2> HIDE DEF c
  <2> QED BY <1>0, <2>1 DEF ReplySettled
<1>6. ASSUME NEW l \in Lanes, RejectStaleHead(l) PROVE ReplySettled'
  <2>1. /\ result' = [result EXCEPT ![Head(queue[l])] = "restarted"]
        /\ UNCHANGED <<reply, exec>>
    BY <1>6 DEF RejectStaleHead, Send, callerVars
  <2> QED BY <1>0, <1>1, <2>1 DEF Pending
<1>7. ASSUME NEW l \in Lanes, Operate(l) PROVE ReplySettled'
  <2>1. UNCHANGED <<reply, exec>>
    BY <1>7 DEF Operate, ClearLane, ResetLane, SetConcurrency, callerVars, recordVars
  <2>2. \A c \in Calls : result[c] # Pending => result'[c] # Pending
    BY <1>7 DEF Operate, ClearLane, ResetLane, SetConcurrency, RejectQueue, recordVars,
       Pending
  <2> QED BY <1>1, <2>1, <2>2
<1>8. CASE \/ \E l \in Lanes : BeginProcessLane(l) \/ EndProcessLane(l)
           \/ \E r \in Requests : Expire(r)
           \/ CloseBegins \/ CloseReturns \/ UNCHANGED vars
  BY <1>1, <1>8 DEF BeginProcessLane, EndProcessLane, Expire, CloseBegins, CloseReturns,
     vars, callerVars, recordVars
<1> QED
  BY <1>2, <1>3, <1>4, <1>5, <1>6, <1>7, <1>8 DEF Next, Caller, ProcessLane

-----------------------------------------------------------------------------
\* Deduplication.  The calls that are to be run, or were.
Missed(c) == pc[c] \notin {"idle", "done"} \/ exec[c] # "none"

\* A call that is done has its request in the cache until the entry expires, so
\* that who finds nothing there overlaps with every other call that is run.
DedupInv ==
    \A c \in Calls : RequestOf[c] \in Requests \ lapsed =>
        /\ pc[c] = "done" => cache[RequestOf[c]] # Pending
        /\ \A d \in Twins(c) :
               Missed(c) /\ Missed(d) => d \in beside[c] \/ c \in beside[d]

\* Nothing was looked up at the start.
LEMMA InitDedup == Init => DedupInv
BY DEF Init, DedupInv, Missed

\* What most steps leave alone, for the calls of one request.
LEMMA DedupStays ==
    ASSUME RefInv, DedupInv, UNCHANGED <<beside, cache>>, lapsed \subseteq lapsed',
           \A c \in Calls : (pc'[c] = "done" => pc[c] = "done") /\ (Missed(c)' => Missed(c))
    PROVE  DedupInv'
  BY DEF DedupInv, Twins

\* Every step keeps what the cache promises.
LEMMA DedupStep == RefInv /\ DedupInv /\ [Next]_vars => DedupInv'
<1> SUFFICES ASSUME RefInv, DedupInv, [Next]_vars PROVE DedupInv'
  OBVIOUS
<1>0. /\ TypeOK /\ RecordInv /\ QueueInv /\ ReplyInv
      /\ \A c \in Calls : RequestOf[c] \in Requests \/ RequestOf[c] = NoRequest
  BY LanesAssumption DEF RefInv, IInv
<1> USE DEF callerVars, recordVars, laneVars, schedVars, dedupHistory
\* The step that finds nothing in the cache.
<1>1. ASSUME NEW x \in Calls, Lookup(x) PROVE DedupInv'
  <2>1. /\ pc[x] = "idle" /\ exec[x] = "none" /\ UNCHANGED <<exec, cache, lapsed>>
        /\ \A c \in Calls \ {x} : pc'[c] = pc[c] /\ beside'[c] = beside[c]
        /\ \A c \in Calls \ {x} : Missed(c)' = Missed(c)
    BY <1>0, <1>1 DEF Lookup, TypeOK, RecordInv, Missed
  <2> SUFFICES ASSUME NEW c \in Calls, RequestOf[c] \in Requests \ lapsed
               PROVE  /\ pc'[c] = "done" => cache[RequestOf[c]] # Pending
                      /\ \A d \in Twins(c) :
                             Missed(c)' /\ Missed(d)' => d \in beside'[c] \/ c \in beside'[d]
    BY <2>1 DEF DedupInv, Twins
  <2>2. RequestOf[c] # NoRequest
    BY LanesAssumption
  <2>3. CASE RequestOf[x] # NoRequest /\ cache[RequestOf[x]] # Pending
    <3>1. pc'[x] = "done" /\ ~Missed(x)'
      BY <1>0, <1>1, <2>1, <2>3 DEF Lookup, TypeOK, Missed
    <3> QED BY <2>1, <2>3, <3>1 DEF DedupInv, Twins
  <2>4. CASE ~(RequestOf[x] # NoRequest /\ cache[RequestOf[x]] # Pending)
    <3>1. /\ pc'[x] = "missed"
          /\ beside'[x] = {d \in Twins(x) : pc[d] \notin {"idle", "done"}}
      BY <1>0, <1>1, <2>4 DEF Lookup, TypeOK
    <3>2. pc'[c] = "done" => cache[RequestOf[c]] # Pending
      BY <2>1, <3>1 DEF DedupInv
    <3>3. ASSUME NEW d \in Twins(x), RequestOf[x] \in Requests \ lapsed, Missed(d)
          PROVE  d \in beside'[x]
      <4>1. d \in Calls /\ RequestOf[d] = RequestOf[x] /\ RequestOf[x] # NoRequest
        BY DEF Twins
      <4>2. pc[d] # "done"
        BY <2>4, <3>3, <4>1 DEF DedupInv
      <4>3. pc[d] # "idle"
        BY <1>0, <3>3, <4>1 DEF RecordInv, Missed
      <4> QED BY <3>1, <4>2, <4>3
    <3>4. ASSUME NEW d \in Twins(c), Missed(c)', Missed(d)'
          PROVE  d \in beside'[c] \/ c \in beside'[d]
      <4>1. d \in Calls /\ d # c /\ RequestOf[d] = RequestOf[c] /\ c \in Twins(d)
        BY DEF Twins
      <4>2. CASE c = x
        BY <2>1, <3>3, <3>4, <4>1, <4>2
      <4>3. CASE d = x
        BY <2>1, <3>3, <3>4, <4>1, <4>3
      <4>4. CASE c # x /\ d # x
        BY <2>1, <3>4, <4>1, <4>4 DEF DedupInv
      <4> QED BY <4>2, <4>3, <4>4
    <3> QED BY <3>2, <3>4
  <2> QED BY <2>3, <2>4
\* The step that fills the cache.
<1>2. ASSUME NEW x \in Calls, CacheReply(x) PROVE DedupInv'
  <2>1. /\ UNCHANGED <<exec, dedupHistory>> /\ reply[x] # Pending
        /\ \A c \in Calls \ {x} : pc'[c] = pc[c]
        /\ \A c \in Calls : Missed(c)' => Missed(c)
    BY <1>0, <1>2 DEF CacheReply, TypeOK, ReplyInv, Missed
  <2>2. \A r \in Requests : cache[r] # Pending => cache'[r] # Pending
    BY <1>0, <1>2, <2>1 DEF CacheReply, TypeOK
  <2>3. RequestOf[x] \in Requests => cache'[RequestOf[x]] # Pending
    BY <1>0, <1>2, <2>1, LanesAssumption DEF CacheReply, TypeOK
  <2> QED BY <2>1, <2>2, <2>3 DEF DedupInv, Twins
\* The step that empties it.
<1>3. ASSUME NEW r \in Requests, Expire(r) PROVE DedupInv'
  <2>1. /\ UNCHANGED <<pc, exec, beside>> /\ lapsed' = lapsed \cup {r}
        /\ \A q \in Requests \ {r} : cache'[q] = cache[q]
        /\ \A c \in Calls : Missed(c)' = Missed(c)
    BY <1>0, <1>3 DEF Expire, TypeOK, Missed
  <2> QED BY <2>1 DEF DedupInv, Twins
<1>4. ASSUME NEW c \in Calls, ReadGeneration(c) \/ AppendRecord(c) \/ SpawnProcessLane(c)
             \/ ReceiveResult(c)
      PROVE  DedupInv'
  <2>1. UNCHANGED <<beside, cache, lapsed, exec>>
    BY <1>4 DEF ReadGeneration, AppendRecord, SpawnProcessLane, ReceiveResult
  <2>2. \A d \in Calls : (pc'[d] = "done" => pc[d] = "done") /\ (Missed(d)' => Missed(d))
    BY <1>0, <1>4, <2>1 DEF ReadGeneration, AppendRecord, SpawnProcessLane, ReceiveResult,
       TypeOK, Missed
  <2> QED BY <2>1, <2>2, DedupStays
<1>5. ASSUME NEW l \in Lanes, StartHead(l) PROVE DedupInv'
  <2> DEFINE h == Head(queue[l])
  <2>1. h \in Calls /\ pc[h] \in {"queued", "waiting"}
    BY <1>0, <1>5, TailRecords DEF StartHead, HasWork, TypeOK, QueueInv
  <2>2. UNCHANGED <<beside, cache, lapsed, pc>> /\ \A d \in Calls \ {h} : exec'[d] = exec[d]
    BY <1>0, <1>5 DEF StartHead, TypeOK
  <2>3. \A d \in Calls : Missed(d)' => Missed(d)
    BY <2>1, <2>2 DEF Missed
  <2> QED BY <2>2, <2>3, DedupStays
<1>6. ASSUME NEW c \in Calls, TaskReturns(c) \/ UpdateLane(c) \/ SendResult(c) \/ SpawnNext(c)
             \/ ReleaseSlot(c)
      PROVE  DedupInv'
  <2>1. UNCHANGED <<beside, cache, lapsed, pc>> /\ exec[c] # "none"
        /\ \A d \in Calls \ {c} : exec'[d] = exec[d]
    BY <1>0, <1>6 DEF TaskReturns, UpdateLane, SendResult, SpawnNext, ReleaseSlot, TypeOK
  <2>2. \A d \in Calls : Missed(d)' => Missed(d)
    BY <2>1 DEF Missed
  <2> QED BY <2>1, <2>2, DedupStays
<1>7. ASSUME UNCHANGED <<beside, cache, lapsed, pc, exec>> PROVE DedupInv'
  <2>1. \A d \in Calls : Missed(d)' => Missed(d)
    BY <1>7 DEF Missed
  <2> QED BY <1>7, <2>1, DedupStays
<1>8. ASSUME NEW l \in Lanes, BeginProcessLane(l) \/ RejectStaleHead(l) \/ EndProcessLane(l)
             \/ Operate(l)
      PROVE  DedupInv'
  BY <1>7, <1>8 DEF BeginProcessLane, RejectStaleHead, EndProcessLane, Operate, ClearLane,
     ResetLane, SetConcurrency
<1>9. CASE CloseBegins \/ CloseReturns \/ UNCHANGED vars
  BY <1>7, <1>9 DEF CloseBegins, CloseReturns, vars
<1> QED BY <1>1, <1>2, <1>3, <1>4, <1>5, <1>6, <1>8, <1>9 DEF Next, Caller, ProcessLane,
        ExecuteTask

-----------------------------------------------------------------------------
\* Where a call is, read off its phase.
LEMMA PhaseIs ==
    ASSUME RefInv, NEW c \in Calls
    PROVE  /\ Phase(c) = "answered" <=> (result[c] # Pending \/ reply[c] # Pending)
           /\ Phase(c) = "running" <=> exec[c] \in {"run", "ran"}
           /\ Phase(c) = "finished" <=> exec[c] = "updated"
           /\ Phase(c) = "waiting" <=> InQueue(c)
           /\ pc[c] \in {"idle", "missed", "stamped"} => Phase(c) = "idle"
<1>0. pc[c] \in PCs /\ exec[c] \in Execs
  BY DEF RefInv, IInv, TypeOK
<1>1. /\ exec[c] \in {"run", "ran", "updated"} => result[c] = Pending
      /\ exec[c] \in {"run", "ran", "updated"} => reply[c] = Pending
      /\ pc[c] \in {"idle", "missed", "stamped"} =>
             exec[c] = "none" /\ result[c] = Pending /\ reply[c] = Pending
  BY DEF RefInv, IInv, RecordInv, ReplyInv, ReplySettled
<1>2. InQueue(c) => /\ pc[c] \in {"queued", "waiting"} /\ exec[c] = "none"
                    /\ result[c] = Pending /\ reply[c] = Pending
  BY QueuedIsFresh DEF RefInv, ReplyInv
<1>3. pc[c] \in {"queued", "waiting"} /\ result[c] = Pending /\ exec[c] = "none"
      => InQueue(c)
  BY DEF RefInv, IInv, NoLostCaller
<1>4. CASE result[c] # Pending \/ reply[c] # Pending
  <2>1. Phase(c) = "answered"
    BY <1>4 DEF Phase, Answered
  <2>2. /\ exec[c] \notin {"run", "ran", "updated"} /\ ~InQueue(c)
        /\ pc[c] \notin {"idle", "missed", "stamped"}
    BY <1>1, <1>2, <1>4
  <2> QED BY <1>4, <2>1, <2>2
<1>5. CASE result[c] = Pending /\ reply[c] = Pending
  BY <1>0, <1>1, <1>2, <1>3, <1>5 DEF Phase, Answered, Execs, PCs
<1> QED BY <1>4, <1>5

\* A call whose variables a step leaves alone keeps its phase.
LEMMA PhaseKept ==
    ASSUME NEW c \in Calls, result'[c] = result[c], reply'[c] = reply[c],
           exec'[c] = exec[c],
           pc'[c] = pc[c]
    PROVE  Phase(c)' = Phase(c)
BY DEF Phase, Answered

\* The service counts as the queue does.
LEMMA ServiceCardinality == \A S : Service!Cardinality(S) = Cardinality(S)
BY DEF Service!Cardinality, Cardinality

\* The initial states of the queue are initial states of the service.
LEMMA RefinesInit == Init => Service!Init
<1> SUFFICES ASSUME Init PROVE Service!Init
  OBVIOUS
<1>1. \A c \in Calls : Phase(c) = "idle"
  BY DEF Init, Phase, Answered, Pending
<1> QED BY <1>1, BoundsAssumption DEF Init, Service!Init

\* A step that moves no phase and leaves lines and limits alone is none of the service.
LEMMA RefinesStutter ==
    ASSUME UNCHANGED <<queue, concurrency>>, \A c \in Calls : Phase(c)' = Phase(c)
    PROVE  UNCHANGED Service!vars
BY DEF Service!vars

\* Callers submit their calls, or replay an answer; to receive one and to put it
\* into the cache changes nothing for the service.
LEMMA RefinesCaller ==
    ASSUME RefInv, NEW c \in Calls, Caller(c)
    PROVE  [Service!Next]_(Service!vars)
<1> USE DEF RefInv
<1>0. /\ pc \in [Calls -> PCs] /\ reply \in [Calls -> Replies \cup {Pending}]
      /\ RequestOf \in [Calls -> Requests \cup {NoRequest}] /\ NoRequest \notin Requests
      /\ queue \in [Lanes -> Seq(Calls)]
      /\ LaneOf[c] \in Lanes
  BY LanesAssumption DEF IInv, TypeOK
<1>1. CASE Lookup(c)
  <2>1. /\ \A d \in Calls \ {c} : pc'[d] = pc[d] /\ reply'[d] = reply[d]
        /\ pc[c] = "idle"
        /\ UNCHANGED <<exec, result, queue, concurrency, cache>>
    BY <1>0, <1>1 DEF Lookup, recordVars, laneVars
  <2>2. \A d \in Calls \ {c} : Phase(d)' = Phase(d)
    BY <2>1, PhaseKept
  <2>3. Phase(c) = "idle" /\ exec[c] = "none" /\ result[c] = Pending /\ reply[c] = Pending
    BY <2>1, PhaseIs DEF IInv, RecordInv, ReplyInv
  <2>4. CASE RequestOf[c] # NoRequest /\ cache[RequestOf[c]] # Pending
    <3>1. reply'[c] # Pending
      BY <1>0, <1>1, <2>4 DEF Lookup
    <3>2. Phase(c)' = "answered"
      BY <3>1 DEF Phase, Answered
    <3>3. PICK d \in Calls : RequestOf[d] = RequestOf[c] /\ pc[d] = "done"
      BY <1>0, <2>4 DEF ReplyInv
    <3>4. d \in SameRequest[c] /\ Phase(d) = "answered"
      BY <2>1, <2>4, <3>3, PhaseIs DEF SameRequest, Twins, ReplyInv
    <3>5. Service!Replay(c)
      BY <2>1, <2>2, <2>3, <3>2, <3>4 DEF Service!Replay, SameRequest, Twins
    <3> QED BY <3>5 DEF Service!Next
  <2>5. CASE ~(RequestOf[c] # NoRequest /\ cache[RequestOf[c]] # Pending)
    <3>1. reply'[c] = Pending /\ pc'[c] = "missed"
      BY <1>0, <1>1, <2>5 DEF Lookup
    <3>2. Phase(c)' = "idle"
      BY <2>1, <2>3, <3>1 DEF Phase, Answered
    <3> QED BY <2>1, <2>2, <2>3, <3>2, RefinesStutter
  <2> QED BY <2>4, <2>5
<1>2. CASE AppendRecord(c)
  <2>1. /\ \A d \in Calls \ {c} : pc'[d] = pc[d]
        /\ pc[c] = "stamped" /\ pc'[c] = "queued"
        /\ UNCHANGED <<exec, result, reply, concurrency>>
        /\ queue' = [queue EXCEPT ![LaneOf[c]] = Append(@, c)]
    BY <1>0, <1>2 DEF AppendRecord, recordVars
  <2>2. \A d \in Calls \ {c} : Phase(d)' = Phase(d)
    BY <2>1, PhaseKept
  <2>3. Phase(c) = "idle" /\ exec[c] = "none" /\ result[c] = Pending /\ reply[c] = Pending
    BY <2>1, PhaseIs DEF IInv, RecordInv, ReplyInv
  <2>4. Phase(c)' = "waiting"
    BY <2>1, <2>3 DEF Phase, Answered
  <2>5. Service!Submit(c)
    BY <2>1, <2>2, <2>3, <2>4 DEF Service!Submit
  <2> QED BY <2>5 DEF Service!Next
<1>3. CASE ReadGeneration(c) \/ SpawnProcessLane(c) \/ ReceiveResult(c) \/ CacheReply(c)
  <2>1. /\ \A d \in Calls \ {c} : pc'[d] = pc[d] /\ reply'[d] = reply[d]
        /\ UNCHANGED <<exec, result, queue, concurrency>>
    BY <1>0, <1>3 DEF ReadGeneration, SpawnProcessLane, ReceiveResult, CacheReply,
       recordVars, laneVars
  <2>2. \A d \in Calls \ {c} : Phase(d)' = Phase(d)
    BY <2>1, PhaseKept
  <2>6. Phase(c)' = Phase(c)
    <3>3. CASE ReadGeneration(c)
      <4>1. pc[c] = "missed" /\ pc'[c] = "stamped" /\ reply'[c] = reply[c]
        BY <1>0, <3>3 DEF ReadGeneration
      <4>2. exec[c] = "none" /\ result[c] = Pending /\ reply[c] = Pending
        BY <4>1 DEF IInv, RecordInv, ReplyInv
      <4>3. Phase(c)' = "idle" /\ Phase(c) = "idle"
        BY <2>1, <4>1, <4>2 DEF Phase, Answered
      <4> QED BY <4>3
    <3>4. CASE SpawnProcessLane(c)
      <4>1. pc[c] = "queued" /\ pc'[c] = "waiting" /\ reply'[c] = reply[c]
        BY <1>0, <3>4 DEF SpawnProcessLane
      <4>2. Phase(c)' = Phase(c)
        BY <2>1, <4>1 DEF Phase, Answered
      <4> QED BY <4>2
    <3>5. CASE ReceiveResult(c) \/ CacheReply(c)
      <4>1. result[c] # Pending \/ reply[c] # Pending
        BY <3>5 DEF ReceiveResult, CacheReply, ReplyInv
      <4>2. result'[c] # Pending \/ reply'[c] # Pending
        BY <2>1, <3>5, <4>1 DEF ReceiveResult, CacheReply
      <4>3. Phase(c)' = "answered" /\ Phase(c) = "answered"
        BY <4>1, <4>2 DEF Phase, Answered
      <4> QED BY <4>3
    <3> QED BY <1>3, <3>3, <3>4, <3>5
  <2> QED BY <2>1, <2>2, <2>6, RefinesStutter
<1> QED BY <1>1, <1>2, <1>3 DEF Caller

\* processLane starts or rejects the first call of a line.
LEMMA RefinesProcessLane ==
    ASSUME RefInv, NEW l \in Lanes, ProcessLane(l)
    PROVE  [Service!Next]_(Service!vars)
<1> USE DEF RefInv
<1>c. PICK c : c = Head(queue[l])
  OBVIOUS
<1>0. /\ exec \in [Calls -> Execs] /\ result \in [Calls -> Replies \cup {Pending}]
      /\ queue \in [Lanes -> Seq(Calls)]
  BY DEF IInv, TypeOK
<1>1. CASE StartHead(l)
  <2>1. /\ queue[l] # <<>> /\ running[l] < concurrency[l]
        /\ UNCHANGED <<pc, result, reply, concurrency>>
        /\ exec' = [exec EXCEPT ![c] = "run"]
        /\ queue' = [queue EXCEPT ![l] = Tail(@)]
    BY <1>c, <1>1 DEF StartHead, HasWork, callerVars
  <2>2. /\ c \in Calls /\ result[c] = Pending /\ reply[c] = Pending
    BY <1>c, <2>1, HeadIsFresh DEF ReplyInv
  <2>3. \A d \in Calls \ {c} : Phase(d)' = Phase(d)
    BY <1>0, <2>1, PhaseKept
  <2>4. Phase(c)' = "running"
    BY <1>0, <2>1, <2>2 DEF Phase, Answered
  <2>5. Active(l) = {d \in Calls : LaneOf[d] = l /\ Phase(d) = "running"}
    BY PhaseIs DEF Active
  <2>6. Service!RunningIn(l) = Active(l)
    BY <2>5 DEF Service!RunningIn
  <2>7. Service!Start(l)
    BY <1>c, <2>1, <2>2, <2>3, <2>4, <2>6, ServiceCardinality DEF Service!Start, IInv, RunningIsActive
  <2> QED BY <2>7 DEF Service!Next
<1>2. CASE RejectStaleHead(l)
  <2>1. /\ queue[l] # <<>>
        /\ UNCHANGED <<pc, exec, reply, concurrency>>
        /\ result' = [result EXCEPT ![c] = "restarted"]
        /\ queue' = [queue EXCEPT ![l] = Tail(@)]
    BY <1>c, <1>2 DEF RejectStaleHead, HasWork, Send, callerVars
  <2>2. c \in Calls
    BY <1>c, <2>1, HeadIsFresh
  <2>3. \A d \in Calls \ {c} : Phase(d)' = Phase(d)
    BY <1>0, <2>1, PhaseKept
  <2>4. result'[c] # Pending
    BY <1>0, <2>1, <2>2 DEF Pending
  <2>5. Phase(c)' = "answered"
    BY <2>4 DEF Phase, Answered
  <2>6. Service!RejectFirst(l)
    BY <1>c, <2>1, <2>2, <2>3, <2>5 DEF Service!RejectFirst
  <2> QED BY <2>6 DEF Service!Next
<1>3. CASE BeginProcessLane(l) \/ EndProcessLane(l)
  <2>1. UNCHANGED <<pc, exec, result, reply, queue, concurrency>>
    BY <1>3 DEF BeginProcessLane, EndProcessLane, callerVars, recordVars, laneVars
  <2> QED BY <2>1, PhaseKept, RefinesStutter
<1> QED BY <1>1, <1>2, <1>3 DEF ProcessLane

\* executeTask: the end of a task and its answer are two steps of the service.
LEMMA RefinesExecuteTask ==
    ASSUME RefInv, NEW c \in Calls, ExecuteTask(c)
    PROVE  [Service!Next]_(Service!vars)
<1> USE DEF RefInv
<1>0. /\ exec \in [Calls -> Execs] /\ result \in [Calls -> Replies \cup {Pending}]
  BY DEF IInv, TypeOK
<1>1. /\ \A d \in Calls \ {c} : exec'[d] = exec[d] /\ result'[d] = result[d]
      /\ UNCHANGED <<pc, reply, queue, concurrency>>
  BY <1>0 DEF ExecuteTask, TaskReturns, UpdateLane, SendResult, SpawnNext, ReleaseSlot,
     Send, callerVars, laneVars
<1>2. \A d \in Calls \ {c} : Phase(d)' = Phase(d)
  BY <1>1, PhaseKept
<1>3. CASE UpdateLane(c)
  <2>1. exec[c] = "ran" /\ exec'[c] = "updated" /\ result' = result
    BY <1>0, <1>3 DEF UpdateLane
  <2>2. result[c] = Pending /\ reply[c] = Pending
    BY <2>1 DEF IInv, RecordInv, ReplySettled
  <2>3. Phase(c) = "running" /\ Phase(c)' = "finished"
    BY <1>1, <2>1, <2>2 DEF Phase, Answered
  <2>4. Service!Finish(c)
    BY <1>1, <1>2, <2>3 DEF Service!Finish
  <2> QED BY <2>4 DEF Service!Next
<1>4. CASE SendResult(c)
  <2>1. exec[c] = "updated" /\ result'[c] # Pending
    BY <1>0, <1>4 DEF SendResult, Send, Pending
  <2>2. Phase(c) = "finished" /\ Phase(c)' = "answered"
    <3>1. Phase(c) = "finished"
      BY <2>1, PhaseIs
    <3>2. Phase(c)' = "answered"
      BY <2>1 DEF Phase, Answered
    <3> QED BY <3>1, <3>2
  <2>3. Service!Answer(c)
    BY <1>1, <1>2, <2>2 DEF Service!Answer
  <2> QED BY <2>3 DEF Service!Next
<1>5. CASE TaskReturns(c) \/ SpawnNext(c) \/ ReleaseSlot(c)
  <2>1. result' = result
    BY <1>5 DEF TaskReturns, SpawnNext, ReleaseSlot
  <2>2. \/ exec[c] = "run" /\ exec'[c] = "ran"
        \/ exec[c] \in {"sent", "spawned"}
    BY <1>0, <1>5 DEF TaskReturns, SpawnNext, ReleaseSlot
  <2>5. Phase(c)' = Phase(c)
    <3>3. CASE exec[c] = "run" /\ exec'[c] = "ran"
      BY <1>1, <2>1, <3>3 DEF Phase, Answered
    <3>4. CASE exec[c] \in {"sent", "spawned"}
      <4>1. result[c] # Pending
        BY <3>4 DEF IInv, RecordInv, Pending
      <4>2. result'[c] # Pending
        BY <2>1, <4>1
      <4> QED BY <4>1, <4>2 DEF Phase, Answered
    <3> QED BY <2>2, <3>3, <3>4
  <2> QED BY <1>1, <1>2, <2>5, RefinesStutter
<1> QED BY <1>3, <1>4, <1>5 DEF ExecuteTask

\* ClearLane and ResetLane reject the whole line, SetConcurrency adjusts the limit.
LEMMA RefinesOperate ==
    ASSUME RefInv, NEW l \in Lanes, Operate(l)
    PROVE  [Service!Next]_(Service!vars)
<1> USE DEF RefInv
<1>0. /\ result \in [Calls -> Replies \cup {Pending}]
      /\ queue \in [Lanes -> Seq(Calls)] /\ concurrency \in [Lanes -> Nat \ {0}]
  BY DEF IInv, TypeOK
<1>1. ASSUME NEW r \in {"cleared", "reset"}, RejectQueue(l, r),
             UNCHANGED <<pc, exec, reply, concurrency>>
      PROVE  [Service!Next]_(Service!vars)
  <2>1. \A d \in Calls : LaneOf[d] = l /\ InQueue(d) => Phase(d)' = "answered"
    <3> SUFFICES ASSUME NEW d \in Calls, LaneOf[d] = l, InQueue(d)
                 PROVE  Phase(d)' = "answered"
      OBVIOUS
    <3>1. result'[d] # Pending
      BY <1>1 DEF RejectQueue, Pending
    <3> QED BY <3>1 DEF Phase, Answered
  <2>2. \A d \in Calls : ~(LaneOf[d] = l /\ InQueue(d)) => Phase(d)' = Phase(d)
    <3> SUFFICES ASSUME NEW d \in Calls, ~(LaneOf[d] = l /\ InQueue(d))
                 PROVE  Phase(d)' = Phase(d)
      OBVIOUS
    <3>1. result'[d] = result[d]
      BY <1>1 DEF RejectQueue
    <3> QED BY <1>1, <3>1, PhaseKept
  <2>3. \A d \in Calls : Phase(d) = "waiting" <=> InQueue(d)
    BY PhaseIs
  <2>4. queue' = [queue EXCEPT ![l] = <<>>]
    BY <1>1 DEF RejectQueue
  <2>5. Service!RejectAll(l)
    BY <1>1, <2>1, <2>2, <2>3, <2>4 DEF Service!RejectAll
  <2> QED BY <2>5 DEF Service!Next
<1>2. CASE ClearLane(l)
  BY <1>1, <1>2 DEF ClearLane, callerVars
<1>3. CASE ResetLane(l)
  BY <1>1, <1>3 DEF ResetLane, callerVars
<1>4. ASSUME NEW n \in 1..MaxConc, SetConcurrency(l, n)
      PROVE  [Service!Next]_(Service!vars)
  <2>1. /\ UNCHANGED <<pc, exec, result, reply, queue>>
        /\ concurrency' = [concurrency EXCEPT ![l] = n] /\ n \in Nat
    BY <1>4, BoundsAssumption DEF SetConcurrency, callerVars, recordVars
  <2>2. \A d \in Calls : Phase(d)' = Phase(d)
    BY <2>1, PhaseKept
  <2>3. /\ concurrency' \in [Lanes -> Nat]
        /\ \A m \in Lanes \ {l} : concurrency'[m] = concurrency[m]
    BY <1>0, <2>1
  <2>4. Service!Adjust(l)
    BY <2>1, <2>2, <2>3 DEF Service!Adjust
  <2> QED BY <2>4 DEF Service!Next
<1> QED BY <1>2, <1>3, <1>4 DEF Operate

\* Every step is one of the service, or is not seen by it.
LEMMA RefinesNext == RefInv /\ [Next]_vars => [Service!Next]_(Service!vars)
<1> SUFFICES ASSUME RefInv, [Next]_vars PROVE [Service!Next]_(Service!vars)
  OBVIOUS
<1>1. CASE \/ \E r \in Requests : Expire(r)
           \/ CloseBegins \/ CloseReturns \/ UNCHANGED vars
  <2>1. UNCHANGED <<pc, exec, result, reply, queue, concurrency>>
    BY <1>1 DEF Expire, CloseBegins, CloseReturns, vars, callerVars, recordVars, laneVars
  <2> QED BY <2>1, PhaseKept, RefinesStutter
<1> QED
  BY <1>1, RefinesCaller, RefinesProcessLane, RefinesExecuteTask, RefinesOperate DEF Next

\* The queue implements the service: whatever callers, lanes, tasks and the owner
\* do, its calls are answered in the ways LaneService allows and in no other.
THEOREM Refinement == Spec => ImplementsService
<1>1. Init => RefInv
  BY InitIInv, InitReply DEF RefInv
<1>2. RefInv /\ [Next]_vars => RefInv'
  BY TypeStep, AnswersStep, LanesStep, SlotsStep, ReplyStep, SettledStep
     DEF RefInv, Answers, IInv
<1>3. Init => Service!Init
  BY RefinesInit
<1>4. RefInv /\ [Next]_vars => [Service!Next]_(Service!vars)
  BY RefinesNext
<1> QED BY <1>1, <1>2, <1>3, <1>4, PTL DEF Spec, ImplementsService, Service!Spec

\* Whatever is reset, cleared, rejected or closed meanwhile, for any number of
\* calls of a request: its task runs again only for a call that overlaps, or
\* after the entry of the request has expired.
THEOREM RerunsOverlapHolds == Spec => []RerunsOverlap
<1>1. Init => RefInv /\ DedupInv
  BY InitIInv, InitReply, InitDedup DEF RefInv
<1>2. RefInv /\ DedupInv /\ [Next]_vars => (RefInv /\ DedupInv)'
  BY TypeStep, AnswersStep, LanesStep, SlotsStep, ReplyStep, SettledStep, DedupStep
     DEF RefInv, Answers, IInv
<1>3. RefInv /\ DedupInv => RerunsOverlap
  <2> SUFFICES ASSUME RefInv, DedupInv, NEW c \in Calls, exec[c] # "none", NEW d \in Twins(c),
                      exec[d] # "none", RequestOf[c] \notin lapsed
               PROVE  d \in beside[c] \/ c \in beside[d]
    BY DEF RerunsOverlap
  <2>1. RequestOf[c] \in Requests
    BY LanesAssumption DEF Twins
  <2> QED BY <2>1 DEF DedupInv, Missed
<1> QED BY <1>1, <1>2, <1>3, PTL DEF Spec
=============================================================================

--------------------------- MODULE SessionProofs ---------------------------
(***************************************************************************)
(* Proofs about the session store: how far its mutexes go, and what becomes *)
(* of the messages that it has acknowledged.                               *)
(***************************************************************************)
EXTENDS SessionStore, TLAPS, FiniteSetTheorems, SequenceTheorems

Stored == Procs \cup Range(Old)
Operations == [op : {"load", "create", "append", "delete", "replace"}, name : Names,
               msg : Stored]
Places == {"locked", "ensured", "opened", "written", "removed", "start", "next", "locking",
           "done", "failed"}

SessionTypes ==
    /\ job \in [Procs -> Jobs]
    /\ pc \in [Procs -> Places]
    /\ todo \in [Procs -> Seq(Operations)]
    /\ entries \in [Procs -> Seq(Stored)]
    /\ overlap \in BOOLEAN

LockTypes ==
    /\ lock \in [Procs -> 0..Len(holder)]
    /\ writeLocks \in [Names -> 0..Len(holder)]
    /\ holder \in Seq(SUBSET Procs)

DiskTypes ==
    /\ fd \in [Procs -> 0..Len(data)]
    /\ file \in [Names -> 0..Len(data)]
    /\ temp \in [Names -> 0..Len(data)]
    /\ data \in Seq(Seq(Stored))

\* What a job does, and on which session: an archiver writes to the archive
\* only, all others, and its load and its deletion, to the session.
Sound(p, o) ==
    LET k == job[p].key IN
    \/ o.op = "load" /\ o.name = k /\ job[p].kind \in {"prune", "archive"}
    \/ o.op = "create" /\ o.name = Archived(k) /\ job[p].kind = "archive"
    \/ o.op = "append" /\ o.name = k /\ job[p].kind = "append" /\ o.msg = p
    \/ o.op = "append" /\ o.name = Archived(k) /\ job[p].kind = "archive"
    \/ o.op = "delete" /\ o.name = k /\ job[p].kind \in {"delete", "archive"}
    \/ o.op = "replace" /\ o.name = k /\ job[p].kind = "prune"

\* Where a job is goes with the operation it is at; a deletion is its last, and
\* nothing is replaced that is short.
JobShape(p) ==
    /\ pc[p] \notin {"done", "failed"} => todo[p] # <<>>
    /\ pc[p] \in {"locking", "locked"} => Op(p) \in {"append", "delete", "replace"}
    /\ pc[p] = "ensured" => Op(p) = "append"
    /\ pc[p] = "opened" => Op(p) \in {"append", "replace"}
    /\ pc[p] = "written" => Op(p) = "replace"
    /\ pc[p] = "removed" => Op(p) = "delete"
    /\ \A i \in 1..Len(todo[p]) :
          /\ Sound(p, todo[p][i])
          /\ todo[p][i].op = "delete" => i = Len(todo[p])
          /\ todo[p][i].op = "replace" => Len(entries[p]) > MaxEntries

JobsInv == SessionTypes /\ \A p \in Procs : JobShape(p)

\* Before a deletion begins, who waits for a mutex or has it waits for or has
\* the one that the map has for the session.
NoDeletion == \A p \in Procs : job[p].kind \in {"delete", "archive"} => ~Started(p)
LockInv ==
    NoDeletion =>
        /\ ~overlap
        /\ \A p \in Procs :
              /\ pc[p] \in Inside \cup {"locking"} =>
                     lock[p] # 0 /\ lock[p] = writeLocks[Name(p)]
              /\ pc[p] \in Inside => holder[lock[p]] = {p}

SerialInv == JobsInv /\ LockTypes /\ LockInv

-----------------------------------------------------------------------------
\* As long as no two writers of one session have been inside together ...
Exclusive == \A p, q \in Procs :
    p # q /\ pc[p] \in Inside /\ pc[q] \in Inside => Name(p) # Name(q)

\* ... a writer has the file open that the session has, or its temporary file,
\* with all in it that it keeps.
OpenRight(p) ==
    /\ pc[p] = "opened" /\ Op(p) = "append" =>
           fd[p] # 0 /\ fd[p] = file[Name(p)]
    /\ pc[p] \in {"opened", "written"} /\ Op(p) = "replace" =>
           fd[p] # 0 /\ fd[p] = temp[Name(p)]
    /\ pc[p] = "written" => Range(Kept(entries[p])) \subseteq Range(data[fd[p]])

\* No temporary file is another one, or a session's.
InodesApart ==
    /\ \A n, m \in Names : temp[n] # 0 => temp[n] # file[m]
    /\ \A n, m \in Names : temp[n] # 0 /\ temp[n] = temp[m] => n = m

\* What an archiver has loaded is in the archive, unless it has been pruned or
\* deleted there, or is still to be copied.
Copied(p) ==
    job[p].kind = "archive" =>
        \A m \in Range(entries[p]) :
            \/ m \in excused
            \/ m \in Range(Content(Archived(job[p].key)))
            \/ \E i \in 1..Len(todo[p]) : todo[p][i].op = "append" /\ todo[p][i].msg = m

DurableInv ==
    /\ JobsInv /\ DiskTypes /\ InodesApart
    /\ ~overlap =>
          /\ Exclusive
          /\ \A p \in Procs : OpenRight(p) /\ Copied(p)
          /\ AcknowledgedIsDurable

-----------------------------------------------------------------------------
\* Jobs.

\* The archive of a session is no session, and has a name of its own.
LEMMA NamesApart ==
    /\ \A k \in Keys : k \in Names /\ Archived(k) \in Names /\ Archived(k) \notin Keys
    /\ \A k, l \in Keys : Archived(k) = Archived(l) => k = l
  BY KeysAssumption DEF Names, Archived

\* A writer and an archiver work on a session, the cleanup on an archive too.
LEMMA JobTypes ==
    ASSUME SessionTypes, NEW p \in Procs
    PROVE  /\ job[p].kind \in Kinds /\ job[p].key \in Names
           /\ job[p].kind \in {"append", "archive"} => job[p].key \in Keys
<1>1. job[p] \in Jobs
  BY DEF SessionTypes
<1>2. CASE job[p] \in [kind : {"append", "archive"}, key : Keys]
  BY <1>2, NamesApart DEF Kinds
<1>3. CASE job[p] \in [kind : {"delete", "prune"}, key : Names]
  BY <1>3 DEF Kinds
<1> QED BY <1>1, <1>2, <1>3 DEF Jobs

\* The head and the tail of what is to do.
LEMMA HeadAndTail ==
    ASSUME NEW s \in Seq(Operations), s # <<>>
    PROVE  /\ Len(s) \in Nat \ {0} /\ 1 \in 1..Len(s) /\ Head(s) = s[1] /\ Head(s) \in Operations
           /\ Tail(s) \in Seq(Operations) /\ Len(Tail(s)) = Len(s) - 1
           /\ \A i \in 1..Len(Tail(s)) : Tail(s)[i] = s[i + 1] /\ i + 1 \in 1..Len(s)
<1>1. Len(s) \in Nat \ {0}
  OBVIOUS
<1>2. Tail(s) \in Seq(Operations) /\ Len(Tail(s)) = Len(s) - 1
  BY <1>1
<1>3. \A i \in 1..Len(Tail(s)) : Tail(s)[i] = s[i + 1] /\ i + 1 \in 1..Len(s)
  BY <1>1, <1>2
<1> QED BY <1>1, <1>2, <1>3

\* What remains of a job is sound if the whole of it was.
LEMMA RestIsSound ==
    ASSUME NEW p, JobShape(p), todo[p] \in Seq(Operations), todo[p] # <<>>
    PROVE  LET rest == Tail(todo[p]) IN
           /\ rest \in Seq(Operations)
           /\ \A i \in 1..Len(rest) :
                 /\ Sound(p, rest[i])
                 /\ rest[i].op = "delete" => i = Len(rest)
                 /\ rest[i].op = "replace" => Len(entries[p]) > MaxEntries
<1> DEFINE rest == Tail(todo[p])
<1>1. /\ rest \in Seq(Operations) /\ Len(rest) = Len(todo[p]) - 1 /\ Len(todo[p]) \in Nat
      /\ \A i \in 1..Len(rest) : rest[i] = todo[p][i + 1] /\ i + 1 \in 1..Len(todo[p])
  BY HeadAndTail
<1>2. ASSUME NEW i \in 1..Len(rest)
      PROVE  /\ Sound(p, rest[i]) /\ (rest[i].op = "delete" => i = Len(rest))
             /\ rest[i].op = "replace" => Len(entries[p]) > MaxEntries
  <2>1. rest[i] = todo[p][i + 1] /\ i + 1 \in 1..Len(todo[p])
    BY <1>1
  <2>2. Sound(p, todo[p][i + 1])
        /\ (todo[p][i + 1].op = "delete" => i + 1 = Len(todo[p]))
        /\ (todo[p][i + 1].op = "replace" => Len(entries[p]) > MaxEntries)
    BY <2>1 DEF JobShape
  <2> HIDE DEF rest
  <2> QED BY <1>1, <2>1, <2>2
<1> QED BY <1>1, <1>2

\* What a background job goes on with once it has loaded its session.
LEMMA LoadedIsSound ==
    ASSUME SessionTypes, NEW p \in Procs, job[p].kind \in {"prune", "archive"},
           NEW es \in Seq(Stored)
    PROVE  LET ops == AfterLoad(p, es) IN
           /\ ops \in Seq(Operations)
           /\ \A i \in 1..Len(ops) :
                 /\ Sound(p, ops[i])
                 /\ ops[i].op = "delete" => i = Len(ops)
                 /\ ops[i].op = "replace" => Len(es) > MaxEntries
           /\ job[p].kind = "archive" =>
                 /\ ops # <<>>
                 /\ \A m \in Range(es) : \E i \in 1..Len(ops) :
                        ops[i].op = "append" /\ ops[i].msg = m
<1> DEFINE k == job[p].key
           ops == AfterLoad(p, es)
<1>0. /\ p \in Stored /\ k \in Names
      /\ job[p].kind = "archive" => Archived(k) \in Names
  BY JobTypes, NamesApart DEF Stored
<1>1. CASE job[p].kind = "prune"
  <2>1. CASE Len(es) <= MaxEntries
    <3>1. ops = <<>>
      BY <1>1, <2>1 DEF AfterLoad
    <3> QED BY <1>1, <3>1
  <2>2. CASE ~(Len(es) <= MaxEntries)
    <3>1. ops = <<Operation("replace", k, p)>>
      BY <1>1, <2>2 DEF AfterLoad
    <3>2. Operation("replace", k, p) \in Operations
      BY <1>0 DEF Operations, Operation
    <3>3. Sound(p, Operation("replace", k, p)) /\ Operation("replace", k, p).op = "replace"
      BY <1>1 DEF Sound, Operation
    <3> DEFINE o == Operation("replace", k, p)
    <3> HIDE DEF o, ops
    <3>4. ops = <<o>> /\ o \in Operations /\ Sound(p, o) /\ o.op = "replace"
      BY <3>1, <3>2, <3>3 DEF o
    <3>5. Len(es) > MaxEntries
      BY <2>2, BoundsAssumption
    <3> QED BY <1>1, <3>4, <3>5 DEF ops
  <2> QED BY <2>1, <2>2
<1>2. CASE job[p].kind = "archive"
  <2> DEFINE first == Operation("create", Archived(k), p)
             copies == [i \in 1..Len(es) |-> Operation("append", Archived(k), es[i])]
             last == Operation("delete", k, p)
  <2>1. ops = <<first>> \o copies \o <<last>>
    BY <1>2 DEF AfterLoad
  <2>2. first \in Operations /\ last \in Operations
        /\ \A i \in 1..Len(es) : copies[i] \in Operations
    BY <1>0, <1>2 DEF Operations, Operation
  <2>3. Sound(p, first) /\ first.op = "create" /\ Sound(p, last) /\ last.op = "delete"
    BY <1>2 DEF Sound, Operation
  <2>4. \A i \in 1..Len(es) : /\ Sound(p, copies[i]) /\ copies[i].op = "append"
                              /\ copies[i].msg = es[i]
    BY <1>2 DEF Sound, Operation
  <2>5. copies \in Seq(Operations) /\ Len(copies) = Len(es) /\ Len(es) \in Nat
    BY <2>2
  <2> HIDE DEF first, copies, last
  <2>6. /\ ops \in Seq(Operations) /\ Len(ops) = Len(es) + 2
        /\ ops[1] = first /\ ops[Len(es) + 2] = last
        /\ \A i \in 1..Len(es) : ops[i + 1] = copies[i]
    <3> HIDE DEF ops
    <3>1. <<first>> \o copies \in Seq(Operations) /\ Len(<<first>> \o copies) = Len(es) + 1
          /\ (<<first>> \o copies)[1] = first
          /\ \A i \in 1..Len(es) : (<<first>> \o copies)[i + 1] = copies[i]
      BY <2>2, <2>5
    <3> DEFINE begin == <<first>> \o copies
    <3>2. ops = begin \o <<last>> /\ last \in Operations
      BY <2>1, <2>2
    <3>4. begin \in Seq(Operations) /\ Len(begin) = Len(es) + 1
      BY <3>1
    <3> HIDE DEF begin
    <3>3. /\ ops \in Seq(Operations) /\ Len(ops) = Len(es) + 2 /\ ops[Len(es) + 2] = last
          /\ \A i \in 1..(Len(es) + 1) : ops[i] = begin[i]
      BY <2>5, <3>2, <3>4
    <3> QED BY <2>5, <3>1, <3>3, <3>4 DEF begin
  <2> HIDE DEF ops
  <2>7. ASSUME NEW i \in 1..Len(ops)
        PROVE  /\ Sound(p, ops[i]) /\ (ops[i].op = "delete" => i = Len(ops))
               /\ ops[i].op # "replace"
    <3>1. CASE i = 1
      BY <2>3, <2>6, <3>1
    <3>2. CASE i = Len(es) + 2
      BY <2>3, <2>6, <3>2
    <3>3. CASE i # 1 /\ i # Len(es) + 2
      <4>1. i - 1 \in 1..Len(es) /\ i = (i - 1) + 1
        BY <2>5, <2>6, <3>3
      <4>2. ops[i] = copies[i - 1]
        BY <2>6, <4>1
      <4> QED BY <2>4, <4>1, <4>2
    <3> QED BY <3>1, <3>2, <3>3
  <2>8. ASSUME NEW m \in Range(es)
        PROVE  \E i \in 1..Len(ops) : ops[i].op = "append" /\ ops[i].msg = m
    <3>1. PICK j \in 1..Len(es) : es[j] = m
      BY DEF Range
    <3>2. j + 1 \in 1..Len(ops) /\ ops[j + 1] = copies[j]
      BY <2>5, <2>6
    <3>3. copies[j].op = "append" /\ copies[j].msg = m
      BY <2>4, <3>1
    <3> QED BY <3>2, <3>3
  <2>9. ops # <<>>
    BY <2>5, <2>6
  <2> QED BY <2>6, <2>7, <2>8, <2>9 DEF ops
<1> QED BY <1>1, <1>2

\* One job moves and the others do not.
LEMMA JobMoves ==
    ASSUME JobsInv, NEW p \in Procs, NEW place \in Places, NEW ops \in Seq(Operations),
           NEW es \in Seq(Stored), job' = job, overlap' \in BOOLEAN,
           pc' = [pc EXCEPT ![p] = place], todo' = [todo EXCEPT ![p] = ops],
           entries' = [entries EXCEPT ![p] = es],
           place \notin {"done", "failed"} => ops # <<>>,
           place \in {"locking", "locked"} => Head(ops).op \in {"append", "delete", "replace"},
           place = "ensured" => Head(ops).op = "append",
           place = "opened" => Head(ops).op \in {"append", "replace"},
           place = "written" => Head(ops).op = "replace",
           place = "removed" => Head(ops).op = "delete",
           \A i \in 1..Len(ops) : /\ Sound(p, ops[i])
                                  /\ ops[i].op = "delete" => i = Len(ops)
                                  /\ ops[i].op = "replace" => Len(es) > MaxEntries
    PROVE  JobsInv'
<1>1. SessionTypes'
  BY DEF JobsInv, SessionTypes
<1>2. pc'[p] = place /\ todo'[p] = ops /\ entries'[p] = es
  BY DEF JobsInv, SessionTypes
<1>3. \A q \in Procs \ {p} :
          pc'[q] = pc[q] /\ todo'[q] = todo[q] /\ entries'[q] = entries[q]
  BY DEF JobsInv, SessionTypes
<1>4. JobShape(p)'
  BY <1>2 DEF JobShape, Op, Sound
<1>5. ASSUME NEW q \in Procs \ {p} PROVE JobShape(q)'
  <2>1. JobShape(q)
    BY DEF JobsInv
  <2> QED BY <1>3, <2>1 DEF JobShape, Op, Sound
<1> QED BY <1>1, <1>4, <1>5 DEF JobsInv

\* A job goes on with its operation ...
LEMMA PlaceMoves ==
    ASSUME JobsInv, NEW p \in Procs, NEW place \in Places,
           UNCHANGED <<job, todo, entries>>, overlap' \in BOOLEAN,
           pc' = [pc EXCEPT ![p] = place],
           place \notin {"done", "failed"} => todo[p] # <<>>,
           place \in {"locking", "locked"} => Op(p) \in {"append", "delete", "replace"},
           place = "ensured" => Op(p) = "append",
           place = "opened" => Op(p) \in {"append", "replace"},
           place = "written" => Op(p) = "replace",
           place = "removed" => Op(p) = "delete"
    PROVE  JobsInv'
<1> DEFINE ops == todo[p]
           es == entries[p]
<1>1. ops \in Seq(Operations) /\ es \in Seq(Stored)
      /\ todo' = [todo EXCEPT ![p] = ops] /\ entries' = [entries EXCEPT ![p] = es]
  BY DEF JobsInv, SessionTypes
<1>2. \A i \in 1..Len(ops) : /\ Sound(p, ops[i]) /\ (ops[i].op = "delete" => i = Len(ops))
                             /\ ops[i].op = "replace" => Len(es) > MaxEntries
  BY DEF JobsInv, JobShape
<1>3. Op(p) = Head(ops).op
  BY DEF Op
<1> HIDE DEF ops, es
<1>4. job' = job
  OBVIOUS
<1>5. place \notin {"done", "failed"} => ops # <<>>
  BY DEF ops
<1> QED BY <1>1, <1>2, <1>3, <1>4, <1>5, JobMoves

\* ... or with the next one.
LEMMA OperationEnds ==
    ASSUME JobsInv, NEW p \in Procs, todo[p] # <<>>, Continue(p, Tail(todo[p])),
           UNCHANGED <<job, entries>>, overlap' \in BOOLEAN
    PROVE  JobsInv'
<1> DEFINE ops == Tail(todo[p])
           es == entries[p]
           place == IF ops = <<>> THEN "done" ELSE "next"
<1>1. /\ ops \in Seq(Operations)
      /\ \A i \in 1..Len(ops) :
            /\ Sound(p, ops[i]) /\ (ops[i].op = "delete" => i = Len(ops))
            /\ ops[i].op = "replace" => Len(es) > MaxEntries
  BY RestIsSound DEF JobsInv, SessionTypes
<1>2. es \in Seq(Stored) /\ entries' = [entries EXCEPT ![p] = es]
      /\ todo' = [todo EXCEPT ![p] = ops] /\ pc' = [pc EXCEPT ![p] = place]
  BY DEF JobsInv, SessionTypes, Continue
<1>3. place \in Places /\ (place \notin {"done", "failed"} => ops # <<>>)
      /\ place \notin {"locking", "locked", "ensured", "opened", "written", "removed"}
  BY DEF Places
<1>4. job' = job
  OBVIOUS
<1> HIDE DEF ops, es, place
<1> QED BY <1>1, <1>2, <1>3, <1>4, JobMoves

\* At the start every job is before its first operation.
LEMMA JobsInitInv == Init => JobsInv
<1> SUFFICES ASSUME Init PROVE JobsInv
  OBVIOUS
<1>1. /\ job \in [Procs -> Jobs]
      /\ pc = [p \in Procs |-> "start"] /\ todo = [p \in Procs |-> <<FirstOperation(p)>>]
      /\ entries = [p \in Procs |-> <<>>] /\ overlap = FALSE
  BY DEF Init
<1>2. ASSUME NEW p \in Procs
      PROVE  FirstOperation(p) \in Operations /\ Sound(p, FirstOperation(p))
  <2>1. job[p].kind \in Kinds /\ job[p].key \in Names /\ p \in Stored
    BY <1>1, NamesApart DEF Jobs, Kinds, Stored
  <2> QED BY <2>1 DEF FirstOperation, Operation, Operations, Sound, Kinds
<1>3. \A p \in Procs : FirstOperation(p).op = "delete" => 1 = 1
  OBVIOUS
<1>4. SessionTypes
  <2>1. \A p \in Procs : <<FirstOperation(p)>> \in Seq(Operations)
    BY <1>2
  <2>2. todo \in [Procs -> Seq(Operations)]
    BY <1>1, <2>1
  <2>3. entries \in [Procs -> Seq(Stored)] /\ pc \in [Procs -> Places]
    BY <1>1 DEF Places
  <2> QED BY <1>1, <2>2, <2>3 DEF SessionTypes
<1>5. ASSUME NEW p \in Procs PROVE JobShape(p)
  <2>1. pc[p] = "start" /\ todo[p] = <<FirstOperation(p)>>
    BY <1>1
  <2>2. todo[p] # <<>> /\ Len(todo[p]) = 1 /\ todo[p][1] = FirstOperation(p)
    BY <2>1
  <2>3. FirstOperation(p).op # "replace"
    BY DEF FirstOperation, Operation
  <2> QED BY <1>2, <2>1, <2>2, <2>3 DEF JobShape
<1> QED BY <1>4, <1>5 DEF JobsInv

\* Every step leaves the jobs what they are.
LEMMA JobsStep == JobsInv /\ DiskTypes /\ [Next]_vars => JobsInv'
<1> SUFFICES ASSUME JobsInv, DiskTypes, [Next]_vars PROVE JobsInv'
  OBVIOUS
<1>0. SessionTypes /\ \A p \in Procs : JobShape(p)
  BY DEF JobsInv
<1>p. \A x : x \in {"locked", "ensured", "opened", "written", "removed", "start", "next",
                    "locking", "done", "failed"} => x \in Places
  BY DEF Places
<1>1. ASSUME NEW p \in Procs, LoadSession(p) PROVE JobsInv'
  <2> DEFINE es == Content(Name(p))
             ops == AfterLoad(p, es)
  <2>1. todo[p] # <<>> /\ Head(todo[p]) = todo[p][1] /\ 1 \in 1..Len(todo[p])
        /\ Name(p) \in Names
    BY <1>0, <1>1, HeadAndTail DEF LoadSession, JobShape, SessionTypes, Name, Operations
  <2>2. es \in Seq(Stored)
    BY <2>1 DEF Content, DiskTypes
  <2>3. job[p].kind \in {"prune", "archive"}
    BY <1>0, <1>1, <2>1 DEF LoadSession, JobShape, Sound, Op
  <2>4. /\ ops \in Seq(Operations)
        /\ \A i \in 1..Len(ops) :
              /\ Sound(p, ops[i]) /\ (ops[i].op = "delete" => i = Len(ops))
              /\ ops[i].op = "replace" => Len(es) > MaxEntries
    BY <1>0, <2>2, <2>3, LoadedIsSound
  <2> DEFINE place == IF ops = <<>> THEN "done" ELSE "next"
  <2>5. /\ pc' = [pc EXCEPT ![p] = place] /\ todo' = [todo EXCEPT ![p] = ops]
        /\ entries' = [entries EXCEPT ![p] = es] /\ job' = job /\ overlap' \in BOOLEAN
    BY <1>0, <1>1 DEF LoadSession, Continue, SessionTypes, histVars
  <2>6. place \in Places /\ (place \notin {"done", "failed"} => ops # <<>>)
        /\ place \notin {"locking", "locked", "ensured", "opened", "written", "removed"}
    BY DEF Places
  <2> HIDE DEF es, ops, place
  <2> QED BY <2>2, <2>4, <2>5, <2>6, JobMoves
<1>2. ASSUME NEW p \in Procs, CreateSession(p) PROVE JobsInv'
  BY <1>0, <1>2, OperationEnds DEF CreateSession, JobShape, SessionTypes, histVars
<1>3. ASSUME NEW p \in Procs, GetWriteLock(p) PROVE JobsInv'
  BY <1>0, <1>p, <1>3, PlaceMoves DEF GetWriteLock, JobShape, SessionTypes, histVars
<1>4. ASSUME NEW p \in Procs, Acquire(p) PROVE JobsInv'
  <2>1. overlap' \in BOOLEAN
    BY <1>0, <1>4 DEF Acquire, SessionTypes
  <2> QED BY <1>0, <1>p, <1>4, <2>1, PlaceMoves DEF Acquire, JobShape, SessionTypes
<1>5. ASSUME NEW p \in Procs, EnsureFile(p) PROVE JobsInv'
  BY <1>0, <1>p, <1>5, PlaceMoves DEF EnsureFile, JobShape, SessionTypes, histVars
<1>6. ASSUME NEW p \in Procs, OpenFile(p) PROVE JobsInv'
  BY <1>0, <1>p, <1>6, PlaceMoves DEF OpenFile, JobShape, SessionTypes, histVars
<1>7. ASSUME NEW p \in Procs, OpenFails(p) PROVE JobsInv'
  BY <1>0, <1>p, <1>7, PlaceMoves DEF OpenFails, Fail, JobShape, SessionTypes, histVars
<1>8. ASSUME NEW p \in Procs, WriteLine(p) PROVE JobsInv'
  BY <1>0, <1>8, OperationEnds DEF WriteLine, Return, JobShape, SessionTypes, histVars
<1>9. ASSUME NEW p \in Procs, RemoveFile(p) PROVE JobsInv'
  BY <1>0, <1>p, <1>9, PlaceMoves DEF RemoveFile, JobShape, SessionTypes
<1>10. ASSUME NEW p \in Procs, ReleaseWriteLock(p) PROVE JobsInv'
  BY <1>0, <1>10, OperationEnds DEF ReleaseWriteLock, Return, JobShape, SessionTypes, histVars
<1>11. ASSUME NEW p \in Procs, OpenTemp(p) PROVE JobsInv'
  BY <1>0, <1>p, <1>11, PlaceMoves DEF OpenTemp, JobShape, SessionTypes, histVars
<1>12. ASSUME NEW p \in Procs, WriteTemp(p) PROVE JobsInv'
  BY <1>0, <1>p, <1>12, PlaceMoves DEF WriteTemp, JobShape, SessionTypes, histVars
<1>13. ASSUME NEW p \in Procs, RenameTemp(p) PROVE JobsInv'
  BY <1>0, <1>13, OperationEnds DEF RenameTemp, Return, JobShape, SessionTypes
<1>14. ASSUME NEW p \in Procs, RenameFails(p) PROVE JobsInv'
  BY <1>0, <1>p, <1>14, PlaceMoves DEF RenameFails, Fail, JobShape, SessionTypes, histVars
<1>15. CASE Crash
  <2>1. /\ \A q \in Procs : pc'[q] \in {"start", "done", "failed"}
                            /\ (pc'[q] = "start" => pc[q] = "start")
        /\ pc' \in [Procs -> Places] /\ UNCHANGED <<job, todo, entries, overlap>>
    BY <1>0, <1>15 DEF Crash, histVars, SessionTypes, Places
  <2>2. SessionTypes'
    BY <1>0, <2>1 DEF SessionTypes
  <2>3. ASSUME NEW q \in Procs PROVE JobShape(q)'
    <3>1. JobShape(q)
      BY <1>0
    <3> QED BY <2>1, <3>1 DEF JobShape, Sound
  <2> QED BY <2>2, <2>3 DEF JobsInv
<1>16. CASE UNCHANGED vars
  BY <1>0, <1>16 DEF vars, procVars, histVars, JobsInv, SessionTypes, JobShape, Op, Sound
<1> QED BY <1>1, <1>2, <1>3, <1>4, <1>5, <1>6, <1>7, <1>8, <1>9, <1>10, <1>11, <1>12, <1>13,
        <1>14, <1>15, <1>16 DEF Next, Step

-----------------------------------------------------------------------------
\* The disk.
LEMMA DiskInit == Init => DiskTypes
<1> SUFFICES ASSUME Init PROVE DiskTypes
  OBVIOUS
<1>1. Cardinality(Keys) \in Nat
  BY KeysAssumption, FS_CardinalityType
<1>2. Old \in Seq(Stored)
  BY OldAssumption DEF Stored
<1>3. data \in Seq(Seq(Stored)) /\ Len(data) = Cardinality(Keys)
  BY <1>1, <1>2 DEF Init
<1>4. PICK index \in Bijection(Keys, 1..Cardinality(Keys)) :
           file = [n \in Names |-> IF n \in Keys THEN index[n] ELSE 0]
  BY DEF Init
<1>5. file \in [Names -> 0..Len(data)]
  BY <1>1, <1>3, <1>4 DEF Bijection, Injection
<1>6. fd \in [Procs -> 0..Len(data)] /\ temp \in [Names -> 0..Len(data)]
  BY <1>1, <1>3 DEF Init
<1> QED BY <1>3, <1>5, <1>6 DEF DiskTypes

\* The inodes only become more.
LEMMA Appended ==
    ASSUME NEW S, NEW s \in Seq(S), NEW x \in S
    PROVE  /\ Append(s, x) \in Seq(S) /\ Len(Append(s, x)) = Len(s) + 1 /\ Len(s) \in Nat
           /\ \A i \in 1..Len(s) : Append(s, x)[i] = s[i]
           /\ Append(s, x)[Len(s) + 1] = x
           /\ Range(Append(s, x)) = Range(s) \cup {x}
<1>1. /\ Append(s, x) \in Seq(S) /\ Len(Append(s, x)) = Len(s) + 1 /\ Len(s) \in Nat
      /\ \A i \in 1..Len(s) : Append(s, x)[i] = s[i]
      /\ Append(s, x)[Len(s) + 1] = x
  OBVIOUS
<1>2. DOMAIN Append(s, x) = 1..(Len(s) + 1) /\ DOMAIN s = 1..Len(s)
  BY <1>1
<1>3. ASSUME NEW y \in Range(Append(s, x)) PROVE y \in Range(s) \cup {x}
  <2>1. PICK i \in 1..(Len(s) + 1) : Append(s, x)[i] = y
    BY <1>2 DEF Range
  <2>2. i \in 1..Len(s) \/ i = Len(s) + 1
    BY <1>1
  <2> QED BY <1>1, <1>2, <2>1, <2>2 DEF Range
<1>4. ASSUME NEW y \in Range(s) \cup {x} PROVE y \in Range(Append(s, x))
  <2>1. CASE y = x
    <3>1. Len(s) + 1 \in 1..(Len(s) + 1)
      BY <1>1
    <3> QED BY <1>1, <1>2, <2>1, <3>1 DEF Range
  <2>2. CASE y \in Range(s)
    <3>1. PICK i \in 1..Len(s) : s[i] = y
      BY <1>2, <2>2 DEF Range
    <3>2. i \in 1..(Len(s) + 1) /\ Append(s, x)[i] = y
      BY <1>1, <3>1
    <3> QED BY <1>2, <3>2 DEF Range
  <2> QED BY <2>1, <2>2
<1> QED BY <1>1, <1>3, <1>4

\* What ReplaceSession writes begins with what it keeps.
LEMMA KeptIsWritten ==
    ASSUME NEW es \in Seq(Stored), Len(es) > MaxEntries, NEW old \in Seq(Stored)
    PROVE  LET new == Kept(es)
               all == new \o SubSeq(old, Len(new) + 1, Len(old))
           IN  all \in Seq(Stored) /\ Range(new) \subseteq Range(all)
<1> DEFINE new == Kept(es)
           rest == SubSeq(old, Len(new) + 1, Len(old))
           all == new \o rest
<1>1. new \in Seq(Stored)
  <2>1. Len(es) \in Nat /\ Len(es) - MaxEntries + 1 \in 1..Len(es)
    BY BoundsAssumption
  <2> QED BY <2>1, SubSeqProperties DEF Kept
<1>2. Len(new) \in Nat /\ Len(old) \in Nat
  BY <1>1
<1>3. rest \in Seq(Stored)
  BY <1>2, SubSeqProperties
<1> HIDE DEF new, rest
<1>4. /\ all \in Seq(Stored) /\ Len(all) = Len(new) + Len(rest)
      /\ \A i \in 1..Len(new) : all[i] = new[i]
      /\ Len(rest) \in Nat
  BY <1>1, <1>3
<1>5. DOMAIN new = 1..Len(new) /\ DOMAIN all = 1..Len(all)
  BY <1>1, <1>4
<1>6. 1..Len(new) \subseteq 1..Len(all)
  BY <1>2, <1>4
<1>7. Range(new) \subseteq Range(all)
  BY <1>4, <1>5, <1>6 DEF Range
<1> QED BY <1>4, <1>7 DEF new, rest

\* An inode is rewritten; none is made or lost.
LEMMA Rewritten ==
    ASSUME NEW S, NEW s \in Seq(S), NEW i, NEW c, i \in 1..Len(s) => c \in S
    PROVE  LET t == [s EXCEPT ![i] = c] IN
           /\ t \in Seq(S) /\ Len(t) = Len(s)
           /\ \A j \in 1..Len(s) : t[j] = IF j = i THEN c ELSE s[j]
<1>1. CASE i \in 1..Len(s)
  BY <1>1, ExceptSeq
<1>2. CASE i \notin 1..Len(s)
  <2>1. s \in [1..Len(s) -> S]
    BY LenProperties
  <2>2. [s EXCEPT ![i] = c] = s
    BY <1>2, <2>1
  <2> QED BY <1>2, <2>2
<1> QED BY <1>1, <1>2

\* Every step keeps the types of the disk.
LEMMA DiskStep == JobsInv /\ DiskTypes /\ [Next]_vars => DiskTypes'
<1> SUFFICES ASSUME JobsInv, DiskTypes, [Next]_vars PROVE DiskTypes'
  OBVIOUS
<1>0. SessionTypes /\ \A p \in Procs : JobShape(p)
  BY DEF JobsInv
<1>1. ASSUME UNCHANGED <<data, file, temp, fd>> PROVE DiskTypes'
  BY <1>1 DEF DiskTypes
<1>2. ASSUME UNCHANGED <<data, file, temp>>, NEW p \in Procs, NEW d \in 0..Len(data),
             fd' = [fd EXCEPT ![p] = d]
      PROVE  DiskTypes'
  BY <1>2 DEF DiskTypes
<1>n. 0 \in 0..Len(data) /\ Len(data) \in Nat
  BY DEF DiskTypes
<1>m. \A p \in Procs : todo[p] # <<>> => Name(p) \in Names /\ Head(todo[p]).msg \in Stored
  BY <1>0, HeadAndTail DEF SessionTypes, Name, Operations
\* A file comes into being.
<1>3. ASSUME NEW n \in Names, NewFile(n), UNCHANGED <<temp, fd>> PROVE DiskTypes'
  <2>1. <<>> \in Seq(Stored) /\ data \in Seq(Seq(Stored)) /\ data' = Append(data, <<>>)
        /\ file' = [file EXCEPT ![n] = Len(data) + 1]
    BY <1>3 DEF DiskTypes, NewFile
  <2>2. data' \in Seq(Seq(Stored)) /\ Len(data') = Len(data) + 1
    BY <2>1
  <2>3. \A i \in 0..Len(data) : i \in 0..Len(data')
    BY <1>n, <2>2
  <2>4. Len(data) + 1 \in 0..Len(data')
    BY <1>n, <2>2
  <2> QED BY <1>3, <2>1, <2>2, <2>3, <2>4 DEF DiskTypes
<1>5. ASSUME NEW p \in Procs, LoadSession(p) \/ GetWriteLock(p) \/ Acquire(p) PROVE DiskTypes'
  BY <1>1, <1>5 DEF LoadSession, GetWriteLock, Acquire, diskVars
<1>6. ASSUME NEW p \in Procs, CreateSession(p) \/ EnsureFile(p) PROVE DiskTypes'
  <2>1. todo[p] # <<>>
    BY <1>0, <1>6 DEF CreateSession, EnsureFile, JobShape
  <2> QED BY <1>1, <1>3, <1>6, <1>m, <2>1 DEF CreateSession, EnsureFile
<1>7. ASSUME NEW p \in Procs, OpenFile(p) PROVE DiskTypes'
  <2>1. Name(p) \in Names
    BY <1>0, <1>7, <1>m DEF OpenFile, JobShape
  <2>2. file[Name(p)] \in 0..Len(data)
    BY <2>1 DEF DiskTypes
  <2> QED BY <1>2, <1>7, <2>2 DEF OpenFile, diskVars
<1>8. ASSUME NEW p \in Procs, OpenFails(p) \/ RenameFails(p) \/ ReleaseWriteLock(p)
      PROVE  DiskTypes'
  BY <1>2, <1>8, <1>n DEF OpenFails, RenameFails, ReleaseWriteLock, Fail, Return, diskVars
<1>9. ASSUME NEW p \in Procs, WriteLine(p) PROVE DiskTypes'
  <2>1. todo[p] # <<>>
    BY <1>0, <1>9 DEF WriteLine, JobShape
  <2>2. Head(todo[p]).msg \in Stored /\ fd[p] \in 0..Len(data)
    BY <1>m, <2>1 DEF DiskTypes
  <2>3. data' \in Seq(Seq(Stored)) /\ Len(data') = Len(data)
    <3>1. data' = [data EXCEPT ![fd[p]] = Append(data[fd[p]], Head(todo[p]).msg)]
      BY <1>9 DEF WriteLine
    <3>2. ASSUME fd[p] \in 1..Len(data)
          PROVE  Append(data[fd[p]], Head(todo[p]).msg) \in Seq(Stored)
      <4>1. data[fd[p]] \in Seq(Stored)
        BY <3>2 DEF DiskTypes
      <4> QED BY <2>2, <4>1
    <3>3. data \in Seq(Seq(Stored))
      BY DEF DiskTypes
    <3> QED BY <3>1, <3>2, <3>3, Rewritten
  <2>4. fd' = [fd EXCEPT ![p] = 0] /\ file' = file /\ temp' = temp
    BY <1>9 DEF WriteLine, Return
  <2> QED BY <1>n, <2>3, <2>4 DEF DiskTypes
<1>10. ASSUME NEW p \in Procs, RemoveFile(p) PROVE DiskTypes'
  BY <1>10, <1>n DEF RemoveFile, DiskTypes
<1>11. ASSUME NEW p \in Procs, OpenTemp(p) PROVE DiskTypes'
  <2>1. Name(p) \in Names
    BY <1>0, <1>11, <1>m DEF OpenTemp, JobShape
  <2> DEFINE n == Name(p)
  <2>2. <<>> \in Seq(Stored) /\ data \in Seq(Seq(Stored)) /\ file' = file
    BY <1>11 DEF DiskTypes, OpenTemp
  <2>3. CASE temp[n] = 0
    <3>1. /\ data' = Append(data, <<>>) /\ temp' = [temp EXCEPT ![n] = Len(data) + 1]
          /\ fd' = [fd EXCEPT ![p] = Len(data) + 1]
      BY <1>11, <2>3 DEF OpenTemp
    <3>2. data' \in Seq(Seq(Stored)) /\ Len(data') = Len(data) + 1
      BY <2>2, <3>1
    <3>3. Len(data) + 1 \in 0..Len(data') /\ \A i \in 0..Len(data) : i \in 0..Len(data')
      BY <1>n, <3>2
    <3> HIDE DEF n
    <3> QED BY <2>2, <3>1, <3>2, <3>3 DEF DiskTypes
  <2>4. CASE temp[n] # 0
    <3>1. /\ data' = [data EXCEPT ![temp[n]] = <<>>] /\ temp' = temp
          /\ fd' = [fd EXCEPT ![p] = temp[n]] /\ temp[n] \in 0..Len(data)
      BY <1>11, <2>1, <2>4 DEF OpenTemp, DiskTypes
    <3>2. data' \in Seq(Seq(Stored)) /\ Len(data') = Len(data)
      BY <2>2, <3>1, Rewritten
    <3> HIDE DEF n
    <3> QED BY <2>2, <3>1, <3>2 DEF DiskTypes
  <2> QED BY <2>3, <2>4
<1>12. ASSUME NEW p \in Procs, WriteTemp(p) PROVE DiskTypes'
  <2> DEFINE new == Kept(entries[p])
             old == data[fd[p]]
             all == new \o SubSeq(old, Len(new) + 1, Len(old))
  <2>1. data' = [data EXCEPT ![fd[p]] = all] /\ UNCHANGED <<file, temp, fd>>
        /\ fd[p] \in 0..Len(data) /\ entries[p] \in Seq(Stored)
    BY <1>0, <1>12 DEF WriteTemp, SessionTypes, DiskTypes
  <2>2. data' \in Seq(Seq(Stored)) /\ Len(data') = Len(data)
    <3>1. ASSUME fd[p] \in 1..Len(data) PROVE all \in Seq(Stored)
      <4>1. old \in Seq(Stored)
        BY <3>1 DEF DiskTypes
      <4>2. Len(entries[p]) > MaxEntries
        <5>1. todo[p] # <<>> /\ Head(todo[p]).op = "replace"
          BY <1>0, <1>12 DEF WriteTemp, JobShape, Op
        <5>2. 1 \in 1..Len(todo[p]) /\ todo[p][1].op = "replace"
          BY <1>0, <5>1, HeadAndTail DEF SessionTypes
        <5> QED BY <1>0, <5>2 DEF JobShape
      <4> QED BY <2>1, <4>1, <4>2, KeptIsWritten
    <3>2. data \in Seq(Seq(Stored))
      BY DEF DiskTypes
    <3> HIDE DEF all
    <3> QED BY <2>1, <3>1, <3>2, Rewritten
  <2> QED BY <2>1, <2>2 DEF DiskTypes
<1>13. ASSUME NEW p \in Procs, RenameTemp(p) PROVE DiskTypes'
  <2>1. Name(p) \in Names
    BY <1>0, <1>13, <1>m DEF RenameTemp, JobShape
  <2> QED BY <1>13, <1>n, <2>1 DEF RenameTemp, Return, DiskTypes
<1>14. CASE Crash
  BY <1>14, <1>n DEF Crash, diskVars, DiskTypes
<1>15. CASE UNCHANGED vars
  BY <1>1, <1>15 DEF vars, procVars, diskVars
<1> QED BY <1>5, <1>6, <1>7, <1>8, <1>9, <1>10, <1>11, <1>12, <1>13, <1>14, <1>15
        DEF Next, Step

-----------------------------------------------------------------------------
\* Mutexes.
LEMMA LockTypesStep == JobsInv /\ LockTypes /\ [Next]_vars => LockTypes'
<1> SUFFICES ASSUME JobsInv, LockTypes, [Next]_vars PROVE LockTypes'
  OBVIOUS
<1>0. /\ lock \in [Procs -> 0..Len(holder)] /\ writeLocks \in [Names -> 0..Len(holder)]
      /\ holder \in Seq(SUBSET Procs) /\ Len(holder) \in Nat /\ 0 \in 0..Len(holder)
  BY DEF LockTypes
<1>1. CASE UNCHANGED <<lock, writeLocks, holder>>
  BY <1>0, <1>1 DEF LockTypes
\* A mutex is taken or let go.
<1>2. ASSUME NEW p \in Procs, NEW h \in SUBSET Procs,
             holder' = [holder EXCEPT ![lock[p]] = h],
             lock' \in {lock, [lock EXCEPT ![p] = 0]},
             \/ writeLocks' = writeLocks
             \/ \E n : writeLocks' = [writeLocks EXCEPT ![n] = 0]
      PROVE  LockTypes'
  <2>1. holder' \in Seq(SUBSET Procs) /\ Len(holder') = Len(holder)
    BY <1>0, <1>2, Rewritten
  <2> QED BY <1>0, <1>2, <2>1 DEF LockTypes
<1>3. ASSUME NEW p \in Procs, GetWriteLock(p) PROVE LockTypes'
  <2>1. Name(p) \in Names
    BY <1>3, HeadAndTail DEF GetWriteLock, JobsInv, JobShape, SessionTypes, Name, Operations
  <2>2. CASE writeLocks[Name(p)] # 0
    BY <1>0, <1>3, <2>1, <2>2 DEF GetWriteLock, LockTypes, lockVars
  <2>3. CASE writeLocks[Name(p)] = 0
    <3>1. /\ holder' = Append(holder, {}) /\ {} \in SUBSET Procs
          /\ writeLocks' = [writeLocks EXCEPT ![Name(p)] = Len(holder) + 1]
          /\ lock' = [lock EXCEPT ![p] = Len(holder) + 1]
      BY <1>3, <2>3 DEF GetWriteLock
    <3>2. holder' \in Seq(SUBSET Procs) /\ Len(holder') = Len(holder) + 1
      BY <1>0, <3>1
    <3>3. Len(holder) + 1 \in 0..Len(holder') /\ \A i \in 0..Len(holder) : i \in 0..Len(holder')
      BY <1>0, <3>2
    <3> QED BY <1>0, <3>1, <3>2, <3>3 DEF LockTypes
  <2> QED BY <2>2, <2>3
<1>4. ASSUME NEW p \in Procs, Acquire(p) PROVE LockTypes'
  <2>1. /\ holder' = [holder EXCEPT ![lock[p]] = {p}] /\ {p} \in SUBSET Procs
        /\ lock' = lock /\ writeLocks' = writeLocks
    BY <1>4 DEF Acquire
  <2> QED BY <1>2, <2>1
<1>5. ASSUME NEW p \in Procs, ReleaseWriteLock(p) PROVE LockTypes'
  <2>1. /\ holder' = [holder EXCEPT ![lock[p]] = {}] /\ {} \in SUBSET Procs
        /\ lock' = [lock EXCEPT ![p] = 0]
        /\ writeLocks' = [writeLocks EXCEPT ![Name(p)] = 0]
    BY <1>5 DEF ReleaseWriteLock, Return
  <2> QED BY <1>2, <2>1
<1>6. ASSUME NEW p \in Procs, WriteLine(p) \/ RenameTemp(p) PROVE LockTypes'
  BY <1>2, <1>6 DEF WriteLine, RenameTemp, Return
<1>7. ASSUME NEW p \in Procs, OpenFails(p) \/ RenameFails(p) PROVE LockTypes'
  BY <1>2, <1>7 DEF OpenFails, RenameFails, Fail
<1>8. ASSUME NEW p \in Procs,
             LoadSession(p) \/ CreateSession(p) \/ EnsureFile(p) \/ OpenFile(p)
             \/ RemoveFile(p) \/ OpenTemp(p) \/ WriteTemp(p)
      PROVE  LockTypes'
  BY <1>1, <1>8 DEF LoadSession, CreateSession, EnsureFile, OpenFile, RemoveFile, OpenTemp,
        WriteTemp, lockVars
<1>9. CASE Crash
  BY <1>9 DEF Crash, LockTypes
<1>10. CASE UNCHANGED vars
  BY <1>1, <1>10 DEF vars, procVars, lockVars
<1> QED BY <1>3, <1>4, <1>5, <1>6, <1>7, <1>8, <1>9, <1>10 DEF Next, Step

\* A deletion that has begun has begun.
LEMMA DeletionStays == SessionTypes /\ [Next]_vars /\ NoDeletion' => NoDeletion
<1> SUFFICES ASSUME SessionTypes, [Next]_vars,
                    NEW p \in Procs, job[p].kind \in {"delete", "archive"}, Started(p)
             PROVE  ~NoDeletion'
  BY DEF NoDeletion
<1>1. job' = job
  BY DEF Next, Step, LoadSession, CreateSession, GetWriteLock, Acquire, EnsureFile, OpenFile,
        OpenFails, WriteLine, RemoveFile, ReleaseWriteLock, OpenTemp, WriteTemp, RenameTemp,
        RenameFails, Crash, vars
<1>2. pc'[p] # "start"
  <2>1. CASE UNCHANGED vars
    BY <2>1 DEF vars, procVars, Started
  <2>2. CASE Crash
    BY <2>2 DEF Crash, Started
  <2>3. ASSUME NEW q \in Procs, NEW place, place # "start", pc' = [pc EXCEPT ![q] = place]
        PROVE  pc'[p] # "start"
    BY <2>3 DEF SessionTypes, Started
  <2>4. ASSUME NEW q \in Procs, Step(q) PROVE pc'[p] # "start"
    BY <2>3, <2>4 DEF Step, LoadSession, CreateSession, GetWriteLock, Acquire, EnsureFile,
          OpenFile, OpenFails, WriteLine, RemoveFile, ReleaseWriteLock, OpenTemp, WriteTemp,
          RenameTemp, RenameFails, Continue, Return, Fail
  <2> QED BY <2>1, <2>2, <2>4 DEF Next
<1> QED BY <1>1, <1>2 DEF NoDeletion, Started

\* Mutexes exclude writers as long as nothing is deleted.
LEMMA LockStep == JobsInv /\ LockTypes /\ LockInv /\ [Next]_vars => LockInv'
<1> SUFFICES ASSUME JobsInv, LockTypes, LockInv, [Next]_vars, NoDeletion'
             PROVE  /\ ~overlap'
                    /\ \A p \in Procs :
                          /\ pc'[p] \in Inside \cup {"locking"} =>
                                 lock'[p] # 0 /\ lock'[p] = writeLocks'[Name(p)']
                          /\ pc'[p] \in Inside => holder'[lock'[p]] = {p}
  BY DEF LockInv
<1>0. /\ ~overlap
      /\ \A p \in Procs :
            /\ pc[p] \in Inside \cup {"locking"} => lock[p] # 0 /\ lock[p] = writeLocks[Name(p)]
            /\ pc[p] \in Inside => holder[lock[p]] = {p}
  BY DeletionStays DEF LockInv, JobsInv
<1>t. SessionTypes /\ LockTypes /\ \A p \in Procs : JobShape(p)
  BY DEF JobsInv
<1> DEFINE Goal == /\ ~overlap'
                   /\ \A p \in Procs :
                         /\ pc'[p] \in Inside \cup {"locking"} =>
                                lock'[p] # 0 /\ lock'[p] = writeLocks'[Name(p)']
                         /\ pc'[p] \in Inside => holder'[lock'[p]] = {p}
\* A step that has nothing to do with mutexes.
<1>1. ASSUME NEW p \in Procs, NEW place, pc' = [pc EXCEPT ![p] = place],
             UNCHANGED <<lock, lockVars, overlap>>,
             \A q \in Procs \ {p} : todo'[q] = todo[q],
             \/ place \notin Inside \cup {"locking"}
             \/ pc[p] \in Inside /\ todo' = todo
      PROVE  Goal
  <2>1. \A q \in Procs \ {p} : pc'[q] = pc[q] /\ Name(q)' = Name(q)
    BY <1>1, <1>t DEF SessionTypes, Name
  <2>2. pc'[p] = place
    BY <1>1, <1>t DEF SessionTypes
  <2>3. todo' = todo => Name(p)' = Name(p)
    BY DEF Name
  <2> QED BY <1>0, <1>1, <2>1, <2>2, <2>3 DEF lockVars
\* A mutex is let go.
<1>2. ASSUME NEW p \in Procs, NEW place, pc' = [pc EXCEPT ![p] = place],
             place \notin Inside \cup {"locking"}, pc[p] \in Inside,
             holder' = [holder EXCEPT ![lock[p]] = {}], lock' = [lock EXCEPT ![p] = 0],
             UNCHANGED <<writeLocks, overlap>>, \A q \in Procs \ {p} : todo'[q] = todo[q]
      PROVE  Goal
  <2>1. \A q \in Procs \ {p} : pc'[q] = pc[q] /\ Name(q)' = Name(q) /\ lock'[q] = lock[q]
    BY <1>2, <1>t DEF SessionTypes, Name, LockTypes
  <2>2. pc'[p] = place
    BY <1>2, <1>t DEF SessionTypes
  <2>3. ASSUME NEW q \in Procs \ {p}, pc[q] \in Inside PROVE holder'[lock[q]] = {q}
    <3>1. holder[lock[q]] = {q} /\ holder[lock[p]] = {p}
      BY <1>0, <1>2, <2>3
    <3>2. lock[q] # lock[p]
      BY <3>1
    <3>3. lock[q] \in 1..Len(holder)
      BY <1>0, <1>t, <2>3 DEF LockTypes
    <3> QED BY <1>2, <1>t, <3>1, <3>2, <3>3 DEF LockTypes
  <2> QED BY <1>0, <1>2, <2>1, <2>2, <2>3
<1>3. ASSUME NEW p \in Procs, WriteLine(p) \/ RenameTemp(p) PROVE Goal
  <2>1. /\ \E place : place \notin Inside \cup {"locking"} /\ pc' = [pc EXCEPT ![p] = place]
        /\ pc[p] \in Inside
        /\ \A q \in Procs \ {p} : todo'[q] = todo[q]
    BY <1>3, <1>t DEF WriteLine, RenameTemp, Return, Continue, SessionTypes, Inside
  <2> QED BY <1>2, <1>3, <2>1 DEF WriteLine, RenameTemp, Return, histVars
<1>4. ASSUME NEW p \in Procs, OpenFails(p) \/ RenameFails(p) PROVE Goal
  <2>1. /\ pc' = [pc EXCEPT ![p] = "failed"] /\ "failed" \notin Inside \cup {"locking"}
        /\ pc[p] \in Inside /\ todo' = todo
    BY <1>4 DEF OpenFails, RenameFails, Fail, Inside
  <2> QED BY <1>2, <1>4, <2>1 DEF OpenFails, RenameFails, Fail, histVars
<1>5. ASSUME NEW p \in Procs, LoadSession(p) \/ CreateSession(p) PROVE Goal
  <2>1. /\ \E place : place \notin Inside \cup {"locking"} /\ pc' = [pc EXCEPT ![p] = place]
        /\ \A q \in Procs \ {p} : todo'[q] = todo[q]
    BY <1>5, <1>t DEF LoadSession, CreateSession, Continue, SessionTypes, Inside
  <2> QED BY <1>1, <1>5, <2>1 DEF LoadSession, CreateSession, histVars
<1>6. ASSUME NEW p \in Procs,
             EnsureFile(p) \/ OpenFile(p) \/ OpenTemp(p) \/ WriteTemp(p)
      PROVE  Goal
  BY <1>1, <1>6 DEF EnsureFile, OpenFile, OpenTemp, WriteTemp, Inside, histVars
\* Nobody is at a deletion.
<1>7. ASSUME NEW p \in Procs, Op(p) = "delete", pc[p] \in Inside PROVE FALSE
  <2>1. todo[p] # <<>> /\ todo[p][1].op = "delete" /\ 1 \in 1..Len(todo[p])
    BY <1>t, <1>7, HeadAndTail DEF JobShape, SessionTypes, Op, Inside
  <2>2. job[p].kind \in {"delete", "archive"}
    BY <1>t, <2>1 DEF JobShape, Sound
  <2>3. NoDeletion
    BY <1>t, DeletionStays
  <2> QED BY <1>7, <2>2, <2>3 DEF NoDeletion, Started, Inside
<1>8. ASSUME NEW p \in Procs, RemoveFile(p) \/ ReleaseWriteLock(p) PROVE Goal
  BY <1>7, <1>8, <1>t DEF RemoveFile, ReleaseWriteLock, JobShape, Inside
<1>9. ASSUME NEW p \in Procs, GetWriteLock(p) PROVE Goal
  <2>0. Name(p) \in Names
    BY <1>9, <1>t, HeadAndTail DEF GetWriteLock, JobShape, SessionTypes, Name, Operations
  <2>1. \A q \in Procs : /\ Name(q)' = Name(q)
                         /\ q # p => pc'[q] = pc[q] /\ lock'[q] = lock[q]
    BY <1>9, <1>t DEF GetWriteLock, SessionTypes, LockTypes, Name
  <2>2. pc'[p] = "locking" /\ "locking" \notin Inside /\ overlap' = overlap
    BY <1>9, <1>t DEF GetWriteLock, SessionTypes, Inside, histVars
  <2>3. CASE writeLocks[Name(p)] # 0
    <3>1. lock'[p] = writeLocks[Name(p)] /\ UNCHANGED lockVars
      BY <1>9, <1>t, <2>3 DEF GetWriteLock, LockTypes
    <3> QED BY <1>0, <2>1, <2>2, <2>3, <3>1 DEF lockVars
  <2>4. CASE writeLocks[Name(p)] = 0
    <3>1. /\ holder' = Append(holder, {}) /\ lock'[p] = Len(holder) + 1
          /\ writeLocks' = [writeLocks EXCEPT ![Name(p)] = Len(holder) + 1]
      BY <1>9, <1>t, <2>4 DEF GetWriteLock, LockTypes
    <3>2. Len(holder) \in Nat /\ \A i \in 1..Len(holder) : holder'[i] = holder[i]
      BY <1>t, <3>1 DEF LockTypes
    <3>3. lock'[p] # 0 /\ lock'[p] = writeLocks'[Name(p)]
      BY <1>t, <2>0, <3>1, <3>2 DEF LockTypes
    <3>4. ASSUME NEW q \in Procs \ {p}, pc[q] \in Inside \cup {"locking"}
          PROVE  /\ lock[q] # 0 /\ lock[q] = writeLocks'[Name(q)]
                 /\ pc[q] \in Inside => holder'[lock[q]] = {q}
      <4>1. lock[q] # 0 /\ lock[q] = writeLocks[Name(q)] /\ lock[q] \in 1..Len(holder)
        BY <1>0, <1>t, <3>4 DEF LockTypes
      <4>2. Name(q) # Name(p)
        BY <2>4, <4>1
      <4>3. writeLocks'[Name(q)] = writeLocks[Name(q)]
        BY <1>t, <3>1, <4>2 DEF LockTypes
      <4> QED BY <1>0, <3>2, <4>1, <4>3
    <3> QED BY <1>0, <2>1, <2>2, <3>3, <3>4
  <2> QED BY <2>3, <2>4
<1>10. ASSUME NEW p \in Procs, Acquire(p) PROVE Goal
  <2>1. \A q \in Procs : /\ Name(q)' = Name(q) /\ lock'[q] = lock[q]
                         /\ q # p => pc'[q] = pc[q]
    BY <1>10, <1>t DEF Acquire, SessionTypes, Name
  <2>2. /\ pc'[p] = "locked" /\ pc[p] = "locking" /\ holder[lock[p]] = {}
        /\ writeLocks' = writeLocks /\ holder' = [holder EXCEPT ![lock[p]] = {p}]
        /\ overlap' = (overlap \/ \E q \in Procs \ {p} : pc[q] \in Inside /\ Name(q) = Name(p))
    BY <1>10, <1>t DEF Acquire, SessionTypes
  <2>3. lock[p] # 0 /\ lock[p] = writeLocks[Name(p)] /\ lock[p] \in 1..Len(holder)
    BY <1>0, <1>t, <2>2 DEF LockTypes
  <2>4. holder'[lock[p]] = {p} /\ \A i \in 1..Len(holder) : i # lock[p] => holder'[i] = holder[i]
    BY <1>t, <2>2, <2>3 DEF LockTypes
  <2>5. ASSUME NEW q \in Procs \ {p}, pc[q] \in Inside
        PROVE  lock[q] # lock[p] /\ Name(q) # Name(p) /\ lock[q] \in 1..Len(holder)
    <3>1. holder[lock[q]] = {q} /\ lock[q] = writeLocks[Name(q)] /\ lock[q] # 0
      BY <1>0, <2>5
    <3>2. lock[q] # lock[p]
      BY <2>2, <3>1
    <3>3. Name(q) # Name(p)
      BY <2>3, <3>1, <3>2
    <3>4. lock[q] \in 1..Len(holder)
      BY <1>t, <3>1 DEF LockTypes
    <3> QED BY <3>2, <3>3, <3>4
  <2>6. ~overlap'
    BY <1>0, <2>2, <2>5
  <2> QED BY <1>0, <2>1, <2>2, <2>3, <2>4, <2>5, <2>6
<1>11. CASE Crash
  BY <1>0, <1>11 DEF Crash, Inside, histVars
<1>12. CASE UNCHANGED vars
  BY <1>0, <1>12 DEF vars, procVars, lockVars, histVars, Name
<1> QED BY <1>3, <1>4, <1>5, <1>6, <1>8, <1>9, <1>10, <1>11, <1>12 DEF Next, Step

\* At the start no mutex is held.
LEMMA LockInit == Init => LockTypes /\ LockInv
<1> SUFFICES ASSUME Init PROVE LockTypes /\ LockInv
  OBVIOUS
<1>1. LockTypes
  BY DEF Init, LockTypes
<1>2. LockInv
  BY DEF Init, LockInv, Inside
<1> QED BY <1>1, <1>2

\* Whatever the jobs are, and however often the program dies, two writers of
\* one session are inside together only if a deletion has begun: the mutexes
\* that getWriteLock hands out serialize everything else.
THEOREM OnlyDeletionSplitsWritersHolds == Spec => []OnlyDeletionSplitsWriters
<1> DEFINE Inv == JobsInv /\ DiskTypes /\ LockTypes /\ LockInv
<1>1. Init => Inv
  BY JobsInitInv, DiskInit, LockInit
<1>2. Inv /\ [Next]_vars => Inv'
  BY JobsStep, DiskStep, LockTypesStep, LockStep
<1>3. Inv => OnlyDeletionSplitsWriters
  BY DEF LockInv, NoDeletion, OnlyDeletionSplitsWriters
<1> QED BY <1>1, <1>2, <1>3, PTL DEF Spec

-----------------------------------------------------------------------------
\* What is on the disk.

\* The operation that a job is at.
LEMMA Actor ==
    ASSUME JobsInv, NEW p \in Procs, todo[p] # <<>>
    PROVE  /\ Head(todo[p]) = todo[p][1] /\ 1 \in 1..Len(todo[p]) /\ Len(todo[p]) \in Nat
           /\ Sound(p, Head(todo[p])) /\ Name(p) \in Names /\ Head(todo[p]).msg \in Stored
           /\ Op(p) = "delete" => Len(todo[p]) = 1
           /\ Op(p) = "replace" => Len(entries[p]) > MaxEntries
           /\ job[p].kind \in {"append", "archive"} => job[p].key \in Keys
<1>1. todo[p] \in Seq(Operations) /\ JobShape(p)
      /\ (job[p].kind \in {"append", "archive"} => job[p].key \in Keys)
  BY JobTypes DEF JobsInv, SessionTypes
<1>2. /\ Head(todo[p]) = todo[p][1] /\ 1 \in 1..Len(todo[p]) /\ Len(todo[p]) \in Nat
      /\ Head(todo[p]) \in Operations
  BY <1>1, HeadAndTail
<1> QED BY <1>1, <1>2 DEF JobShape, Op, Name, Operations

\* For every number of writers, names, mutexes and files the variables have
\* values of their types: no index of a mutex or a file is one that is not there.
THEOREM SessionTypeCorrect == Spec => []TypeOK
<1> DEFINE Inv == JobsInv /\ DiskTypes /\ LockTypes
<1>1. Init => Inv
  BY JobsInitInv, DiskInit, LockInit
<1>2. Inv /\ [Next]_vars => Inv'
  BY JobsStep, DiskStep, LockTypesStep
<1>3. Inv => TypeOK
  <2> SUFFICES ASSUME Inv PROVE TypeOK
    OBVIOUS
  <2>1. \A p \in Procs : todo[p] = <<>> \/ Name(p) \in Names
    BY Actor
  <2>2. pc \in [Procs -> Inside \cup {"start", "next", "locking", "done", "failed"}]
    BY DEF JobsInv, SessionTypes, Places, Inside
  <2> QED BY <2>1, <2>2 DEF TypeOK, LockTypes, DiskTypes, Stored
<1> QED BY <1>1, <1>2, <1>3, PTL DEF Spec

\* Overlaps are not forgotten.
LEMMA OverlapStays == SessionTypes /\ [Next]_vars /\ ~overlap' => ~overlap
<1> SUFFICES ASSUME SessionTypes, [Next]_vars, ~overlap' PROVE ~overlap
  OBVIOUS
<1>1. ASSUME NEW p \in Procs, Acquire(p) PROVE ~overlap
  BY <1>1 DEF Acquire
<1>2. ASSUME overlap' = overlap PROVE ~overlap
  BY <1>2
<1>3. ASSUME NEW p \in Procs, Step(p), ~Acquire(p) PROVE overlap' = overlap
  BY <1>3 DEF Step, LoadSession, CreateSession, GetWriteLock, EnsureFile, OpenFile, OpenFails,
        WriteLine, RemoveFile, ReleaseWriteLock, OpenTemp, WriteTemp, RenameTemp,
        RenameFails, histVars
<1>4. CASE Crash \/ UNCHANGED vars
  BY <1>2, <1>4 DEF Crash, vars, histVars
<1> QED BY <1>1, <1>2, <1>3, <1>4 DEF Next

\* No step makes two inodes one.
LEMMA InodesStep == JobsInv /\ DiskTypes /\ InodesApart /\ [Next]_vars => InodesApart'
<1> SUFFICES ASSUME JobsInv, DiskTypes, InodesApart, [Next]_vars PROVE InodesApart'
  OBVIOUS
<1>0. /\ file \in [Names -> 0..Len(data)] /\ temp \in [Names -> 0..Len(data)]
      /\ Len(data) \in Nat /\ \A p \in Procs : JobShape(p)
      /\ \A n, m \in Names : temp[n] # 0 => temp[n] # file[m]
      /\ \A n, m \in Names : temp[n] # 0 /\ temp[n] = temp[m] => n = m
  BY DEF DiskTypes, InodesApart, JobsInv
<1>1. CASE UNCHANGED <<file, temp>>
  BY <1>0, <1>1 DEF InodesApart
<1>2. ASSUME NEW n \in Names, file' = [file EXCEPT ![n] = Len(data) + 1], temp' = temp
      PROVE  InodesApart'
  BY <1>0, <1>2 DEF InodesApart
<1>3. ASSUME NEW p \in Procs, CreateSession(p) \/ EnsureFile(p) PROVE InodesApart'
  <2>1. Name(p) \in Names
    BY <1>0, <1>3, Actor DEF CreateSession, EnsureFile, JobShape
  <2> QED BY <1>1, <1>2, <1>3, <2>1 DEF CreateSession, EnsureFile, NewFile
<1>4. ASSUME NEW p \in Procs, RemoveFile(p) PROVE InodesApart'
  <2>1. Name(p) \in Names /\ file' = [file EXCEPT ![Name(p)] = 0] /\ temp' = temp
    BY <1>0, <1>4, Actor DEF RemoveFile, JobShape
  <2> QED BY <1>0, <2>1 DEF InodesApart
<1>5. ASSUME NEW p \in Procs, OpenTemp(p) PROVE InodesApart'
  <2>1. Name(p) \in Names /\ file' = file
        /\ temp' \in {temp, [temp EXCEPT ![Name(p)] = Len(data) + 1]}
    BY <1>0, <1>5, Actor DEF OpenTemp, JobShape
  <2>2. CASE temp' = temp
    BY <1>1, <2>1, <2>2
  <2>3. CASE temp' = [temp EXCEPT ![Name(p)] = Len(data) + 1]
    BY <1>0, <2>1, <2>3 DEF InodesApart
  <2> QED BY <2>1, <2>2, <2>3
<1>6. ASSUME NEW p \in Procs, RenameTemp(p) PROVE InodesApart'
  <2>1. Name(p) \in Names /\ file' = [file EXCEPT ![Name(p)] = temp[Name(p)]]
        /\ temp' = [temp EXCEPT ![Name(p)] = 0]
    BY <1>0, <1>6, Actor DEF RenameTemp, JobShape
  <2> QED BY <1>0, <2>1 DEF InodesApart
<1>7. ASSUME NEW p \in Procs,
             LoadSession(p) \/ GetWriteLock(p) \/ Acquire(p) \/ OpenFile(p) \/ OpenFails(p)
             \/ WriteLine(p) \/ ReleaseWriteLock(p) \/ WriteTemp(p) \/ RenameFails(p)
      PROVE  InodesApart'
  BY <1>1, <1>7 DEF LoadSession, GetWriteLock, Acquire, OpenFile, OpenFails, WriteLine,
        ReleaseWriteLock, WriteTemp, RenameFails, diskVars
<1>8. CASE Crash \/ UNCHANGED vars
  BY <1>1, <1>8 DEF Crash, vars, diskVars
<1> QED BY <1>3, <1>4, <1>5, <1>6, <1>7, <1>8 DEF Next, Step

\* What a session holds it keeps, unless it is removed or replaced.
LEMMA ContentStays ==
    ASSUME JobsInv, DiskTypes, InodesApart, \A p \in Procs : OpenRight(p), [Next]_vars,
           NEW n \in Names, NEW m \in Range(Content(n))
    PROVE  \/ m \in Range(Content(n)')
           \/ \E p \in Procs : (RemoveFile(p) \/ RenameTemp(p)) /\ Name(p) = n
<1>0. /\ file \in [Names -> 0..Len(data)] /\ temp \in [Names -> 0..Len(data)]
      /\ Len(data) \in Nat /\ data \in Seq(Seq(Stored))
      /\ \A p \in Procs : JobShape(p)
      /\ \A o, l \in Names : temp[o] # 0 => temp[o] # file[l]
  BY DEF DiskTypes, InodesApart, JobsInv
<1>1. file[n] # 0 /\ file[n] \in 1..Len(data) /\ m \in Range(data[file[n]])
  BY <1>0 DEF Content, Range
<1>2. ASSUME file'[n] = file[n], m \in Range(data'[file[n]]) PROVE m \in Range(Content(n)')
  BY <1>1, <1>2 DEF Content
\* Files and directories that are left alone, and new ones.
<1>3. ASSUME file' = file, data' = data PROVE m \in Range(Content(n)')
  BY <1>1, <1>2, <1>3
<1>4. ASSUME data' = Append(data, <<>>), file'[n] = file[n] PROVE m \in Range(Content(n)')
  <2>1. data'[file[n]] = data[file[n]]
    BY <1>0, <1>1, <1>4
  <2> QED BY <1>1, <1>2, <1>4, <2>1
<1>5. ASSUME NEW p \in Procs, CreateSession(p) \/ EnsureFile(p) PROVE m \in Range(Content(n)')
  <2>1. CASE UNCHANGED <<data, file>>
    BY <1>3, <2>1
  <2>2. CASE file[Name(p)] = 0 /\ NewFile(Name(p))
    <3>1. file'[n] = file[n]
      BY <1>0, <1>1, <2>2 DEF NewFile
    <3> QED BY <1>4, <2>2, <3>1 DEF NewFile
  <2> QED BY <1>5, <2>1, <2>2 DEF CreateSession, EnsureFile
\* Files that are written to.
<1>6. ASSUME NEW p \in Procs, WriteLine(p) PROVE m \in Range(Content(n)')
  <2>1. /\ data' = [data EXCEPT ![fd[p]] = Append(data[fd[p]], Head(todo[p]).msg)]
        /\ file' = file /\ Head(todo[p]).msg \in Stored
    BY <1>0, <1>6, Actor DEF WriteLine, JobShape
  <2>2. CASE fd[p] = file[n]
    <3>1. data[fd[p]] \in Seq(Stored)
      BY <1>0, <1>1, <2>2
    <3>2. Range(Append(data[fd[p]], Head(todo[p]).msg))
              = Range(data[fd[p]]) \cup {Head(todo[p]).msg}
      BY <2>1, <3>1, Appended
    <3>3. data'[file[n]] = Append(data[fd[p]], Head(todo[p]).msg)
      BY <1>0, <1>1, <2>1, <2>2
    <3> QED BY <1>1, <1>2, <2>1, <2>2, <3>2, <3>3
  <2>3. CASE fd[p] # file[n]
    <3>1. data'[file[n]] = data[file[n]]
      BY <1>0, <1>1, <2>1, <2>3
    <3> QED BY <1>1, <1>2, <2>1, <3>1
  <2> QED BY <2>2, <2>3
<1>7. ASSUME NEW p \in Procs, OpenTemp(p) PROVE m \in Range(Content(n)')
  <2>1. Name(p) \in Names /\ file' = file
    BY <1>0, <1>7, Actor DEF OpenTemp, JobShape
  <2>2. CASE temp[Name(p)] = 0
    BY <1>4, <1>7, <2>1, <2>2 DEF OpenTemp
  <2>3. CASE temp[Name(p)] # 0
    <3>1. data' = [data EXCEPT ![temp[Name(p)]] = <<>>] /\ temp[Name(p)] # file[n]
      BY <1>0, <1>7, <2>1, <2>3 DEF OpenTemp
    <3>2. data'[file[n]] = data[file[n]]
      BY <1>0, <1>1, <3>1
    <3> QED BY <1>1, <1>2, <2>1, <3>2
  <2> QED BY <2>2, <2>3
<1>8. ASSUME NEW p \in Procs, WriteTemp(p) PROVE m \in Range(Content(n)')
  <2>1. Name(p) \in Names /\ file' = file
    BY <1>0, <1>8, Actor DEF WriteTemp, JobShape
  <2>2. fd[p] # file[n]
    BY <1>0, <1>8, <2>1 DEF WriteTemp, OpenRight
  <2>3. \E c : data' = [data EXCEPT ![fd[p]] = c]
    BY <1>8 DEF WriteTemp
  <2>4. data'[file[n]] = data[file[n]]
    BY <1>0, <1>1, <2>2, <2>3
  <2> QED BY <1>1, <1>2, <2>1, <2>4
\* Names that are given up or given away.
<1>9. ASSUME NEW p \in Procs, RemoveFile(p) \/ RenameTemp(p), Name(p) # n
      PROVE  m \in Range(Content(n)')
  <2>1. file'[n] = file[n] /\ data' = data
    BY <1>0, <1>9 DEF RemoveFile, RenameTemp
  <2> QED BY <1>1, <1>2, <2>1
<1>10. ASSUME NEW p \in Procs,
              LoadSession(p) \/ GetWriteLock(p) \/ Acquire(p) \/ OpenFile(p) \/ OpenFails(p)
              \/ ReleaseWriteLock(p) \/ RenameFails(p)
       PROVE  m \in Range(Content(n)')
  <2>1. file' = file /\ data' = data
    BY <1>10 DEF LoadSession, GetWriteLock, Acquire, OpenFile, OpenFails,
        ReleaseWriteLock, RenameFails, diskVars
  <2> QED BY <1>3, <2>1
<1>11. CASE Crash \/ UNCHANGED vars
  BY <1>3, <1>11 DEF Crash, vars, diskVars
<1> QED BY <1>5, <1>6, <1>7, <1>8, <1>9, <1>10, <1>11 DEF Next, Step

\* A step of one job leaves the others where they are.
LEMMA OthersStay ==
    ASSUME SessionTypes, DiskTypes, NEW p \in Procs, Step(p), NEW q \in Procs \ {p}
    PROVE  /\ pc'[q] = pc[q] /\ todo'[q] = todo[q] /\ entries'[q] = entries[q]
           /\ fd'[q] = fd[q] /\ job' = job /\ Name(q)' = Name(q) /\ Op(q)' = Op(q)
<1>1. /\ pc'[q] = pc[q] /\ todo'[q] = todo[q] /\ entries'[q] = entries[q]
      /\ fd'[q] = fd[q] /\ job' = job
  BY DEF SessionTypes, DiskTypes, Step, LoadSession, CreateSession, GetWriteLock, Acquire,
        EnsureFile, OpenFile, OpenFails, WriteLine, RemoveFile, ReleaseWriteLock, OpenTemp,
        WriteTemp, RenameTemp, RenameFails, Continue, Return, Fail
<1> QED BY <1>1 DEF Name, Op

\* Where a step takes a job: into its section by Acquire, and on in it without
\* another name.
LEMMA WayIn ==
    ASSUME SessionTypes, NEW p \in Procs, Step(p), pc'[p] \in Inside
    PROVE  \/ Acquire(p) /\ Name(p)' = Name(p)
           \/ pc[p] \in Inside /\ Name(p)' = Name(p) /\ Op(p)' = Op(p)
<1>1. CASE Acquire(p)
  BY <1>1 DEF Acquire, Name
<1>2. CASE EnsureFile(p) \/ OpenFile(p) \/ RemoveFile(p) \/ OpenTemp(p) \/ WriteTemp(p)
  BY <1>2 DEF EnsureFile, OpenFile, RemoveFile, OpenTemp, WriteTemp, Inside, Name, Op
<1>3. CASE LoadSession(p) \/ CreateSession(p) \/ WriteLine(p) \/ ReleaseWriteLock(p)
           \/ RenameTemp(p)
  <2>1. pc'[p] \in {"done", "next"}
    BY <1>3 DEF LoadSession, CreateSession, WriteLine, ReleaseWriteLock, RenameTemp, Return,
          Continue, SessionTypes
  <2> QED BY <2>1 DEF Inside
<1>4. CASE GetWriteLock(p)
  BY <1>4 DEF GetWriteLock, SessionTypes, Inside
<1>5. CASE OpenFails(p) \/ RenameFails(p)
  BY <1>5 DEF OpenFails, RenameFails, Fail, SessionTypes, Inside
<1> QED BY <1>1, <1>2, <1>3, <1>4, <1>5 DEF Step

\* While no deletion has split them, two jobs are never inside together.
LEMMA ExclusiveStep ==
    SessionTypes /\ DiskTypes /\ Exclusive /\ [Next]_vars /\ ~overlap' => Exclusive'
<1> SUFFICES ASSUME SessionTypes, DiskTypes, Exclusive, [Next]_vars, ~overlap',
                    NEW q \in Procs, NEW o \in Procs, q # o,
                    pc'[q] \in Inside, pc'[o] \in Inside
             PROVE  Name(q)' # Name(o)'
  BY DEF Exclusive
<1>1. CASE Crash
  BY <1>1 DEF Crash, Inside
<1>2. CASE UNCHANGED vars
  BY <1>2 DEF vars, procVars, Exclusive, Name
<1>3. ASSUME NEW p \in Procs, Step(p), NEW r \in Procs \ {p}, pc'[p] \in Inside,
             pc'[r] \in Inside
      PROVE  Name(p)' # Name(r)'
  <2>1. pc[r] \in Inside /\ Name(r)' = Name(r)
    BY <1>3, OthersStay
  <2>2. CASE Acquire(p) /\ Name(p)' = Name(p)
    BY <2>1, <2>2 DEF Acquire
  <2>3. CASE pc[p] \in Inside /\ Name(p)' = Name(p)
    BY <2>1, <2>3 DEF Exclusive
  <2> QED BY <1>3, <2>2, <2>3, WayIn
<1>4. ASSUME NEW p \in Procs, Step(p) PROVE Name(q)' # Name(o)'
  <2>1. CASE p = q
    BY <1>3, <1>4, <2>1
  <2>2. CASE p = o
    BY <1>3, <1>4, <2>2
  <2>3. CASE p # q /\ p # o
    BY <1>4, <2>3, OthersStay DEF Exclusive
  <2> QED BY <2>1, <2>2, <2>3
<1> QED BY <1>1, <1>2, <1>4 DEF Next

\* What a step of one job does to what another one has open.
LEMMA OpenElsewhere ==
    ASSUME JobsInv, DiskTypes, InodesApart, Exclusive, \A o \in Procs : OpenRight(o),
           NEW p \in Procs, Step(p), NEW q \in Procs \ {p}
    PROVE  OpenRight(q)'
<1>0. /\ file \in [Names -> 0..Len(data)] /\ temp \in [Names -> 0..Len(data)]
      /\ fd \in [Procs -> 0..Len(data)]
      /\ Len(data) \in Nat /\ data \in Seq(Seq(Stored))
      /\ \A o \in Procs : JobShape(o)
      /\ \A o, l \in Names : temp[o] # 0 /\ temp[o] = temp[l] => o = l
      /\ \A o, l \in Names : temp[o] # 0 => temp[o] # file[l]
      /\ SessionTypes
  BY DEF DiskTypes, InodesApart, JobsInv
<1>1. /\ pc'[q] = pc[q] /\ todo'[q] = todo[q] /\ entries'[q] = entries[q]
      /\ fd'[q] = fd[q] /\ Name(q)' = Name(q) /\ Op(q)' = Op(q)
  BY <1>0, OthersStay
<1>2. OpenRight(q)
  OBVIOUS
<1>3. ASSUME pc[q] \in {"opened", "written"} PROVE Name(q) \in Names
  BY <1>0, <1>3, Actor DEF JobShape
<1>4. ASSUME pc[q] \in Inside, pc[p] \in Inside PROVE Name(q) # Name(p)
  BY <1>4 DEF Exclusive
<1>p. ASSUME pc[p] \in Inside PROVE Name(p) \in Names
  BY <1>0, <1>p, Actor DEF JobShape, Inside
\* It is enough that names and contents stay.
<1>5. ASSUME pc[q] = "opened" /\ Op(q) = "append" => file'[Name(q)] = file[Name(q)],
             pc[q] \in {"opened", "written"} /\ Op(q) = "replace" =>
                 temp'[Name(q)] = temp[Name(q)],
             pc[q] = "written" => Range(data[fd[q]]) \subseteq Range(data'[fd[q]])
      PROVE  OpenRight(q)'
  BY <1>1, <1>2, <1>5 DEF OpenRight
<1>6. CASE UNCHANGED <<file, temp, data>>
  BY <1>5, <1>6
<1>7. pc[q] = "written" =>
          /\ fd[q] = temp[Name(q)] /\ fd[q] \in 1..Len(data) /\ Name(q) \in Names
  BY <1>0, <1>2, <1>3 DEF OpenRight, JobShape
<1>8. CASE CreateSession(p) \/ EnsureFile(p)
  <2>1. CASE file[Name(p)] = 0 /\ NewFile(Name(p))
    <3>1. pc[q] = "opened" /\ Op(q) = "append" => file'[Name(q)] = file[Name(q)]
      BY <1>0, <1>2, <1>3, <2>1 DEF OpenRight, NewFile
    <3>2. \A i \in 1..Len(data) : data'[i] = data[i]
      BY <1>0, <2>1 DEF NewFile
    <3>3. temp' = temp
      BY <1>8 DEF CreateSession, EnsureFile
    <3> QED BY <1>5, <1>7, <3>1, <3>2, <3>3
  <2> QED BY <1>6, <1>8, <2>1 DEF CreateSession, EnsureFile
<1>9. CASE WriteLine(p)
  <2>1. /\ data' = [data EXCEPT ![fd[p]] = Append(data[fd[p]], Head(todo[p]).msg)]
        /\ file' = file /\ temp' = temp /\ Head(todo[p]).msg \in Stored
    BY <1>0, <1>9, Actor DEF WriteLine, JobShape
  <2>2. ASSUME pc[q] = "written" PROVE Range(data[fd[q]]) \subseteq Range(data'[fd[q]])
    <3>1. fd[q] \in 1..Len(data) /\ data[fd[q]] \in Seq(Stored)
      BY <1>0, <1>7, <2>2
    <3>2. CASE fd[p] = fd[q]
      <4>1. data'[fd[q]] = Append(data[fd[q]], Head(todo[p]).msg)
        BY <1>0, <2>1, <3>1, <3>2
      <4>2. Range(Append(data[fd[q]], Head(todo[p]).msg))
                = Range(data[fd[q]]) \cup {Head(todo[p]).msg}
        BY <2>1, <3>1, Appended
      <4> QED BY <4>1, <4>2
    <3>3. CASE fd[p] # fd[q]
      <4>1. data'[fd[q]] = data[fd[q]]
        BY <1>0, <2>1, <3>1, <3>3
      <4> QED BY <4>1
    <3> QED BY <3>2, <3>3
  <2> QED BY <1>5, <2>1, <2>2
<1>10. CASE RemoveFile(p)
  <2>1. pc[p] \in Inside /\ Name(p) \in Names /\ file' = [file EXCEPT ![Name(p)] = 0]
        /\ temp' = temp /\ data' = data
    BY <1>10, <1>p DEF RemoveFile, Inside
  <2>2. pc[q] = "opened" => Name(q) # Name(p)
    BY <1>4, <2>1 DEF Inside
  <2>3. pc[q] = "opened" => file'[Name(q)] = file[Name(q)]
    BY <1>0, <1>3, <2>1, <2>2
  <2> QED BY <1>5, <2>1, <2>3
<1>11. CASE OpenTemp(p)
  <2>1. pc[p] \in Inside /\ Name(p) \in Names /\ file' = file
    BY <1>11, <1>p DEF OpenTemp, Inside
  <2>2. pc[q] \in {"opened", "written"} => Name(q) # Name(p)
    BY <1>4, <2>1 DEF Inside
  <2>3. CASE temp[Name(p)] = 0
    <3>1. data' = Append(data, <<>>) /\ temp' = [temp EXCEPT ![Name(p)] = Len(data) + 1]
      BY <1>11, <2>3 DEF OpenTemp
    <3>2. \A i \in 1..Len(data) : data'[i] = data[i]
      BY <1>0, <3>1
    <3>3. pc[q] \in {"opened", "written"} => temp'[Name(q)] = temp[Name(q)]
      BY <1>0, <1>3, <2>2, <3>1
    <3> QED BY <1>5, <1>7, <2>1, <3>2, <3>3
  <2>4. CASE temp[Name(p)] # 0
    <3>1. data' = [data EXCEPT ![temp[Name(p)]] = <<>>] /\ temp' = temp
      BY <1>11, <2>4 DEF OpenTemp
    <3>2. pc[q] = "written" => fd[q] # temp[Name(p)]
      BY <1>0, <1>7, <2>1, <2>2, <2>4
    <3>3. pc[q] = "written" => data'[fd[q]] = data[fd[q]]
      BY <1>0, <1>7, <3>1, <3>2
    <3> QED BY <1>5, <2>1, <3>1, <3>3
  <2> QED BY <2>3, <2>4
<1>12. CASE WriteTemp(p)
  <2>1. pc[p] \in Inside /\ Name(p) \in Names /\ file' = file /\ temp' = temp
        /\ fd[p] = temp[Name(p)] /\ fd[p] # 0
    BY <1>12, <1>p DEF WriteTemp, Inside, OpenRight
  <2>2. pc[q] = "written" => Name(q) # Name(p)
    BY <1>4, <2>1 DEF Inside
  <2>3. pc[q] = "written" => fd[q] # fd[p]
    BY <1>0, <1>7, <2>1, <2>2
  <2>4. \E c : data' = [data EXCEPT ![fd[p]] = c]
    BY <1>12 DEF WriteTemp
  <2>5. pc[q] = "written" => data'[fd[q]] = data[fd[q]]
    BY <1>0, <1>7, <2>3, <2>4
  <2> QED BY <1>5, <2>1, <2>5
<1>13. CASE RenameTemp(p)
  <2>1. pc[p] \in Inside /\ Name(p) \in Names /\ data' = data
        /\ file' = [file EXCEPT ![Name(p)] = temp[Name(p)]]
        /\ temp' = [temp EXCEPT ![Name(p)] = 0]
    BY <1>13, <1>p DEF RenameTemp, Inside
  <2>2. pc[q] \in {"opened", "written"} => Name(q) # Name(p)
    BY <1>4, <2>1 DEF Inside
  <2>3. pc[q] \in {"opened", "written"} =>
            file'[Name(q)] = file[Name(q)] /\ temp'[Name(q)] = temp[Name(q)]
    BY <1>0, <1>3, <2>1, <2>2
  <2> QED BY <1>5, <2>1, <2>3
<1>14. CASE LoadSession(p) \/ GetWriteLock(p) \/ Acquire(p) \/ OpenFile(p) \/ OpenFails(p)
            \/ ReleaseWriteLock(p) \/ RenameFails(p)
  <2>1. UNCHANGED <<file, temp, data>>
    BY <1>14 DEF LoadSession, GetWriteLock, Acquire, OpenFile, OpenFails, ReleaseWriteLock,
          RenameFails, diskVars
  <2> QED BY <1>6, <2>1
<1> QED BY <1>8, <1>9, <1>10, <1>11, <1>12, <1>13, <1>14 DEF Step

\* What a job opens itself.
LEMMA OpenHere ==
    ASSUME JobsInv, DiskTypes, InodesApart, NEW p \in Procs, OpenRight(p), Step(p)
    PROVE  OpenRight(p)'
<1>0. /\ file \in [Names -> 0..Len(data)] /\ temp \in [Names -> 0..Len(data)]
      /\ fd \in [Procs -> 0..Len(data)]
      /\ Len(data) \in Nat /\ data \in Seq(Seq(Stored))
      /\ JobShape(p) /\ SessionTypes
  BY DEF DiskTypes, JobsInv
<1>1. ASSUME pc'[p] \notin {"opened", "written"} PROVE OpenRight(p)'
  BY <1>1 DEF OpenRight
<1>2. CASE OpenFile(p)
  <2>1. /\ fd'[p] = file[Name(p)] /\ file[Name(p)] # 0 /\ file' = file
        /\ pc'[p] = "opened" /\ Op(p) = "append" /\ Op(p)' = Op(p) /\ Name(p)' = Name(p)
    BY <1>0, <1>2 DEF OpenFile, JobShape, SessionTypes, Op, Name, diskVars
  <2> QED BY <2>1 DEF OpenRight
<1>3. CASE OpenTemp(p)
  <2>1. /\ pc'[p] = "opened" /\ Op(p) = "replace" /\ Op(p)' = Op(p) /\ Name(p)' = Name(p)
    BY <1>0, <1>3 DEF OpenTemp, SessionTypes, Op, Name
  <2>2. Name(p) \in Names
    BY <1>0, <1>3, Actor DEF OpenTemp, JobShape
  <2>3. fd'[p] # 0 /\ fd'[p] = temp'[Name(p)]
    BY <1>0, <1>3, <2>2 DEF OpenTemp
  <2> QED BY <2>1, <2>3 DEF OpenRight
<1>4. CASE WriteTemp(p)
  <2>1. /\ pc[p] = "opened" /\ Op(p) = "replace" /\ pc'[p] = "written"
        /\ Op(p)' = Op(p) /\ Name(p)' = Name(p) /\ UNCHANGED <<fd, temp, entries>>
        /\ todo[p] # <<>>
    BY <1>0, <1>4 DEF WriteTemp, SessionTypes, JobShape, Op, Name
  <2>2. fd[p] # 0 /\ fd[p] = temp[Name(p)] /\ fd[p] \in 1..Len(data)
    BY <1>0, <2>1 DEF OpenRight
  <2>3. Len(entries[p]) > MaxEntries /\ entries[p] \in Seq(Stored)
    BY <1>0, <2>1, Actor DEF SessionTypes
  <2> DEFINE new == Kept(entries[p])
             old == data[fd[p]]
             all == new \o SubSeq(old, Len(new) + 1, Len(old))
  <2>4. data'[fd[p]] = all
    <3>1. data' = [data EXCEPT ![fd[p]] = all]
      BY <1>4 DEF WriteTemp
    <3> HIDE DEF all
    <3> QED BY <1>0, <2>2, <3>1
  <2>5. old \in Seq(Stored)
    BY <1>0, <2>2
  <2>6. Range(new) \subseteq Range(all)
    BY <2>3, <2>5, KeptIsWritten
  <2>7. Range(Kept(entries'[p])) \subseteq Range(data'[fd'[p]])
    BY <2>1, <2>4, <2>6
  <2> QED BY <2>1, <2>2, <2>7 DEF OpenRight
<1>5. CASE LoadSession(p) \/ CreateSession(p) \/ WriteLine(p) \/ ReleaseWriteLock(p)
           \/ RenameTemp(p)
  <2>1. pc'[p] \in {"done", "next"}
    BY <1>0, <1>5 DEF LoadSession, CreateSession, WriteLine, ReleaseWriteLock, RenameTemp,
          Return, Continue, SessionTypes
  <2> QED BY <1>1, <2>1
<1>6. CASE GetWriteLock(p) \/ Acquire(p) \/ EnsureFile(p) \/ RemoveFile(p) \/ OpenFails(p)
           \/ RenameFails(p)
  <2>1. pc'[p] \in {"locking", "locked", "ensured", "removed", "failed"}
    BY <1>0, <1>6 DEF GetWriteLock, Acquire, EnsureFile, RemoveFile, OpenFails, RenameFails,
          Fail, SessionTypes
  <2> QED BY <1>1, <2>1
<1> QED BY <1>2, <1>3, <1>4, <1>5, <1>6 DEF Step

\* A descriptor stays one of the file under the name, while nothing has split the writers.
LEMMA OpenStep ==
    /\ JobsInv /\ DiskTypes /\ InodesApart /\ Exclusive
    /\ \A p \in Procs : OpenRight(p)
    /\ [Next]_vars
    => \A p \in Procs : OpenRight(p)'
<1> SUFFICES ASSUME JobsInv, DiskTypes, InodesApart, Exclusive,
                    \A p \in Procs : OpenRight(p), [Next]_vars, NEW q \in Procs
             PROVE  OpenRight(q)'
  OBVIOUS
<1>1. CASE Crash
  BY <1>1 DEF Crash, OpenRight
<1>2. CASE UNCHANGED vars
  <2>1. OpenRight(q)
    OBVIOUS
  <2> QED BY <1>2, <2>1 DEF vars, procVars, diskVars, OpenRight, Op, Name
<1>3. ASSUME NEW p \in Procs, Step(p) PROVE OpenRight(q)'
  <2>1. CASE p = q
    BY <1>3, <2>1, OpenHere
  <2>2. CASE p # q
    BY <1>3, <2>2, OpenElsewhere
  <2> QED BY <2>1, <2>2
<1> QED BY <1>1, <1>2, <1>3 DEF Next

\* What was excused stays excused.
LEMMA ExcusedStays == [Next]_vars => excused \subseteq excused'
<1> SUFFICES ASSUME [Next]_vars PROVE excused \subseteq excused'
  OBVIOUS
<1>1. ASSUME NEW p \in Procs, RemoveFile(p) \/ RenameTemp(p) PROVE excused \subseteq excused'
  BY <1>1 DEF RemoveFile, RenameTemp
<1>2. ASSUME NEW p \in Procs, Step(p), ~RemoveFile(p), ~RenameTemp(p) PROVE excused' = excused
  BY <1>2 DEF Step, LoadSession, CreateSession, GetWriteLock, Acquire, EnsureFile, OpenFile,
        OpenFails, WriteLine, ReleaseWriteLock, OpenTemp, WriteTemp, RenameFails, histVars
<1>3. CASE Crash \/ UNCHANGED vars
  BY <1>3 DEF Crash, vars, histVars
<1> QED BY <1>1, <1>2, <1>3 DEF Next

\* A message leaves a file that is replaced with an excuse.
LEMMA ReplacedIsExcused ==
    ASSUME JobsInv, DiskTypes, NEW p \in Procs, OpenRight(p), RenameTemp(p),
           NEW n \in Names, Name(p) = n, NEW m \in Range(Content(n))
    PROVE  m \in excused' \/ m \in Range(Content(n)')
<1>0. /\ JobShape(p) /\ file \in [Names -> 0..Len(data)]
  BY DEF JobsInv, DiskTypes
<1>1. CASE m \notin Range(Kept(entries[p]))
  BY <1>1 DEF RenameTemp
<1>2. CASE m \in Range(Kept(entries[p]))
  <2>1. /\ Op(p) = "replace" /\ pc[p] = "written" /\ temp[n] # 0 /\ data' = data
        /\ file' = [file EXCEPT ![n] = temp[n]]
    BY <1>0 DEF RenameTemp, JobShape
  <2>2. fd[p] = temp[n] /\ m \in Range(data[fd[p]])
    BY <1>2, <2>1 DEF OpenRight
  <2>3. file'[n] = temp[n] /\ data'[file'[n]] = data[fd[p]]
    BY <1>0, <2>1, <2>2
  <2> QED BY <2>1, <2>2, <2>3 DEF Content
<1> QED BY <1>1, <1>2

\* What is in an archive stays in it, unless the cleanup prunes or deletes it.
LEMMA ArchiveStays ==
    ASSUME JobsInv, DiskTypes, InodesApart, \A p \in Procs : OpenRight(p), [Next]_vars,
           NEW k \in Keys, NEW m \in Range(Content(Archived(k)))
    PROVE  m \in excused' \/ m \in Range(Content(Archived(k))')
<1>1. Archived(k) \in Names /\ Archived(k) \notin Keys
  BY NamesApart
<1>2. ASSUME NEW p \in Procs, RemoveFile(p), Name(p) = Archived(k) PROVE m \in excused'
  <2>1. todo[p] # <<>> /\ Op(p) = "delete"
    BY <1>2 DEF RemoveFile, JobsInv, JobShape
  <2>2. job[p].kind # "archive"
    BY <1>1, <1>2, <2>1, Actor DEF Sound, Op, Name
  <2> QED BY <1>2, <2>2 DEF RemoveFile
<1>3. ASSUME NEW p \in Procs, RenameTemp(p), Name(p) = Archived(k)
      PROVE  m \in excused' \/ m \in Range(Content(Archived(k))')
  BY <1>1, <1>3, ReplacedIsExcused
<1> QED BY <1>1, <1>2, <1>3, ContentStays

\* An archiver has copied, or has still to copy, all that it has loaded.
LEMMA CopiedStep ==
    ASSUME JobsInv, DiskTypes, InodesApart, \A p \in Procs : OpenRight(p) /\ Copied(p),
           [Next]_vars, NEW q \in Procs
    PROVE  Copied(q)'
<1>j. job' = job
  BY DEF Next, Step, LoadSession, CreateSession, GetWriteLock, Acquire, EnsureFile, OpenFile,
        OpenFails, WriteLine, RemoveFile, ReleaseWriteLock, OpenTemp, WriteTemp, RenameTemp,
        RenameFails, Crash, vars
<1>3. ASSUME job[q].kind # "archive" PROVE Copied(q)'
  BY <1>3, <1>j DEF Copied
<1> SUFFICES ASSUME job[q].kind = "archive" PROVE Copied(q)'
  BY <1>3
<1>k. PICK k \in Keys : k = job[q].key
  BY JobTypes DEF JobsInv
<1>0. SessionTypes /\ k \in Keys /\ k = job[q].key /\ JobShape(q) /\ Copied(q) /\ OpenRight(q)
      /\ entries[q] \in Seq(Stored) /\ todo[q] \in Seq(Operations)
  BY <1>k DEF JobsInv, SessionTypes
<1>a. \A m \in Range(Content(Archived(k))) :
          m \in excused' \/ m \in Range(Content(Archived(k))')
  BY <1>0, ArchiveStays
<1>b. excused \subseteq excused'
  BY ExcusedStays
<1>g. ASSUME \A m \in Range(entries'[q]) :
                 \/ m \in excused'
                 \/ m \in Range(Content(Archived(k))')
                 \/ \E i \in 1..Len(todo'[q]) :
                        todo'[q][i].op = "append" /\ todo'[q][i].msg = m
      PROVE  Copied(q)'
  <2>1. job'[q].key = k
    BY <1>0, <1>j
  <2>2. Range(Content(Archived(job[q].key)))' = Range(Content(Archived(k))')
    BY <2>1 DEF Content, Archived
  <2> QED BY <1>g, <2>2 DEF Copied
\* The archiver does not move, or its operation ends without a copy.
<1>1. ASSUME entries'[q] = entries[q], todo'[q] = todo[q], job[q].kind = "archive"
      PROVE  Copied(q)'
  <2>1. ASSUME NEW m \in Range(entries'[q])
        PROVE  \/ m \in excused'
               \/ m \in Range(Content(Archived(k))')
               \/ \E i \in 1..Len(todo'[q]) :
                      todo'[q][i].op = "append" /\ todo'[q][i].msg = m
    BY <1>0, <1>1, <1>a, <1>b, <2>1 DEF Copied
  <2> QED BY <1>g, <2>1
<1>2. ASSUME entries'[q] = entries[q], todo'[q] = Tail(todo[q]), todo[q] # <<>>,
             job[q].kind = "archive",
             Op(q) = "append" => Head(todo[q]).msg \in Range(Content(Archived(k))')
      PROVE  Copied(q)'
  <2>1. ASSUME NEW m \in Range(entries[q])
        PROVE  \/ m \in excused'
               \/ m \in Range(Content(Archived(k))')
               \/ \E i \in 1..Len(todo'[q]) :
                      todo'[q][i].op = "append" /\ todo'[q][i].msg = m
    <3>1. CASE m \in Range(Content(Archived(k)))
      BY <1>a, <3>1
    <3>2. ASSUME NEW i \in 1..Len(todo[q]), todo[q][i].op = "append", todo[q][i].msg = m
          PROVE  \/ m \in excused'
                 \/ m \in Range(Content(Archived(k))')
                 \/ \E j \in 1..Len(todo'[q]) :
                        todo'[q][j].op = "append" /\ todo'[q][j].msg = m
      <4>1. CASE i = 1
        <5>1. Head(todo[q]) = todo[q][1]
          BY <1>0, <1>2, HeadAndTail
        <5> QED BY <1>2, <3>2, <4>1, <5>1 DEF Op
      <4>2. CASE i # 1
        <5>1. /\ Len(todo'[q]) = Len(todo[q]) - 1 /\ Len(todo[q]) \in Nat
              /\ \A j \in 1..Len(todo'[q]) : todo'[q][j] = todo[q][j + 1]
          BY <1>0, <1>2, HeadAndTail
        <5>2. i - 1 \in 1..Len(todo'[q]) /\ i = (i - 1) + 1
          BY <3>2, <4>2, <5>1
        <5>3. todo'[q][i - 1] = todo[q][i]
          BY <5>1, <5>2
        <5> QED BY <3>2, <5>2, <5>3
      <4> QED BY <4>1, <4>2
    <3>3. CASE m \in excused
      BY <1>b, <3>3
    <3> QED BY <1>0, <1>2, <3>1, <3>2, <3>3 DEF Copied
  <2> QED BY <1>2, <1>g, <2>1
<1>4. CASE LoadSession(q) /\ job[q].kind = "archive"
  <2> DEFINE es == Content(Name(q))
  <2>1. todo[q] # <<>>
    BY <1>0, <1>4 DEF LoadSession, JobShape
  <2>2. es \in Seq(Stored)
    BY <2>1, Actor DEF Content, DiskTypes
  <2>3. entries'[q] = es /\ todo'[q] = AfterLoad(q, es)
    BY <1>0, <1>4 DEF LoadSession, Continue, SessionTypes
  <2> HIDE DEF es
  <2>4. \A m \in Range(es) : \E i \in 1..Len(todo'[q]) :
            todo'[q][i].op = "append" /\ todo'[q][i].msg = m
    BY <1>0, <1>4, <2>2, <2>3, LoadedIsSound
  <2> QED BY <2>3, <2>4 DEF Copied
<1>5. CASE (CreateSession(q) \/ ReleaseWriteLock(q) \/ RenameTemp(q)) /\ job[q].kind = "archive"
  <2>1. /\ todo[q] # <<>> /\ Op(q) # "append" /\ entries' = entries
        /\ todo'[q] = Tail(todo[q])
    BY <1>0, <1>5 DEF CreateSession, ReleaseWriteLock, RenameTemp, Return, Continue, JobShape,
          SessionTypes
  <2> QED BY <1>2, <1>5, <2>1
<1>6. CASE WriteLine(q) /\ job[q].kind = "archive"
  <2>1. /\ todo[q] # <<>> /\ Op(q) = "append" /\ entries' = entries
        /\ todo'[q] = Tail(todo[q]) /\ file' = file
        /\ data' = [data EXCEPT ![fd[q]] = Append(data[fd[q]], Head(todo[q]).msg)]
    BY <1>0, <1>6 DEF WriteLine, Return, Continue, JobShape, SessionTypes
  <2>2. Name(q) = Archived(k) /\ Archived(k) \in Names /\ Head(todo[q]).msg \in Stored
    BY <1>0, <1>6, <2>1, Actor, NamesApart DEF Sound, Op, Name
  <2>3. fd[q] # 0 /\ fd[q] = file[Archived(k)] /\ fd[q] \in 1..Len(data)
    BY <1>0, <1>6, <2>1, <2>2 DEF OpenRight, WriteLine, DiskTypes
  <2>4. data'[fd[q]] = Append(data[fd[q]], Head(todo[q]).msg) /\ data[fd[q]] \in Seq(Stored)
    BY <2>1, <2>3 DEF DiskTypes
  <2>5. Head(todo[q]).msg \in Range(data'[fd[q]])
    BY <2>2, <2>4, Appended
  <2>6. Head(todo[q]).msg \in Range(Content(Archived(k))')
    BY <1>j, <2>1, <2>3, <2>5 DEF Content, Archived
  <2> QED BY <1>2, <1>6, <2>1, <2>6
<1>7. CASE GetWriteLock(q) \/ Acquire(q) \/ EnsureFile(q) \/ OpenFile(q) \/ OpenFails(q)
           \/ RemoveFile(q) \/ OpenTemp(q) \/ WriteTemp(q) \/ RenameFails(q)
  <2>1. todo' = todo /\ entries' = entries
    BY <1>7 DEF GetWriteLock, Acquire, EnsureFile, OpenFile, OpenFails, RemoveFile, OpenTemp,
          WriteTemp, RenameFails, Fail
  <2> QED BY <1>1, <1>3, <2>1
<1>8. ASSUME NEW p \in Procs \ {q}, Step(p) PROVE Copied(q)'
  BY <1>0, <1>1, <1>3, <1>8, OthersStay
<1>9. CASE Crash \/ UNCHANGED vars
  <2>1. todo' = todo /\ entries' = entries
    BY <1>9 DEF Crash, vars, procVars
  <2> QED BY <1>1, <1>3, <2>1
<1> QED BY <1>3, <1>4, <1>5, <1>6, <1>7, <1>8, <1>9 DEF Next, Step

-----------------------------------------------------------------------------
\* What is acknowledged.

\* Only the line that a job has just written makes its message acknowledged.
LEMMA AcknowledgedStep ==
    ASSUME JobsInv, DiskTypes, [Next]_vars, NEW k \in Keys, NEW m \in Acknowledged(k)'
    PROVE  \/ m \in Acknowledged(k)
           \/ /\ m \in Procs /\ WriteLine(m) /\ todo[m] # <<>>
              /\ Op(m) = "append" /\ Name(m) = k /\ Head(todo[m]).msg = m
<1>0. SessionTypes /\ \A p \in Procs : JobShape(p)
  BY DEF JobsInv
<1>j. job' = job
  BY DEF Next, Step, LoadSession, CreateSession, GetWriteLock, Acquire, EnsureFile, OpenFile,
        OpenFails, WriteLine, RemoveFile, ReleaseWriteLock, OpenTemp, WriteTemp, RenameTemp,
        RenameFails, Crash, vars
<1>1. CASE m \in Range(Old)
  BY <1>1 DEF Acknowledged, Appending
<1>2. CASE m \notin Range(Old)
  <2>1. m \in Procs /\ job[m].kind = "append" /\ job[m].key = k /\ pc'[m] = "done"
    BY <1>2, <1>j DEF Acknowledged, Appending
  <2>2. CASE pc[m] = "done"
    BY <2>1, <2>2 DEF Acknowledged, Appending, Started
  <2>3. CASE pc[m] # "done"
    <3>1. ~Crash /\ ~UNCHANGED vars
      BY <1>0, <2>1, <2>3 DEF Crash, vars, procVars, SessionTypes
    <3>2. PICK p \in Procs : Step(p)
      BY <3>1 DEF Next
    <3>3. p = m
      BY <1>0, <2>1, <2>3, <3>2, OthersStay
    <3>4. todo[m] # <<>>
      BY <1>0, <2>1, <2>3, <3>2, <3>3 DEF JobShape, Step, LoadSession, CreateSession,
            GetWriteLock, Acquire, EnsureFile, OpenFile, OpenFails, WriteLine, RemoveFile,
            ReleaseWriteLock, OpenTemp, WriteTemp, RenameTemp, RenameFails
    <3>5. Op(m) = "append" /\ Name(m) = k /\ Head(todo[m]).msg = m
      BY <2>1, <3>4, Actor DEF Sound, Op, Name
    <3>6. WriteLine(m)
      <4>1. ~LoadSession(m) /\ ~CreateSession(m) /\ ~ReleaseWriteLock(m) /\ ~RenameTemp(m)
        BY <1>0, <2>1, <3>5 DEF LoadSession, CreateSession, ReleaseWriteLock, RenameTemp,
              JobShape
      <4>2. ASSUME GetWriteLock(m) \/ Acquire(m) \/ EnsureFile(m) \/ OpenFile(m)
                   \/ OpenFails(m) \/ RemoveFile(m) \/ OpenTemp(m) \/ WriteTemp(m)
                   \/ RenameFails(m)
            PROVE  FALSE
        <5>1. pc'[m] \in {"locking", "locked", "ensured", "opened", "failed", "removed",
                          "written"}
          BY <1>0, <2>1, <4>2 DEF GetWriteLock, Acquire, EnsureFile, OpenFile, OpenFails,
                RemoveFile, OpenTemp, WriteTemp, RenameFails, Fail, SessionTypes
        <5> QED BY <2>1, <5>1
      <4> QED BY <3>2, <3>3, <4>1, <4>2 DEF Step
    <3> QED BY <2>1, <3>4, <3>5, <3>6
  <2> QED BY <2>2, <2>3
<1> QED BY <1>1, <1>2

\* An acknowledged message leaves its session with an excuse, or for the archive.
LEMMA DurableStep ==
    ASSUME JobsInv, DiskTypes, InodesApart, \A p \in Procs : OpenRight(p) /\ Copied(p),
           ~overlap, AcknowledgedIsDurable, [Next]_vars
    PROVE  AcknowledgedIsDurable'
<1> SUFFICES ASSUME NEW k \in Keys, NEW m \in Acknowledged(k)'
             PROVE  m \in excused' \/ m \in Range(Content(k)') \/ m \in Range(Content(Archived(k))')
  <2>1. \A l \in Keys : InSession(l)' = Range(Content(l)') \cup Range(Content(Archived(l))')
    BY DEF InSession, Range
  <2> QED BY <2>1 DEF AcknowledgedIsDurable
<1>1. /\ k \in Names /\ \A p \in Procs : JobShape(p)
      /\ file \in [Names -> 0..Len(data)] /\ temp \in [Names -> 0..Len(data)]
      /\ Len(data) \in Nat /\ data \in Seq(Seq(Stored))
  <2>1. k \in Names
    BY NamesApart
  <2>2. Len(data) \in Nat
    BY DEF DiskTypes
  <2> QED BY <2>1, <2>2 DEF DiskTypes, JobsInv
<1>2. CASE m \in Acknowledged(k)
  <2>1. m \in excused \/ m \in Range(Content(k)) \/ m \in Range(Content(Archived(k)))
    BY <1>2 DEF AcknowledgedIsDurable, InSession
  <2>2. CASE m \in excused
    BY <2>2, ExcusedStays
  <2>3. CASE m \in Range(Content(Archived(k)))
    BY <2>3, ArchiveStays
  <2>4. ASSUME m \in Range(Content(k)), NEW p \in Procs, RemoveFile(p), Name(p) = k
        PROVE  m \in excused' \/ m \in Range(Content(Archived(k))')
    <3>2. CASE ~(job[p].kind = "archive" /\ m \in Range(entries[p]))
      BY <2>4, <3>2 DEF RemoveFile
    <3>3. CASE job[p].kind = "archive" /\ m \in Range(entries[p])
      <4>1. todo[p] # <<>> /\ Op(p) = "delete"
        BY <1>1, <2>4 DEF RemoveFile, JobShape
      <4>2. /\ job[p].key = k /\ Len(todo[p]) = 1 /\ Head(todo[p]) = todo[p][1]
        BY <2>4, <4>1, Actor DEF Sound, Op, Name
      <4>3. \A i \in 1..Len(todo[p]) : todo[p][i].op # "append"
        BY <4>1, <4>2 DEF Op
      <4>4. m \in excused \/ m \in Range(Content(Archived(k)))
        BY <3>3, <4>2, <4>3 DEF Copied
      <4> QED BY <4>4, ArchiveStays, ExcusedStays
    <3> QED BY <3>2, <3>3
  <2>5. ASSUME m \in Range(Content(k)), NEW p \in Procs, RenameTemp(p), Name(p) = k
        PROVE  m \in excused' \/ m \in Range(Content(k)')
    BY <1>1, <2>5, ReplacedIsExcused
  <2>6. CASE m \in Range(Content(k))
    BY <1>1, <2>4, <2>5, <2>6, ContentStays
  <2> QED BY <2>1, <2>2, <2>3, <2>6
<1>3. CASE /\ m \in Procs /\ WriteLine(m) /\ todo[m] # <<>>
           /\ Op(m) = "append" /\ Name(m) = k /\ Head(todo[m]).msg = m
  <2>1. /\ fd[m] # 0 /\ fd[m] = file[k] /\ file' = file /\ m \in Stored
        /\ data' = [data EXCEPT ![fd[m]] = Append(data[fd[m]], m)]
    BY <1>3 DEF WriteLine, OpenRight, Stored
  <2>2. fd[m] \in 1..Len(data) /\ data[fd[m]] \in Seq(Stored)
    BY <1>1, <2>1
  <2>3. data'[fd[m]] = Append(data[fd[m]], m)
    BY <1>1, <2>1, <2>2
  <2>4. m \in Range(data'[fd[m]])
    BY <2>1, <2>2, <2>3, Appended
  <2> QED BY <2>1, <2>4 DEF Content
<1> QED BY <1>2, <1>3, AcknowledgedStep

\* At the start each session is what it was, and nothing is archived.
LEMMA DurableInit == Init => DurableInv
<1> SUFFICES ASSUME Init PROVE DurableInv
  OBVIOUS
<1>1. JobsInv /\ DiskTypes
  BY JobsInitInv, DiskInit
<1>2. InodesApart /\ Exclusive /\ \A p \in Procs : OpenRight(p)
  BY DEF Init, InodesApart, Exclusive, OpenRight, Inside
<1>3. \A p \in Procs : Copied(p)
  BY DEF Init, Copied, Range
<1>4. ASSUME NEW k \in Keys PROVE Content(k) = Old
  <2>1. PICK index \in Bijection(Keys, 1..Cardinality(Keys)) :
             file = [n \in Names |-> IF n \in Keys THEN index[n] ELSE 0]
    BY DEF Init
  <2>2. index \in [Keys -> 1..Cardinality(Keys)]
    BY DEF Bijection, Injection, Surjection
  <2>3. file[k] = index[k] /\ index[k] \in 1..Cardinality(Keys) /\ Cardinality(Keys) \in Nat
    BY <2>1, <2>2, NamesApart, KeysAssumption, FS_CardinalityType
  <2> QED BY <2>3 DEF Init, Content
<1>5. ASSUME NEW k \in Keys, NEW m \in Acknowledged(k) PROVE m \in InSession(k)
  <2>1. \A p \in Procs : pc[p] = "start"
    BY DEF Init
  <2>2. m \in Range(Old)
    BY <2>1 DEF Acknowledged, Appending, Started
  <2> QED BY <1>4, <2>2 DEF InSession
<1> QED BY <1>1, <1>2, <1>3, <1>5 DEF DurableInv, AcknowledgedIsDurable

\* As long as no two writers of a session were inside together, a message whose
\* append was acknowledged stays in its session or in its archive, whatever
\* else runs and however often the program dies, unless it was in a file that was
\* deleted, or pruned when it was too old for that or had come too late for the
\* load of the pruning or the archiving.
THEOREM AcknowledgedIsDurableHolds == Spec => []AcknowledgedIsDurable
<1>1. DurableInv /\ [Next]_vars => DurableInv'
  <2> SUFFICES ASSUME DurableInv, [Next]_vars PROVE DurableInv'
    OBVIOUS
  <2>1. JobsInv' /\ DiskTypes' /\ InodesApart'
    BY JobsStep, DiskStep, InodesStep DEF DurableInv
  <2>2. ASSUME ~overlap'
        PROVE  Exclusive' /\ (\A p \in Procs : OpenRight(p)' /\ Copied(p)') /\ AcknowledgedIsDurable'
    <3>1. /\ JobsInv /\ DiskTypes /\ InodesApart /\ ~overlap /\ Exclusive
          /\ AcknowledgedIsDurable /\ \A p \in Procs : OpenRight(p) /\ Copied(p)
      BY <2>2, OverlapStays DEF DurableInv, JobsInv
    <3>2. Exclusive'
      BY <2>2, <3>1, ExclusiveStep DEF JobsInv
    <3>3. \A p \in Procs : OpenRight(p)'
      BY <3>1, OpenStep
    <3>4. \A p \in Procs : Copied(p)'
      BY <3>1, CopiedStep
    <3>5. AcknowledgedIsDurable'
      BY <3>1, DurableStep
    <3> QED BY <3>2, <3>3, <3>4, <3>5
  <2> QED BY <2>1, <2>2 DEF DurableInv
<1>2. DurableInv => AcknowledgedIsDurable
  BY DEF DurableInv, AcknowledgedIsDurable
<1> QED BY <1>1, <1>2, DurableInit, PTL DEF Spec
=============================================================================

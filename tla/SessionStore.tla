---------------------------- MODULE SessionStore ----------------------------
(***************************************************************************)
(* Conversation histories on disk, pkg/session (manager.go, archiver.go,   *)
(* cleanup.go): one JSONL file per session, a map of one mutex per session *)
(* for the writers, and two background jobs, the archiver and the cleanup, *)
(* that read a session without its mutex and write or delete it later.     *)
(*                                                                         *)
(* Each process runs one job, a sequence of the manager's operations.      *)
(* Files are inodes under names, as an open file outlives its name: an     *)
(* append to a file that was deleted or replaced in between succeeds and   *)
(* is never seen again.  A message is one of Old or is named by the process  *)
(* that appends it.  Key validation, JSON, metrics and tracing are left out, and disk   *)
(* errors other than a missing file.                                       *)
(***************************************************************************)
EXTENDS Naturals, Sequences, FiniteSets, Functions

CONSTANTS
    Keys,        \* session keys, none of them archived
    Procs,       \* goroutines that use the manager, one job each
    Old,         \* the messages in each session at the start, in order
    MaxEntries,  \* Cleanup.maxEntries, above which a session is pruned
    MaxCrashes   \* bound: crashes of the program

ASSUME OldAssumption ==
    Old \in Seq(Range(Old)) /\ IsInjective(Old) /\ Range(Old) \cap Procs = {}
ASSUME BoundsAssumption ==
    MaxEntries \in Nat \ {0} /\ MaxCrashes \in Nat

VARIABLES
    job,        \* what each process is there to do, chosen initially
    pc,         \* where it is in its current operation
    todo,       \* the operations of its job that are left, current one first
    entries,    \* what its LoadSession returned
    lock,       \* the mutex getWriteLock gave it, 0 if none
    fd,         \* the inode it has open, 0 if none
    writeLocks, \* the map of mutexes: session name to mutex, 0 if absent
    holder,     \* per mutex ever made, the processes that hold it
    file,       \* the inode of each session file, 0 if absent
    temp,       \* the inode of each session's .tmp file, 0 if absent
    data,       \* contents of the inodes
    crashes,
    overlap,    \* history: two writers of one session were inside together
    excused     \* history: messages an overlapping job may have dropped

procVars == <<pc, todo, entries, lock, fd>>
lockVars == <<writeLocks, holder>>
diskVars == <<file, temp, data>>
histVars == <<overlap, excused>>
vars == <<job, procVars, lockVars, diskVars, crashes, histVars>>

-----------------------------------------------------------------------------
Kinds == {"append", "delete", "prune", "archive"}
Archived(k) == <<"archived", k>>
ASSUME KeysAssumption == IsFiniteSet(Keys) /\ \A k \in Keys : Archived(k) \notin Keys
Names == Keys \cup {Archived(k) : k \in Keys}

\* The cleanup prunes archived sessions too, and deletes the old ones.
Jobs == [kind : {"append", "archive"}, key : Keys] \cup [kind : {"delete", "prune"}, key : Names]

Operation(op, name, msg) == [op |-> op, name |-> name, msg |-> msg]
Op(p) == Head(todo[p]).op
Name(p) == Head(todo[p]).name
Content(n) == IF file[n] = 0 THEN <<>> ELSE data[file[n]]

\* Inside the section that a session's mutex guards.
Inside == {"locked", "ensured", "opened", "written", "removed"}
Started(p) == pc[p] # "start"

\* The messages of a session whose append began, and those it acknowledged.
Appending(k) == Range(Old) \cup
    {p \in Procs : job[p].kind = "append" /\ job[p].key = k /\ Started(p)}
Acknowledged(k) == {m \in Appending(k) : m \in Range(Old) \/ pc[m] = "done"}

\* The first operation of each job: the background jobs load first.
FirstOperation(p) ==
    CASE job[p].kind = "append" -> Operation("append", job[p].key, p)
      [] job[p].kind = "delete" -> Operation("delete", job[p].key, p)
      [] OTHER -> Operation("load", job[p].key, p)

Init ==
    /\ job \in [Procs -> Jobs]
    /\ pc = [p \in Procs |-> "start"]
    /\ todo = [p \in Procs |-> <<FirstOperation(p)>>]
    /\ entries = [p \in Procs |-> <<>>]
    /\ lock = [p \in Procs |-> 0]
    /\ fd = [p \in Procs |-> 0]
    /\ writeLocks = [n \in Names |-> 0]
    /\ holder = <<>>
    /\ \E index \in Bijection(Keys, 1..Cardinality(Keys)) :
           file = [n \in Names |-> IF n \in Keys THEN index[n] ELSE 0]
    /\ temp = [n \in Names |-> 0]
    /\ data = [i \in 1..Cardinality(Keys) |-> Old]
    /\ crashes = 0
    /\ overlap = FALSE
    /\ excused = {}

-----------------------------------------------------------------------------
\* LoadSession, and what its caller does with the entries.

\* pruneSession keeps the last MaxEntries of what it loaded.
Kept(es) == SubSeq(es, Len(es) - MaxEntries + 1, Len(es))

\* Variant: the original is deleted before it is copied.
AfterLoadDeletesFirst(p, es) ==
    LET k == job[p].key
    IN  IF job[p].kind = "prune"
        THEN IF Len(es) <= MaxEntries THEN <<>>
             ELSE <<Operation("replace", k, p)>>
        ELSE <<Operation("delete", k, p), Operation("create", Archived(k), p)>>
             \o [i \in 1..Len(es) |-> Operation("append", Archived(k), es[i])]

\* pruneSession does nothing for a short session; archiveSession copies the
\* entries one by one to the archived session and then deletes the original.
AfterLoad(p, es) ==
    LET k == job[p].key
    IN  IF job[p].kind = "prune"
        THEN IF Len(es) <= MaxEntries THEN <<>>
             ELSE <<Operation("replace", k, p)>>
        ELSE <<Operation("create", Archived(k), p)>>
             \o [i \in 1..Len(es) |-> Operation("append", Archived(k), es[i])]
             \o <<Operation("delete", k, p)>>

\* The process goes on with operations ops, or ends its job.
Continue(p, ops) ==
    /\ todo' = [todo EXCEPT ![p] = ops]
    /\ pc' = [pc EXCEPT ![p] = IF ops = <<>> THEN "done" ELSE "next"]

LoadSession(p) ==
    /\ pc[p] \in {"start", "next"} /\ Op(p) = "load"
    /\ entries' = [entries EXCEPT ![p] = Content(Name(p))]
    /\ Continue(p, AfterLoad(p, Content(Name(p))))
    /\ UNCHANGED <<job, lock, fd, lockVars, diskVars, crashes, histVars>>

\* A new, empty file under a name.
NewFile(n) ==
    /\ data' = Append(data, <<>>)
    /\ file' = [file EXCEPT ![n] = Len(data) + 1]

\* CreateSession: os.Stat, then os.OpenFile without O_TRUNC, under no mutex.
CreateSession(p) ==
    /\ pc[p] = "next" /\ Op(p) = "create"
    /\ IF file[Name(p)] = 0 THEN NewFile(Name(p)) ELSE UNCHANGED <<data, file>>
    /\ Continue(p, Tail(todo[p]))
    /\ UNCHANGED <<job, entries, lock, fd, lockVars, temp, crashes, histVars>>

-----------------------------------------------------------------------------
\* The writers' mutex.

\* Variant: a mutex of its own for each caller.
GetWriteLockFresh(p) ==
    /\ pc[p] \in {"start", "next"} /\ Op(p) \in {"append", "delete", "replace"}
    /\ holder' = Append(holder, {})
    /\ writeLocks' = [writeLocks EXCEPT ![Name(p)] = Len(holder) + 1]
    /\ lock' = [lock EXCEPT ![p] = Len(holder) + 1]
    /\ pc' = [pc EXCEPT ![p] = "locking"]
    /\ UNCHANGED <<job, todo, entries, fd, diskVars, crashes, histVars>>

\* getWriteLock: the mutex of the session, made if the map has none.
GetWriteLock(p) ==
    /\ pc[p] \in {"start", "next"} /\ Op(p) \in {"append", "delete", "replace"}
    /\ LET n == Name(p)
       IN  IF writeLocks[n] # 0
           THEN /\ lock' = [lock EXCEPT ![p] = writeLocks[n]]
                /\ UNCHANGED lockVars
           ELSE /\ holder' = Append(holder, {})
                /\ writeLocks' = [writeLocks EXCEPT ![n] = Len(holder) + 1]
                /\ lock' = [lock EXCEPT ![p] = Len(holder) + 1]
    /\ pc' = [pc EXCEPT ![p] = "locking"]
    /\ UNCHANGED <<job, todo, entries, fd, diskVars, crashes, histVars>>

\* lock.Lock()
Acquire(p) ==
    /\ pc[p] = "locking"
    /\ holder[lock[p]] = {}
    /\ holder' = [holder EXCEPT ![lock[p]] = {p}]
    /\ pc' = [pc EXCEPT ![p] = "locked"]
    /\ overlap' = (overlap \/ \E q \in Procs \ {p} :
                                pc[q] \in Inside /\ Name(q) = Name(p))
    /\ UNCHANGED <<job, todo, entries, lock, fd, writeLocks, diskVars, crashes,
                   excused>>

\* The deferred lock.Unlock() and return of an operation.
Return(p, ops) ==
    /\ holder' = [holder EXCEPT ![lock[p]] = {}]
    /\ lock' = [lock EXCEPT ![p] = 0]
    /\ fd' = [fd EXCEPT ![p] = 0]
    /\ Continue(p, ops)

\* An operation fails and its job with it.
Fail(p) ==
    /\ holder' = [holder EXCEPT ![lock[p]] = {}]
    /\ lock' = [lock EXCEPT ![p] = 0]
    /\ fd' = [fd EXCEPT ![p] = 0]
    /\ pc' = [pc EXCEPT ![p] = "failed"]
    /\ UNCHANGED todo

-----------------------------------------------------------------------------
\* AppendMessage inside the mutex.

\* The session file is created if os.Stat does not find it.
EnsureFile(p) ==
    /\ pc[p] = "locked" /\ Op(p) = "append"
    /\ IF file[Name(p)] = 0 THEN NewFile(Name(p)) ELSE UNCHANGED <<data, file>>
    /\ pc' = [pc EXCEPT ![p] = "ensured"]
    /\ UNCHANGED <<job, todo, entries, lock, fd, lockVars, temp, crashes, histVars>>

\* os.OpenFile with O_APPEND.
OpenFile(p) ==
    /\ pc[p] = "ensured" /\ file[Name(p)] # 0
    /\ fd' = [fd EXCEPT ![p] = file[Name(p)]]
    /\ pc' = [pc EXCEPT ![p] = "opened"]
    /\ UNCHANGED <<job, todo, entries, lock, lockVars, diskVars, crashes, histVars>>

\* Another writer deleted the file between os.Stat and os.OpenFile.
OpenFails(p) ==
    /\ pc[p] = "ensured" /\ file[Name(p)] = 0
    /\ Fail(p)
    /\ UNCHANGED <<job, entries, writeLocks, diskVars, crashes, histVars>>

\* One line goes to the end of the open file, wherever its name is by now.
WriteLine(p) ==
    /\ pc[p] = "opened" /\ Op(p) = "append"
    /\ data' = [data EXCEPT ![fd[p]] = Append(@, Head(todo[p]).msg)]
    /\ Return(p, Tail(todo[p]))
    /\ UNCHANGED <<job, entries, writeLocks, file, temp, crashes, histVars>>

-----------------------------------------------------------------------------
\* DeleteSession inside the mutex.

\* os.Remove.  The messages that the file has go with it, but for an archiver,
\* which has copies of those it loaded.
RemoveFile(p) ==
    /\ pc[p] = "locked" /\ Op(p) = "delete"
    /\ file' = [file EXCEPT ![Name(p)] = 0]
    /\ pc' = [pc EXCEPT ![p] = "removed"]
    /\ excused' = excused \cup
           {m \in Range(Content(Name(p))) :
               ~(job[p].kind = "archive" /\ m \in Range(entries[p]))}
    /\ UNCHANGED <<job, todo, entries, lock, fd, lockVars, temp, data, crashes,
                   overlap>>

\* releaseWriteLock: the map forgets the mutex, which is still held and may
\* have processes waiting for it.
ReleaseWriteLock(p) ==
    /\ pc[p] = "removed"
    /\ writeLocks' = [writeLocks EXCEPT ![Name(p)] = 0]
    /\ Return(p, Tail(todo[p]))
    /\ UNCHANGED <<job, entries, diskVars, crashes, histVars>>

-----------------------------------------------------------------------------
\* ReplaceSession inside the mutex (RepairSession rewrites the same way).

\* The .tmp file is opened with O_TRUNC, whoever left or has it there.
OpenTemp(p) ==
    /\ pc[p] = "locked" /\ Op(p) = "replace"
    /\ IF temp[Name(p)] = 0
       THEN /\ data' = Append(data, <<>>)
            /\ temp' = [temp EXCEPT ![Name(p)] = Len(data) + 1]
            /\ fd' = [fd EXCEPT ![p] = Len(data) + 1]
       ELSE /\ data' = [data EXCEPT ![temp[Name(p)]] = <<>>]
            /\ fd' = [fd EXCEPT ![p] = temp[Name(p)]]
            /\ UNCHANGED temp
    /\ pc' = [pc EXCEPT ![p] = "opened"]
    /\ UNCHANGED <<job, todo, entries, lock, lockVars, file, crashes, histVars>>

\* Everything is written from the start of the file, and synced.
WriteTemp(p) ==
    /\ pc[p] = "opened" /\ Op(p) = "replace"
    /\ LET new == Kept(entries[p])
           old == data[fd[p]]
       IN  data' = [data EXCEPT ![fd[p]] =
                        new \o SubSeq(old, Len(new) + 1, Len(old))]
    /\ pc' = [pc EXCEPT ![p] = "written"]
    /\ UNCHANGED <<job, todo, entries, lock, fd, lockVars, file, temp, crashes,
                   histVars>>

\* os.Rename.  What is not kept is gone from the session.
RenameTemp(p) ==
    /\ pc[p] = "written" /\ temp[Name(p)] # 0
    /\ file' = [file EXCEPT ![Name(p)] = temp[Name(p)]]
    /\ temp' = [temp EXCEPT ![Name(p)] = 0]
    /\ excused' = excused \cup (Range(Content(Name(p))) \ Range(Kept(entries[p])))
    /\ Return(p, Tail(todo[p]))
    /\ UNCHANGED <<job, entries, writeLocks, data, crashes, overlap>>

RenameFails(p) ==
    /\ pc[p] = "written" /\ temp[Name(p)] = 0
    /\ Fail(p)
    /\ UNCHANGED <<job, entries, writeLocks, diskVars, crashes, histVars>>

-----------------------------------------------------------------------------
\* The program dies and is started again: files stay, mutexes and open files
\* do not, and jobs under way are not resumed.
Crash ==
    /\ crashes < MaxCrashes
    /\ crashes' = crashes + 1
    /\ pc' = [p \in Procs |-> IF pc[p] \in {"start", "done", "failed"}
                              THEN pc[p] ELSE "failed"]
    /\ lock' = [p \in Procs |-> 0]
    /\ fd' = [p \in Procs |-> 0]
    /\ writeLocks' = [n \in Names |-> 0]
    /\ holder' = <<>>
    /\ UNCHANGED <<job, todo, entries, diskVars, histVars>>

Step(p) ==
    \/ LoadSession(p)
    \/ CreateSession(p)
    \/ GetWriteLock(p)
    \/ Acquire(p)
    \/ EnsureFile(p)
    \/ OpenFile(p)
    \/ OpenFails(p)
    \/ WriteLine(p)
    \/ RemoveFile(p)
    \/ ReleaseWriteLock(p)
    \/ OpenTemp(p)
    \/ WriteTemp(p)
    \/ RenameTemp(p)
    \/ RenameFails(p)

Next == Crash \/ \E p \in Procs : Step(p)

Spec == Init /\ [][Next]_vars

FairSpec == Spec /\ \A p \in Procs : WF_vars(Started(p) /\ Step(p))

-----------------------------------------------------------------------------
\* Properties.

TypeOK ==
    /\ pc \in [Procs -> Inside \cup {"start", "next", "locking", "done", "failed"}]
    /\ \A p \in Procs : todo[p] = <<>> \/ Name(p) \in Names
    /\ lock \in [Procs -> 0..Len(holder)]
    /\ writeLocks \in [Names -> 0..Len(holder)]
    /\ holder \in Seq(SUBSET Procs)
    /\ fd \in [Procs -> 0..Len(data)]
    /\ file \in [Names -> 0..Len(data)]
    /\ temp \in [Names -> 0..Len(data)]
    /\ data \in Seq(Seq(Procs \cup Range(Old)))

InSession(k) == Range(Content(k)) \cup Range(Content(Archived(k)))

\* As long as writers are serialized, an acknowledged message stays in its
\* session or in its archive, through crashes, prunings and archivings, unless
\* it was in a file that was deleted, or pruned when it was too old for that or had
\* come too late for the load of the pruning or the archiving.
AcknowledgedIsDurable ==
    ~overlap => \A k \in Keys : Acknowledged(k) \subseteq excused \cup InSession(k)

\* Writers of one session exclude each other until the session is deleted, by
\* a delete or by an archiver: only a deletion breaks their mutual exclusion.
OnlyDeletionSplitsWriters ==
    overlap => \E p \in Procs : job[p].kind \in {"delete", "archive"} /\ Started(p)

\* No job is stuck in the manager: each one that begins ends.
JobsAtWork == \E p \in Procs : Started(p) /\ pc[p] \notin {"done", "failed"}
JobsEnd == JobsAtWork ~> ~JobsAtWork

\* The package's invariant "Writes for the same session are serialized."
WritesSerialized == ~overlap
=============================================================================

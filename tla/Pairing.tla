------------------------------ MODULE Pairing ------------------------------
(***************************************************************************)
(* Who may use a channel, pkg/pairing/manager.go: a peer that is not       *)
(* allowed gets a code, and whoever approves the code allows the peer.     *)
(* The pending requests and the allowlist are two files, and every process *)
(* has a manager of its own on them: the daemon, and each call of          *)
(* "ranya pairing" (internal/cli/pairing.go).  A manager's mutex excludes  *)
(* its own calls only; it reads a file again if the file's time is later   *)
(* than the time it noted, which after a write of its own is now.          *)
(*                                                                         *)
(* A peer's code stands for the peer; times are the number of writes.      *)
(***************************************************************************)
EXTENDS Naturals, FiniteSets

CONSTANTS
    Managers,       \* processes with a manager
    Peers,
    MaxPending,     \* ManagerOptions.MaxPending
    MaxCalls,       \* bound: calls of the managers
    MaxWriteErrors       \* bound: files that cannot be written

VARIABLES
    file,       \* "pending" and "allowlist": sets of peers
    time,       \* when each was written
    mem, noted, \* per manager, its copies, and the times it noted
    call,       \* per manager the last call, [op, peer], or NoCall
    at,         \* where it is: "idle", "sweep", "decide", what it writes, what it notes
    expired,    \* peers whose last request is too old
    calls, writeErrors,
    ideal,      \* history: the files of calls that exclude one another
    disturbed   \* history: a write failed, or calls did overlap, other than
                \* those of Look and NewProcess that wrote nothing

PairingFiles == {"pending", "allowlist"}
NoCall == [op |-> "none", peer |-> "none"]

pairingVars == <<file, time, mem, noted, call, at, expired, calls, writeErrors,
                 ideal, disturbed>>

PairingInit ==
    /\ file = [f \in PairingFiles |-> {}] /\ time = [f \in PairingFiles |-> 0]
    /\ mem = [m \in Managers |-> [f \in PairingFiles |-> {}]]
    /\ noted = [m \in Managers |-> [f \in PairingFiles |-> 0]]
    /\ call = [m \in Managers |-> NoCall] /\ at = [m \in Managers |-> "idle"]
    /\ expired = {} /\ calls = 0 /\ writeErrors = 0
    /\ ideal = [f \in PairingFiles |-> {}] /\ disturbed = FALSE

\* What a call makes of the files f that it sees, a record of both.
EnsurePending(f, p) ==
    IF p \in f["allowlist"] \cup f["pending"] \/ Cardinality(f["pending"]) >= MaxPending
    THEN f ELSE [f EXCEPT !["pending"] = @ \cup {p}]

Resolve(f, p, approve) ==
    IF p \notin f["pending"] THEN f
    ELSE [pending |-> f["pending"] \ {p},
          allowlist |-> IF approve THEN f["allowlist"] \cup {p} ELSE f["allowlist"]]

Outcome(f, op, p) ==
    CASE op = "ask" -> EnsurePending(f, p)
      [] op = "approve" -> Resolve(f, p, TRUE)
      [] op = "reject" -> Resolve(f, p, FALSE)
      [] OTHER -> f

-----------------------------------------------------------------------------
\* Those of EnsurePending, Approve, Reject and ListPending ("check") go on when the
\* files are read; IsAllowed, ListAllowlist and a new process do no more.
Deciding == {"ask", "approve", "reject", "check"}
Loaded(op) == IF op \in Deciding THEN "sweep" ELSE "idle"

\* The mutex is taken, and what is newer than the time noted is read, or, anew, all.
\* loadPending drops the requests that are too old and saves the others, but notes
\* the time that the file had before.  One moment stands for the two at which the
\* files are read: what comes after the time that is noted is read again.
Read(m, c, anew) ==
    LET newer == {f \in PairingFiles : anew \/ time[f] > noted[m][f]}
        copy == [f \in PairingFiles |-> IF f \in newer THEN file[f] ELSE mem[m][f]]
        old == IF "pending" \in newer THEN copy["pending"] \cap expired ELSE {}
    IN  /\ at[m] = "idle" /\ call' = [call EXCEPT ![m] = c]
        /\ mem' = [mem EXCEPT ![m] = [copy EXCEPT !["pending"] = @ \ old]]
        /\ noted' = [noted EXCEPT ![m] =
                         [f \in PairingFiles |-> IF f \in newer THEN time[f] ELSE @[f]]]
        /\ at' = [at EXCEPT ![m] = IF old # {} THEN "reload" ELSE Loaded(c.op)]
        /\ ideal' = [ideal EXCEPT !["pending"] = @ \ old]
        /\ disturbed' = (disturbed \/ /\ c.op \in Deciding \/ old # {}
                                      /\ \E o \in Managers : at[o] # "idle")
        /\ UNCHANGED <<file, time, expired, writeErrors>>

BeginCall(m, op, p) ==
    /\ calls < MaxCalls /\ calls' = calls + 1
    /\ Read(m, [op |-> op, peer |-> p], FALSE)

Look(m) == Read(m, NoCall, FALSE) /\ UNCHANGED calls

\* A process ends, and the next one loads.
NewProcess(m) == Read(m, NoCall, TRUE) /\ UNCHANGED calls

\* cleanupExpiredLocked.
Sweep(m) ==
    /\ at[m] = "sweep"
    /\ mem' = [mem EXCEPT ![m]["pending"] = @ \ expired]
    /\ ideal' = [ideal EXCEPT !["pending"] = @ \ expired]
    /\ at' = [at EXCEPT ![m] = IF mem' = mem THEN "decide" ELSE "swept"]
    /\ UNCHANGED <<file, time, noted, call, expired, calls, writeErrors, disturbed>>

\* The manager's copies are changed, and then the files, the allowlist first.
Decide(m) ==
    /\ at[m] = "decide"
    /\ LET op == call[m].op
           after == Outcome(mem[m], op, call[m].peer)
       IN  /\ mem' = [mem EXCEPT ![m] = after]
           /\ ideal' = Outcome(ideal, op, call[m].peer)
           /\ expired' = expired \ (after["pending"] \ mem[m]["pending"])
           /\ at' = [at EXCEPT ![m] = IF after = mem[m] THEN "idle"
                                      ELSE IF op = "approve" THEN "allowlist" ELSE "pending"]
    /\ UNCHANGED <<file, time, noted, call, calls, writeErrors, disturbed>>

\* What is written, and what comes next; a cleanup that cannot be saved is let be.
Writing == {"reload", "swept", "allowlist", "pending"}
FileAt(m) == IF at[m] \in {"allowlist", "note allowlist"} THEN "allowlist" ELSE "pending"
AfterWrite(m) ==
    CASE at[m] = "reload" -> Loaded(call[m].op)
      [] at[m] = "swept" -> "note swept"
      [] at[m] = "allowlist" -> "note allowlist"
      [] OTHER -> "note pending"
AfterFailure(m) ==
    CASE at[m] = "reload" -> Loaded(call[m].op)
      [] at[m] = "swept" -> "decide"
      [] OTHER -> "idle"
AfterNote(m) ==
    CASE at[m] = "note swept" -> "decide"
      [] at[m] = "note allowlist" -> "pending"
      [] OTHER -> "idle"

\* Variant: the file is written without a note of it, and only half the call.
WriteFileOnce(m) ==
    /\ at[m] \in Writing /\ at' = [at EXCEPT ![m] = "idle"]
    /\ file' = [file EXCEPT ![FileAt(m)] = mem[m][FileAt(m)]]
    /\ time' = [time EXCEPT ![FileAt(m)] = @ + 1]
    /\ UNCHANGED <<mem, noted, call, expired, calls, writeErrors, ideal, disturbed>>

\* writeJSONFile: under another name first, then renamed.
WriteFile(m) ==
    /\ at[m] \in Writing /\ at' = [at EXCEPT ![m] = AfterWrite(m)]
    /\ file' = [file EXCEPT ![FileAt(m)] = mem[m][FileAt(m)]]
    /\ time' = [time EXCEPT ![FileAt(m)] = @ + 1]
    /\ UNCHANGED <<mem, noted, call, expired, calls, writeErrors, ideal, disturbed>>

\* The manager's copies are changed already.
WriteFails(m) ==
    /\ at[m] \in Writing /\ at' = [at EXCEPT ![m] = AfterFailure(m)]
    /\ writeErrors < MaxWriteErrors /\ writeErrors' = writeErrors + 1
    /\ disturbed' = TRUE
    /\ UNCHANGED <<file, time, mem, noted, call, expired, calls, ideal>>

\* m.now() is noted as the time of the file.
NoteTime(m) ==
    /\ at[m] \in {"note swept", "note allowlist", "note pending"}
    /\ at' = [at EXCEPT ![m] = AfterNote(m)]
    /\ noted' = [noted EXCEPT ![m][FileAt(m)] = time[FileAt(m)]]
    /\ UNCHANGED <<file, time, mem, call, expired, calls, writeErrors, ideal, disturbed>>

RequestExpires(p) ==
    /\ p \in ideal["pending"] \ expired /\ expired' = expired \cup {p}
    /\ UNCHANGED <<file, time, mem, noted, call, at, calls, writeErrors, ideal, disturbed>>

PairingNext ==
    \/ \E m \in Managers : \/ \E op \in Deciding, p \in Peers : BeginCall(m, op, p)
                           \/ Look(m) \/ NewProcess(m) \/ Sweep(m) \/ Decide(m)
                           \/ WriteFile(m) \/ WriteFails(m) \/ NoteTime(m)
    \/ \E p \in Peers : RequestExpires(p)

PairingSpec == PairingInit /\ [][PairingNext]_pairingVars

-----------------------------------------------------------------------------
\* As long as no two calls that change or list requests overlap, and no write
\* fails, the managers together are one, however often and whenever they are
\* asked who is allowed: once all are at rest, the files hold what the calls,
\* one after the other, come to, and each has that in its copies or reads it again.
SerialCallsAgree ==
    ~disturbed /\ (\A m \in Managers : at[m] = "idle") =>
        /\ file = ideal
        /\ \A m \in Managers, f \in PairingFiles : mem[m][f] = file[f] \/ time[f] > noted[m][f]
=============================================================================

-------------------------- MODULE ResourcesProofs --------------------------
(***************************************************************************)
(* Safety of the pairing managers, the cron service, the browser's         *)
(* contexts and the workspace, for every set of managers, peers, jobs,     *)
(* schedules, profiles and files, and every number of calls, faults and    *)
(* restarts; and that the composition of the four is all four.             *)
(***************************************************************************)
EXTENDS MCResources, TLAPS

-----------------------------------------------------------------------------
(***************************************************************************)
(* Pairing.  While no two calls that write overlap, a manager at rest has  *)
(* what the files have, or will read them again, and the one at work has   *)
(* in its copies what the calls come to: the files follow, the allowlist   *)
(* first.                                                                  *)
(***************************************************************************)
Places == {"idle", "reload", "sweep", "swept", "note swept", "decide", "allowlist",
           "note allowlist", "pending", "note pending"}
Calls == [op : Deciding, peer : Peers] \cup {NoCall}

PairingTypes ==
    /\ file \in [PairingFiles -> SUBSET Peers] /\ time \in [PairingFiles -> Nat]
    /\ mem \in [Managers -> [PairingFiles -> SUBSET Peers]]
    /\ noted \in [Managers -> [PairingFiles -> Nat]]
    /\ call \in [Managers -> Calls] /\ at \in [Managers -> Places]
    /\ ideal \in [PairingFiles -> SUBSET Peers]
    /\ disturbed \in BOOLEAN

AtWork(m) == at[m] # "idle"

\* A manager reads a file that others have changed.
FollowsFiles(m) == \A f \in PairingFiles : mem[m][f] = file[f] \/ time[f] > noted[m][f]

\* What a call has written already.
HasWritten(m) ==
    /\ mem[m] = ideal
    /\ at[m] # "allowlist" => file["allowlist"] = ideal["allowlist"]
    /\ at[m] \notin Writing \cup {"note allowlist"} => file["pending"] = ideal["pending"]

\* The managers are one.
Undisturbed ==
    /\ \A m, n \in Managers : AtWork(m) /\ AtWork(n) => m = n
    /\ \A m \in Managers : IF AtWork(m) THEN HasWritten(m) ELSE FollowsFiles(m)
    /\ (\A m \in Managers : ~AtWork(m)) => file = ideal

PairingInv ==
    /\ PairingTypes
    /\ \A m \in Managers, f \in PairingFiles : noted[m][f] <= time[f]
    /\ ~disturbed => Undisturbed

\* At the start there are no peers.
LEMMA PairingInitInv == PairingInit => PairingInv
<1> SUFFICES ASSUME PairingInit PROVE PairingInv
  OBVIOUS
<1>1. PairingTypes
  BY DEF PairingInit, PairingTypes, Places, Calls
<1>2. \A m \in Managers : ~AtWork(m) /\ FollowsFiles(m)
  BY DEF PairingInit, AtWork, FollowsFiles
<1>3. /\ \A m \in Managers, f \in PairingFiles : noted[m][f] <= time[f]
      /\ file = ideal
  BY DEF PairingInit
<1> QED BY <1>1, <1>2, <1>3 DEF PairingInv, Undisturbed

\* What a call makes of the files are files.
LEMMA OutcomeType ==
    ASSUME NEW f \in [PairingFiles -> SUBSET Peers], NEW c \in Calls
    PROVE  Outcome(f, c.op, c.peer) \in [PairingFiles -> SUBSET Peers]
<1>1. CASE c = NoCall
  BY <1>1 DEF Outcome, NoCall
<1>2. CASE c \in [op : Deciding, peer : Peers]
  <2>1. PICK p \in Peers : p = c.peer
    BY <1>2
  <2>2. [f EXCEPT !["pending"] = @ \cup {p}] \in [PairingFiles -> SUBSET Peers]
    BY DEF PairingFiles
  <2>3. ASSUME NEW approve \in BOOLEAN
        PROVE  Resolve(f, p, approve) \in [PairingFiles -> SUBSET Peers]
    <3>1. f["pending"] \subseteq Peers /\ f["allowlist"] \subseteq Peers
      BY DEF PairingFiles
    <3>2. ASSUME NEW a \in SUBSET Peers, NEW b \in SUBSET Peers
          PROVE  [pending |-> a, allowlist |-> b] \in [PairingFiles -> SUBSET Peers]
      BY DEF PairingFiles
    <3> QED BY <3>1, <3>2 DEF Resolve
  <2> QED BY <2>1, <2>2, <2>3 DEF Outcome, EnsurePending
<1> QED BY <1>1, <1>2 DEF Calls

\* A decision changes the pending requests if it changes anything, and the
\* allowlist if it approves.
LEMMA OutcomeChanges ==
    ASSUME NEW f \in [PairingFiles -> SUBSET Peers], NEW op, NEW p, op # "approve"
    PROVE  Outcome(f, op, p)["allowlist"] = f["allowlist"]
BY DEF Outcome, EnsurePending, Resolve, PairingFiles

\* A manager reads the files: for a call that others are at rest for, or, without
\* a need to write, wherever a call of another manager stands.
LEMMA ReadStep ==
    ASSUME PairingInv, NEW m \in Managers, NEW c \in Calls, NEW anew \in BOOLEAN,
           Read(m, c, anew)
    PROVE  PairingInv'
<1> DEFINE newer == {f \in PairingFiles : anew \/ time[f] > noted[m][f]}
           copy == [f \in PairingFiles |-> IF f \in newer THEN file[f] ELSE mem[m][f]]
           old == IF "pending" \in newer THEN copy["pending"] \cap expired ELSE {}
           kept == [copy EXCEPT !["pending"] = @ \ old]
           times == [f \in PairingFiles |-> IF f \in newer THEN time[f] ELSE noted[m][f]]
<1>0. PairingTypes /\ \A n \in Managers, f \in PairingFiles : noted[n][f] <= time[f]
  BY DEF PairingInv
<1>1. copy \in [PairingFiles -> SUBSET Peers]
  BY <1>0 DEF PairingTypes
<1>2. kept \in [PairingFiles -> SUBSET Peers] /\ kept["allowlist"] = copy["allowlist"]
      /\ (old = {} => kept = copy)
  BY <1>1 DEF PairingFiles
<1>3. [ideal EXCEPT !["pending"] = @ \ old] \in [PairingFiles -> SUBSET Peers]
      /\ (old = {} => [ideal EXCEPT !["pending"] = @ \ old] = ideal)
  BY <1>0 DEF PairingTypes, PairingFiles
<1>4. times \in [PairingFiles -> Nat] /\ \A f \in PairingFiles : times[f] <= time[f]
  BY <1>0 DEF PairingTypes
<1>5. /\ at[m] = "idle" /\ call' = [call EXCEPT ![m] = c]
      /\ mem' = [mem EXCEPT ![m] = kept]
      /\ noted' = [noted EXCEPT ![m] = times]
      /\ at' = [at EXCEPT ![m] = IF old # {} THEN "reload" ELSE Loaded(c.op)]
      /\ ideal' = [ideal EXCEPT !["pending"] = @ \ old]
      /\ disturbed' = (disturbed \/ /\ c.op \in Deciding \/ old # {}
                                    /\ \E o \in Managers : at[o] # "idle")
      /\ UNCHANGED <<file, time>>
  BY <1>0 DEF Read, PairingTypes
<1>6. ASSUME ~disturbed PROVE copy = file
  <2>1. FollowsFiles(m)
    BY <1>5, <1>6 DEF PairingInv, Undisturbed, AtWork
  <2>2. \A f \in PairingFiles : copy[f] = file[f]
    BY <1>0, <2>1 DEF FollowsFiles
  <2> QED BY <1>0, <1>1, <2>2 DEF PairingTypes
<1> HIDE DEF newer, copy, old, kept, times
<1>7. PairingTypes' /\ \A n \in Managers, f \in PairingFiles : noted'[n][f] <= time'[f]
  <2>1. at' \in [Managers -> Places] /\ call' \in [Managers -> Calls]
    BY <1>0, <1>5 DEF PairingTypes, Places, Loaded
  <2>2. mem' \in [Managers -> [PairingFiles -> SUBSET Peers]]
    BY <1>0, <1>2, <1>5 DEF PairingTypes
  <2>3. noted' \in [Managers -> [PairingFiles -> Nat]]
        /\ \A n \in Managers, f \in PairingFiles : noted'[n][f] <= time'[f]
    BY <1>0, <1>4, <1>5 DEF PairingTypes
  <2>4. ideal' \in [PairingFiles -> SUBSET Peers] /\ disturbed' \in BOOLEAN
    BY <1>0, <1>3, <1>5 DEF PairingTypes
  <2> QED BY <1>0, <1>5, <2>1, <2>2, <2>3, <2>4 DEF PairingTypes
<1>8. /\ mem'[m] = kept /\ at'[m] = IF old # {} THEN "reload" ELSE Loaded(c.op)
      /\ \A n \in Managers \ {m} : /\ at'[n] = at[n] /\ mem'[n] = mem[n]
                                   /\ noted'[n] = noted[n]
  BY <1>0, <1>5 DEF PairingTypes
<1>9. ASSUME ~disturbed' PROVE ~disturbed /\ Undisturbed /\ copy = file
  BY <1>5, <1>6, <1>9 DEF PairingInv
<1>10. CASE old = {} /\ c.op \notin Deciding
  <2>1. ideal' = ideal /\ at' = at /\ (~disturbed' => mem'[m] = file)
    BY <1>0, <1>2, <1>3, <1>5, <1>8, <1>9, <1>10 DEF PairingTypes, Loaded
  <2>2. ASSUME ~disturbed', NEW n \in Managers
        PROVE  IF AtWork(n)' THEN HasWritten(n)' ELSE FollowsFiles(n)'
    <3>1. CASE n = m
      BY <1>5, <2>1, <2>2, <3>1 DEF AtWork, FollowsFiles
    <3>2. CASE n # m
      <4>1. IF AtWork(n) THEN HasWritten(n) ELSE FollowsFiles(n)
        BY <1>9, <2>2 DEF Undisturbed
      <4> QED BY <1>5, <1>8, <2>1, <3>2, <4>1 DEF AtWork, HasWritten, FollowsFiles
    <3> QED BY <3>1, <3>2
  <2> QED BY <1>5, <1>7, <1>9, <2>1, <2>2 DEF PairingInv, Undisturbed, AtWork
<1>11. CASE old # {} \/ c.op \in Deciding
  <2> SUFFICES ASSUME ~disturbed'
               PROVE  /\ HasWritten(m)' /\ AtWork(m)'
                      /\ \A n \in Managers \ {m} : ~AtWork(n)' /\ FollowsFiles(n)'
    BY <1>7 DEF PairingInv, Undisturbed
  <2>1. \A n \in Managers : ~AtWork(n) /\ FollowsFiles(n)
    BY <1>5, <1>9, <1>11 DEF Undisturbed, AtWork
  <2>2. file = ideal /\ copy = ideal
    BY <1>9, <2>1 DEF Undisturbed
  <2>3. mem'[m] = ideal'
    BY <1>5, <1>8, <2>2 DEF kept
  <2>4. /\ file'["allowlist"] = ideal'["allowlist"]
        /\ old = {} => file' = ideal'
    BY <1>0, <1>3, <1>5, <2>2 DEF PairingTypes, PairingFiles
  <2>5. AtWork(m)' /\ HasWritten(m)'
    BY <1>8, <1>11, <2>3, <2>4 DEF AtWork, HasWritten, Loaded, Writing
  <2> QED BY <1>5, <1>8, <2>1, <2>5 DEF AtWork, FollowsFiles
<1> QED BY <1>10, <1>11

\* The requests that are too old leave the copy of a manager at work.
LEMMA SweepStep ==
    ASSUME PairingInv, NEW m \in Managers, Sweep(m)
    PROVE  PairingInv'
<1> DEFINE kept == [mem[m] EXCEPT !["pending"] = @ \ expired]
<1>0. PairingTypes /\ \A n \in Managers, f \in PairingFiles : noted[n][f] <= time[f]
  BY DEF PairingInv
<1>1. kept \in [PairingFiles -> SUBSET Peers] /\ kept["allowlist"] = mem[m]["allowlist"]
  BY <1>0 DEF PairingTypes, PairingFiles
<1>2. /\ at[m] = "sweep" /\ mem' = [mem EXCEPT ![m] = kept]
      /\ ideal' = [ideal EXCEPT !["pending"] = @ \ expired]
      /\ at' = [at EXCEPT ![m] = IF mem' = mem THEN "decide" ELSE "swept"]
      /\ UNCHANGED <<file, time, noted, call, disturbed>>
  BY <1>0 DEF Sweep, PairingTypes
<1>3. ideal' \in [PairingFiles -> SUBSET Peers] /\ ideal'["allowlist"] = ideal["allowlist"]
  BY <1>0, <1>2 DEF PairingTypes, PairingFiles
<1>4. PairingTypes' /\ \A n \in Managers, f \in PairingFiles : noted'[n][f] <= time'[f]
  <2>1. mem' \in [Managers -> [PairingFiles -> SUBSET Peers]] /\ at' \in [Managers -> Places]
    BY <1>0, <1>1, <1>2 DEF PairingTypes, Places
  <2> QED BY <1>0, <1>2, <1>3, <2>1 DEF PairingTypes
<1>5. ASSUME ~disturbed PROVE Undisturbed'
  <2>1. AtWork(m) /\ HasWritten(m) /\ \A n \in Managers \ {m} : ~AtWork(n) /\ FollowsFiles(n)
    BY <1>2, <1>5 DEF PairingInv, Undisturbed, AtWork
  <2>2. mem[m] = ideal /\ file["allowlist"] = ideal["allowlist"]
        /\ file["pending"] = ideal["pending"]
    BY <1>2, <2>1 DEF HasWritten, Writing
  <2>3. mem'[m] = ideal' /\ AtWork(m)' /\ at'[m] \in {"swept", "decide"}
        /\ (at'[m] = "decide" => mem' = mem)
    BY <1>0, <1>2, <2>2 DEF PairingTypes, AtWork
  <2>4. HasWritten(m)'
    BY <1>2, <1>3, <2>2, <2>3 DEF HasWritten, Writing
  <2>5. \A n \in Managers \ {m} : ~AtWork(n)' /\ FollowsFiles(n)'
    BY <1>0, <1>2, <2>1 DEF AtWork, FollowsFiles, PairingTypes
  <2> QED BY <2>3, <2>4, <2>5 DEF Undisturbed
<1> QED BY <1>2, <1>4, <1>5 DEF PairingInv

\* A call decides, and has the files still to write.
LEMMA DecideStep ==
    ASSUME PairingInv, NEW m \in Managers, Decide(m)
    PROVE  PairingInv'
<1> DEFINE after == Outcome(mem[m], call[m].op, call[m].peer)
<1>0. PairingTypes /\ \A n \in Managers, f \in PairingFiles : noted[n][f] <= time[f]
  BY DEF PairingInv
<1>1. after \in [PairingFiles -> SUBSET Peers]
  BY <1>0, OutcomeType DEF PairingTypes
<1>2. /\ at[m] = "decide" /\ mem' = [mem EXCEPT ![m] = after]
      /\ ideal' = Outcome(ideal, call[m].op, call[m].peer)
      /\ at' = [at EXCEPT ![m] = IF after = mem[m] THEN "idle"
                                 ELSE IF call[m].op = "approve" THEN "allowlist" ELSE "pending"]
      /\ UNCHANGED <<file, time, noted, call, disturbed>>
  BY DEF Decide
<1>3. ideal' \in [PairingFiles -> SUBSET Peers]
  BY <1>0, <1>2, OutcomeType DEF PairingTypes
<1>4. call[m].op # "approve" => after["allowlist"] = mem[m]["allowlist"]
  BY <1>0, OutcomeChanges DEF PairingTypes
<1>n. ASSUME ~disturbed, mem[m] = ideal PROVE after = ideal'
  BY <1>2, <1>n
<1> HIDE DEF after
<1>5. PairingTypes' /\ \A n \in Managers, f \in PairingFiles : noted'[n][f] <= time'[f]
  <2>1. mem' \in [Managers -> [PairingFiles -> SUBSET Peers]] /\ at' \in [Managers -> Places]
    BY <1>0, <1>1, <1>2 DEF PairingTypes, Places
  <2> QED BY <1>0, <1>2, <1>3, <2>1 DEF PairingTypes
<1>6. ASSUME ~disturbed PROVE Undisturbed'
  <2>1. AtWork(m) /\ HasWritten(m) /\ \A n \in Managers \ {m} : ~AtWork(n) /\ FollowsFiles(n)
    BY <1>2, <1>6 DEF PairingInv, Undisturbed, AtWork
  <2>2. mem[m] = ideal /\ file["allowlist"] = ideal["allowlist"]
        /\ file["pending"] = ideal["pending"]
    BY <1>2, <2>1 DEF HasWritten, Writing
  <2>3. file = ideal
    <3>1. \A f \in PairingFiles : file[f] = ideal[f]
      BY <2>2 DEF PairingFiles
    <3> QED BY <1>0, <3>1 DEF PairingTypes
  <2>4. mem'[m] = ideal' /\ after = ideal'
    BY <1>0, <1>2, <1>6, <1>n, <2>2 DEF PairingTypes
  <2>5. \A n \in Managers \ {m} : ~AtWork(n)' /\ FollowsFiles(n)'
    BY <1>0, <1>2, <2>1 DEF AtWork, FollowsFiles, PairingTypes
  <2>6. CASE after = mem[m]
    <3>1. ~AtWork(m)' /\ FollowsFiles(m)' /\ file' = ideal'
      BY <1>0, <1>2, <2>2, <2>3, <2>4, <2>6 DEF AtWork, FollowsFiles, PairingTypes
    <3> QED BY <2>5, <3>1 DEF Undisturbed
  <2>7. CASE after # mem[m]
    <3>1. /\ at'[m] \in {"allowlist", "pending"}
          /\ at'[m] # "allowlist" => call[m].op # "approve"
      BY <1>0, <1>2, <2>7 DEF PairingTypes
    <3>2. AtWork(m)' /\ HasWritten(m)'
      BY <1>2, <1>4, <2>2, <2>4, <3>1 DEF AtWork, HasWritten, Writing
    <3> QED BY <2>5, <3>2 DEF Undisturbed
  <2> QED BY <2>6, <2>7
<1> QED BY <1>2, <1>5, <1>6 DEF PairingInv

\* Where a call stands when it has written a file, failed to, or noted its time.
LEMMA PlacesType ==
    ASSUME PairingTypes, NEW m \in Managers
    PROVE  /\ AfterWrite(m) \in Places /\ AfterFailure(m) \in Places /\ AfterNote(m) \in Places
           /\ FileAt(m) \in PairingFiles
BY DEF AfterWrite, AfterFailure, AfterNote, Loaded, Places, FileAt, PairingFiles

\* A call writes a file.
LEMMA WriteFileStep ==
    ASSUME PairingInv, NEW m \in Managers, WriteFile(m)
    PROVE  PairingInv'
<1>0. PairingTypes /\ \A n \in Managers, g \in PairingFiles : noted[n][g] <= time[g]
  BY DEF PairingInv
<1>1. PICK f \in PairingFiles : f = FileAt(m)
  BY <1>0, PlacesType
<1>2. /\ at[m] \in Writing /\ at' = [at EXCEPT ![m] = AfterWrite(m)]
      /\ file' = [file EXCEPT ![f] = mem[m][f]] /\ time' = [time EXCEPT ![f] = time[f] + 1]
      /\ UNCHANGED <<mem, noted, call, expired, ideal, disturbed>>
  BY <1>1 DEF WriteFile
<1>3. noted' = noted /\ time' = [time EXCEPT ![f] = time[f] + 1]
  BY <1>2
<1>4. file' = [file EXCEPT ![f] = mem[m][f]]
  BY <1>2
<1>5. /\ time' \in [PairingFiles -> Nat] /\ time'[f] = time[f] + 1
      /\ \A g \in PairingFiles : time[g] <= time'[g]
  BY <1>0, <1>3 DEF PairingTypes
<1>6. PairingTypes'
  <2>1. at' \in [Managers -> Places]
    BY <1>0, <1>2, PlacesType DEF PairingTypes
  <2>2. file' \in [PairingFiles -> SUBSET Peers]
    BY <1>0, <1>4 DEF PairingTypes
  <2> QED BY <1>0, <1>2, <1>5, <2>1, <2>2 DEF PairingTypes
<1>7. ASSUME NEW n \in Managers, NEW g \in PairingFiles PROVE noted'[n][g] <= time'[g]
  <2>1. noted[n][g] \in Nat /\ time[g] \in Nat /\ time'[g] \in Nat /\ noted[n][g] <= time[g]
    BY <1>0, <1>5 DEF PairingTypes
  <2> QED BY <1>3, <1>5, <2>1
<1>8. ASSUME ~disturbed PROVE Undisturbed'
  <2>1. AtWork(m) /\ HasWritten(m) /\ \A n \in Managers \ {m} : ~AtWork(n) /\ FollowsFiles(n)
    BY <1>2, <1>8 DEF PairingInv, Undisturbed, AtWork, Writing
  <2>2. mem[m] = ideal /\ mem'[m] = ideal' /\ ideal' = ideal
        /\ (at[m] # "allowlist" => f = "pending" /\ file["allowlist"] = ideal["allowlist"])
        /\ (at[m] = "allowlist" => f = "allowlist")
    BY <1>1, <1>2, <2>1 DEF HasWritten, FileAt, Writing
  <2>3. at'[m] = AfterWrite(m)
    BY <1>0, <1>2 DEF PairingTypes
  <2>4. file'[f] = ideal'[f] /\ file'["allowlist"] = ideal'["allowlist"]
        /\ (at[m] # "allowlist" => file' = ideal')
    <3>1. file'[f] = ideal'[f] /\ file'["allowlist"] = ideal'["allowlist"]
      BY <1>0, <1>4, <2>2 DEF PairingTypes, PairingFiles
    <3>2. at[m] # "allowlist" => \A g \in PairingFiles : file'[g] = ideal'[g]
      BY <2>2, <3>1 DEF PairingFiles
    <3> QED BY <1>6, <3>1, <3>2 DEF PairingTypes
  <2>5. AtWork(m)' => HasWritten(m)'
    <3>1. CASE at[m] = "allowlist"
      BY <2>2, <2>3, <2>4, <3>1 DEF HasWritten, AfterWrite
    <3>2. CASE at[m] # "allowlist"
      BY <2>2, <2>4, <3>2 DEF HasWritten
    <3> QED BY <3>1, <3>2
  <2>6. ~AtWork(m)' => FollowsFiles(m)' /\ file' = ideal'
    BY <2>2, <2>3, <2>4 DEF AtWork, FollowsFiles, AfterWrite
  <2>7. ASSUME NEW n \in Managers \ {m} PROVE ~AtWork(n)' /\ FollowsFiles(n)'
    <3>1. FollowsFiles(n) /\ ~AtWork(n)'
      BY <1>0, <1>2, <2>1 DEF PairingTypes, AtWork
    <3>2. ASSUME NEW g \in PairingFiles, g # f
          PROVE  mem'[n][g] = file'[g] \/ time'[g] > noted'[n][g]
      BY <1>0, <1>2, <3>1, <3>2 DEF FollowsFiles, PairingTypes
    <3>3. time'[f] > noted'[n][f]
      <4>1. noted[n][f] \in Nat /\ time[f] \in Nat /\ noted[n][f] <= time[f]
        BY <1>0 DEF PairingTypes
      <4> QED BY <1>3, <1>5, <4>1
    <3> QED BY <3>1, <3>2, <3>3 DEF FollowsFiles
  <2> QED BY <2>5, <2>6, <2>7 DEF Undisturbed
<1> QED BY <1>2, <1>6, <1>7, <1>8 DEF PairingInv

\* A call notes the time of a file, or cannot write it.
LEMMA NoteStep ==
    ASSUME PairingInv, NEW m \in Managers, NoteTime(m) \/ WriteFails(m)
    PROVE  PairingInv'
<1>0. PairingTypes /\ \A n \in Managers, g \in PairingFiles : noted[n][g] <= time[g]
  BY DEF PairingInv
<1>1. CASE WriteFails(m)
  <2>1. at' \in [Managers -> Places]
    BY <1>0, <1>1, PlacesType DEF WriteFails, PairingTypes
  <2> QED BY <1>0, <1>1, <2>1 DEF WriteFails, PairingInv, PairingTypes
<1>2. CASE NoteTime(m)
  <2>1. PICK f \in PairingFiles : f = FileAt(m)
    BY <1>0, PlacesType
  <2>2. /\ at[m] \in {"note swept", "note allowlist", "note pending"}
        /\ at' = [at EXCEPT ![m] = AfterNote(m)]
        /\ noted' = [noted EXCEPT ![m][f] = time[f]]
        /\ UNCHANGED <<file, time, mem, call, expired, ideal, disturbed>>
    BY <1>2, <2>1 DEF NoteTime
  <2>3. PairingTypes'
    <3>1. at' \in [Managers -> Places]
      BY <1>0, <2>2, PlacesType DEF PairingTypes
    <3> QED BY <1>0, <2>2, <3>1 DEF PairingTypes
  <2>4. \A n \in Managers, g \in PairingFiles : noted'[n][g] <= time'[g]
    <3>1. \A n \in Managers, g \in PairingFiles :
              noted'[n][g] = noted[n][g] \/ noted'[n][g] = time[g]
      BY <1>0, <2>2 DEF PairingTypes
    <3>2. \A g \in PairingFiles : time[g] \in Nat /\ time[g] <= time[g]
      BY <1>0 DEF PairingTypes
    <3> QED BY <1>0, <2>2, <3>1, <3>2
  <2>5. ASSUME ~disturbed PROVE Undisturbed'
    <3>1. AtWork(m) /\ HasWritten(m) /\ \A n \in Managers \ {m} : ~AtWork(n) /\ FollowsFiles(n)
      BY <2>2, <2>5 DEF PairingInv, Undisturbed, AtWork
    <3>2. \A n \in Managers \ {m} : ~AtWork(n)' /\ FollowsFiles(n)'
      BY <1>0, <2>2, <3>1 DEF AtWork, FollowsFiles, PairingTypes
    <3>3. at'[m] = AfterNote(m) /\ mem[m] = ideal /\ file["allowlist"] = ideal["allowlist"]
          /\ (at[m] # "note allowlist" => file["pending"] = ideal["pending"])
      BY <1>0, <2>2, <3>1 DEF PairingTypes, HasWritten, Writing
    <3>4. AtWork(m)' => HasWritten(m)'
      BY <2>2, <3>3 DEF AtWork, HasWritten, AfterNote, Writing
    <3>5. ~AtWork(m)' => FollowsFiles(m)' /\ file' = ideal'
      <4> SUFFICES ASSUME ~AtWork(m)' PROVE mem'[m] = file' /\ file' = ideal'
        BY DEF FollowsFiles
      <4>1. \A g \in PairingFiles : file[g] = ideal[g]
        BY <2>2, <3>3 DEF AtWork, AfterNote, PairingFiles
      <4>2. file = ideal
        BY <1>0, <4>1 DEF PairingTypes
      <4> QED BY <2>2, <3>3, <4>2
    <3> QED BY <3>2, <3>4, <3>5 DEF Undisturbed
  <2> QED BY <2>2, <2>3, <2>4, <2>5 DEF PairingInv
<1> QED BY <1>1, <1>2

\* The invariant holds of the managers always.
LEMMA PairingInductive == PairingSpec => []PairingInv
<1>1. PairingInv /\ [PairingNext]_pairingVars => PairingInv'
  <2> SUFFICES ASSUME PairingInv, [PairingNext]_pairingVars PROVE PairingInv'
    OBVIOUS
  <2>1. CASE UNCHANGED pairingVars
    BY <2>1 DEF pairingVars, PairingInv, PairingTypes, Undisturbed, AtWork, FollowsFiles,
                HasWritten
  <2>2. ASSUME NEW m \in Managers, NEW op \in Deciding, NEW p \in Peers, BeginCall(m, op, p)
        PROVE  PairingInv'
    <3>1. [op |-> op, peer |-> p] \in Calls
      BY DEF Calls
    <3> QED BY <2>2, <3>1, ReadStep DEF BeginCall
  <2>3. ASSUME NEW m \in Managers, Look(m) \/ NewProcess(m) PROVE PairingInv'
    BY <2>3, ReadStep DEF Look, NewProcess, Calls
  <2>4. ASSUME NEW p \in Peers, RequestExpires(p) PROVE PairingInv'
    BY <2>4 DEF RequestExpires, PairingInv, PairingTypes, Undisturbed, AtWork, FollowsFiles,
                HasWritten
  <2> QED BY <2>1, <2>2, <2>3, <2>4, SweepStep, DecideStep, WriteFileStep, NoteStep
          DEF PairingNext
<1> QED BY <1>1, PairingInitInv, PTL DEF PairingSpec

\* The managers of all processes agree with one manager that all would share,
\* as long as calls that ask, decide or list do not overlap and no write fails,
\* whatever expires, whichever process starts and whoever is asked who is
\* allowed meanwhile.
THEOREM SerialCallsAgreeHolds == PairingSpec => []SerialCallsAgree
<1>1. PairingInv => SerialCallsAgree
  BY DEF PairingInv, Undisturbed, AtWork, FollowsFiles, SerialCallsAgree
<1> QED BY <1>1, PairingInductive, PTL

-----------------------------------------------------------------------------
(***************************************************************************)
(* Cron.  A record in the table or in the file has a next run once it is   *)
(* in use, a job without one has no timer and no goroutine, and a job that *)
(* nobody interfered with has one of them at a time: it follows that its   *)
(* timer is set to its next run, and that its goroutine comes after the    *)
(* backoff.  A removed job is neither in the table nor in the file.        *)
(***************************************************************************)

\* What a record of job j may be.
Good(j, r) ==
    /\ r \in Record /\ r.end <= now
    /\ r.present => r.next > 0
    /\ j \in removed => ~r.present
    /\ j \notin touched \cup replanned /\ r.next > 0 =>
           /\ Valid(r.schedule)
           /\ \/ Pause(r.schedule, r.errors) = 0
              \/ r.next >= r.end + Pause(r.schedule, r.errors)

\* The runs, timers and goroutines of job j.
RunInv(j) ==
    /\ executing[j] <= 1
    /\ executing[j] = 1 => jobs[j].running
    /\ restarts = 0 /\ jobs[j].running => executing[j] = 1
    /\ jobs[j].next = 0 => Untriggered(j)

TriggerInv(j) ==
    /\ service = "started" /\ faults = 0
       /\ jobs[j].present /\ jobs[j].enabled /\ Valid(jobs[j].schedule) =>
           jobs[j].running \/ timer[j] # Never \/ started[j] > 0
    /\ j \notin touched =>
           /\ loose[j] = EmptyBag
           /\ timer[j] = Never \/ (started[j] = 0 /\ executing[j] = 0)
           /\ started[j] + executing[j] <= 1
    /\ service = "stopped" /\ j \notin touched \cup late => Untriggered(j)

BackoffInv(j) ==
    j \notin touched \cup replanned =>
        /\ timer[j] # Never => timer[j] = jobs[j].next
        /\ started[j] > 0 =>
               now >= jobs[j].end + Pause(jobs[j].schedule, jobs[j].errors)

JobInv(j) == RunInv(j) /\ TriggerInv(j) /\ BackoffInv(j)

CronInv ==
    /\ CronTypeOK /\ DOMAIN loose = Jobs /\ removed \subseteq Jobs
    /\ restarts \in Nat /\ faults \in Nat
    /\ \A j \in Jobs : Good(j, jobs[j]) /\ Good(j, jobsFile[j]) /\ JobInv(j)

-----------------------------------------------------------------------------
\* Bags of timers.
LEMMA NoTimers == IsABag(EmptyBag) /\ BagToSet(EmptyBag) \subseteq Nat
  BY DEF IsABag, BagToSet, EmptyBag, SetToBag

\* A timer more is a bag of timers.
LEMMA OneTimerMore ==
    ASSUME NEW b, IsABag(b), BagToSet(b) \subseteq Nat, NEW d \in Nat
    PROVE  IsABag(b (+) SetToBag({d})) /\ BagToSet(b (+) SetToBag({d})) \subseteq Nat
<1> DEFINE c == b (+) SetToBag({d})
<1>1. DOMAIN c = DOMAIN b \cup {d}
  BY DEF (+), SetToBag
<1>2. ASSUME NEW e \in DOMAIN c PROVE c[e] \in {n \in Nat : n > 0}
  BY <1>1, <1>2 DEF (+), SetToBag, IsABag
<1>3. c \in [DOMAIN c -> {n \in Nat : n > 0}]
  BY <1>2 DEF (+)
<1> QED BY <1>1, <1>3 DEF IsABag, BagToSet

\* A timer less is a bag of timers.
LEMMA OneTimerLess ==
    ASSUME NEW b, IsABag(b), BagToSet(b) \subseteq Nat, NEW d \in Nat
    PROVE  IsABag(b (-) SetToBag({d})) /\ BagToSet(b (-) SetToBag({d})) \subseteq Nat
<1> DEFINE a == [e \in DOMAIN b |-> IF e \in DOMAIN SetToBag({d})
                                    THEN b[e] - SetToBag({d})[e] ELSE b[e]]
           c == [e \in {x \in DOMAIN a : a[x] > 0} |-> a[e]]
<1>1. c = b (-) SetToBag({d})
  BY DEF (-)
<1>2. \A e \in DOMAIN a : a[e] \in Int
  BY DEF SetToBag, IsABag
<1>3. DOMAIN a = DOMAIN b
  OBVIOUS
<1> HIDE DEF a
<1>4. DOMAIN c \subseteq DOMAIN b /\ \A e \in DOMAIN c : c[e] \in {n \in Nat : n > 0}
  BY <1>2, <1>3
<1>5. c \in [DOMAIN c -> {n \in Nat : n > 0}]
  BY <1>4
<1> QED BY <1>1, <1>4, <1>5 DEF IsABag, BagToSet

-----------------------------------------------------------------------------
\* A valid schedule has a next run, later than the start of the clock; that of a
\* recurring one is still to come.
LEMMA NextRunType ==
    ASSUME now \in Nat, NEW s \in Schedules, Valid(s)
    PROVE  NextRun(s) \in Nat /\ NextRun(s) > 0 /\ (Recurring(s) => NextRun(s) > now)
<1>1. /\ s.kind \in {"at", "every"} /\ s.at \in Nat /\ s.every \in Nat \ {0}
      /\ s.anchor \in Nat \cup {Never} /\ Never \notin Nat /\ (s.kind = "at" => s.at > 0)
  BY ScheduleAssumption DEF ScheduleKinds, Valid
<1>2. CASE s.kind = "at"
  BY <1>1, <1>2 DEF NextRun, Recurring
<1>3. CASE s.kind = "every" /\ s.anchor = Never
  BY <1>1, <1>3 DEF NextRun
<1>4. CASE s.kind = "every" /\ s.anchor # Never
  <2> DEFINE n == (now - s.anchor) \div s.every
  <2>1. s.anchor \in Nat /\ NextRun(s) = IF now < s.anchor THEN s.anchor
                                         ELSE s.anchor + (n + 1) * s.every
    BY <1>1, <1>4 DEF NextRun
  <2>2. CASE now < s.anchor
    BY <2>1, <2>2
  <2>3. CASE now >= s.anchor
    <3>1. /\ n \in Nat
          /\ now - s.anchor < (n + 1) * s.every
      <4>1. now - s.anchor \in Nat
        BY <2>1, <2>3
      <4> QED BY <1>1, <4>1
    <3> HIDE DEF n
    <3>2. (n + 1) * s.every \in Nat /\ (n + 1) * s.every > 0
      BY <1>1, <3>1
    <3> QED BY <2>1, <2>3, <3>1, <3>2
  <2> QED BY <2>1, <2>2, <2>3
<1> QED BY <1>1, <1>2, <1>3, <1>4

\* A backoff is a natural number, and so is what lies between two runs.
LEMMA BackoffType ==
    ASSUME NEW s, NEW n \in Nat
    PROVE  RetryBackoff(s, n) \in Nat /\ Pause(s, n) \in Nat
<1>1. Len(Backoff) \in Nat \ {0} /\ \A i \in 1..Len(Backoff) : Backoff[i] \in Nat
  BY ScheduleAssumption
<1>2. RetryBackoff(s, n) \in Nat
  BY <1>1 DEF RetryBackoff
<1> QED BY <1>2 DEF Pause, Later

\* An absent record is one.
LEMMA NoRecordGood ==
    ASSUME now \in Nat, NEW j \in Jobs
    PROVE  Good(j, NoRecord) /\ NoRecord.next = 0 /\ ~NoRecord.present /\ ~NoRecord.running
<1>1. (CHOOSE s \in Schedules : TRUE) \in Schedules
  BY ScheduleAssumption
<1>2. NoRecord \in Record
  BY <1>1 DEF NoRecord, Record
<1> QED BY <1>2 DEF NoRecord, Good

\* The record of a new job.
Added(s, enabled, once) ==
    [NoRecord EXCEPT !.present = TRUE, !.enabled = enabled, !.deleteAfterRun = once,
         !.schedule = s, !.next = NextRun(s)]

\* A job that is added is as a job should be.
LEMMA AddedGood ==
    ASSUME now \in Nat, NEW j \in Jobs, j \notin removed, NEW s \in Schedules, Valid(s),
           NEW e \in BOOLEAN, NEW d \in BOOLEAN, NEW job,
           job = Added(s, e, d)
    PROVE  /\ Good(j, job) /\ job.present /\ job.enabled = e /\ ~job.running
           /\ job.next = NextRun(s) /\ job.next > 0 /\ job.next \in Nat /\ job.end = 0
<1>1. PICK n \in Nat : n = NextRun(s) /\ n > 0
  BY NextRunType
<1>2. PICK r \in Record : r = NoRecord
  BY NoRecordGood DEF Good
<1>3. r.errors = 0 /\ r.end = 0 /\ r.running = FALSE
  BY <1>2 DEF NoRecord
<1>4. job = [r EXCEPT !.present = TRUE, !.enabled = e, !.deleteAfterRun = d,
                      !.schedule = s, !.next = n]
  BY <1>1, <1>2 DEF Added
<1>5. job \in Record
  BY <1>4 DEF Record
<1>6. /\ job.present = TRUE /\ job.enabled = e /\ job.schedule = s /\ job.next = n
      /\ job.running = r.running /\ job.errors = r.errors /\ job.end = r.end
  BY <1>4 DEF Record
<1>7. Pause(job.schedule, job.errors) \in {0, 1}
  BY <1>3, <1>6 DEF Pause, Later, RetryBackoff
<1> QED BY <1>1, <1>3, <1>5, <1>6, <1>7 DEF Good

\* The record of a job that a patch was applied to.
LEMMA PatchedGood ==
    ASSUME now \in Nat, NEW j \in Jobs, NEW r, Good(j, r), r.present,
           NEW e \in BOOLEAN, NEW d \in BOOLEAN, NEW s \in Schedules \cup {Never},
           NEW p, p = Patched(r, e, d, s),
           replanned' = IF s = Never THEN replanned ELSE replanned \cup {j},
           now' = now, removed' = removed, touched \subseteq touched'
    PROVE  /\ Good(j, p)' /\ p.present /\ p.enabled = e /\ p.running = r.running
           /\ p.end = r.end /\ p.errors = r.errors /\ p.next > 0 /\ p.next \in Nat
           /\ s = Never => p.schedule = r.schedule /\ p.next = r.next
           /\ s # Never => p.schedule = s
<1>1. r \in Record /\ r.next > 0 /\ r.end <= now
  BY DEF Good
<1>2. PICK flags : flags = [r EXCEPT !.enabled = e, !.deleteAfterRun = d]
  OBVIOUS
<1>3. /\ flags \in Record /\ flags.present = r.present /\ flags.enabled = e
      /\ flags.schedule = r.schedule /\ flags.next = r.next /\ flags.running = r.running
      /\ flags.errors = r.errors /\ flags.end = r.end
  BY <1>1, <1>2 DEF Record
<1>4. CASE s = Never
  <2>1. p = flags
    BY <1>2, <1>4 DEF Patched
  <2>2. Good(j, p)'
    BY <1>1, <1>3, <1>4, <2>1 DEF Good
  <2> QED BY <1>1, <1>3, <1>4, <2>1, <2>2 DEF Record
<1>5. CASE s # Never
  <2>1. PICK n \in Nat : n > 0 /\ n = IF Valid(s) THEN NextRun(s) ELSE flags.next
    BY <1>1, <1>3, <1>5, NextRunType DEF Record
  <2>2. p = [flags EXCEPT !.schedule = s, !.next = n]
    BY <1>2, <1>5, <2>1 DEF Patched
  <2>3. p \in Record
    BY <1>3, <1>5, <2>2 DEF Record
  <2>4. /\ p.present = flags.present /\ p.enabled = flags.enabled /\ p.schedule = s
        /\ p.next = n /\ p.running = flags.running /\ p.errors = flags.errors
        /\ p.end = flags.end
    BY <1>3, <2>2 DEF Record
  <2>5. Good(j, p)'
    BY <1>1, <1>3, <1>5, <2>1, <2>3, <2>4 DEF Good
  <2> QED BY <1>3, <1>5, <2>1, <2>4, <2>5
<1> QED BY <1>4, <1>5

\* The record of a job after a run.
LEMMA AfterRunGood ==
    ASSUME now \in Nat, NEW j \in Jobs, NEW r, Good(j, r), r.next > 0, NEW f \in BOOLEAN,
           NEW a, a = AfterRun(r, f)
    PROVE  /\ Good(j, a) /\ a.present = r.present /\ a.enabled = r.enabled /\ ~a.running
           /\ a.schedule = r.schedule /\ a.next > 0 /\ a.next \in Nat
<1>1. r \in Record /\ r.schedule \in Schedules
  BY DEF Good, Record
<1>2. PICK errors \in Nat : errors = IF f THEN r.errors + 1 ELSE 0
  BY <1>1 DEF Record
<1>3. PICK pause \in Nat : pause = RetryBackoff(r.schedule, errors)
  BY BackoffType
<1>4. PICK n : n = IF ~Valid(r.schedule) THEN r.next
                   ELSE Later(NextRun(r.schedule), IF pause = 0 THEN 0 ELSE now + pause)
  OBVIOUS
<1>5. a = [r EXCEPT !.running = FALSE, !.errors = errors, !.end = now, !.next = n]
  BY <1>2, <1>3, <1>4 DEF AfterRun
<1>6. /\ n \in Nat /\ n > 0
      /\ Valid(r.schedule) => \/ Pause(r.schedule, errors) = 0
                              \/ n >= now + Pause(r.schedule, errors)
  <2>1. CASE ~Valid(r.schedule)
    BY <1>1, <1>4, <2>1 DEF Record
  <2>2. CASE Valid(r.schedule)
    <3>1. /\ NextRun(r.schedule) \in Nat /\ NextRun(r.schedule) > 0
          /\ Recurring(r.schedule) => NextRun(r.schedule) > now
      BY <1>1, <2>2, NextRunType
    <3> QED BY <1>3, <1>4, <2>2, <3>1 DEF Later, Pause
  <2> QED BY <2>1, <2>2
<1>7. a \in Record
  BY <1>1, <1>5, <1>6 DEF Record
<1>8. /\ a.present = r.present /\ a.enabled = r.enabled /\ a.schedule = r.schedule
      /\ a.next = n /\ a.running = FALSE /\ a.errors = errors /\ a.end = now
  BY <1>1, <1>5 DEF Record
<1>9. Good(j, a)
  BY <1>6, <1>7, <1>8 DEF Good
<1> QED BY <1>6, <1>8, <1>9

-----------------------------------------------------------------------------
\* A record stays good as time passes and the histories grow.
LEMMA GoodStays ==
    ASSUME NEW j \in Jobs, NEW r, Good(j, r), now \in Nat, now' \in Nat, now <= now',
           touched \subseteq touched', replanned \subseteq replanned',
           j \in removed' => j \in removed \/ ~r.present
    PROVE  Good(j, r)'
<1>1. r.end \in Nat
  BY DEF Good, Record
<1> QED BY <1>1 DEF Good

\* What persist writes of a table of good records is one.
FileOf(table) == [j \in Jobs |-> IF table[j].present THEN table[j] ELSE NoRecord]

\* So is what is saved of a good table.
LEMMA FileGood ==
    ASSUME NEW table, now \in Nat, now' \in Nat, \A i \in Jobs : Good(i, table[i])'
    PROVE  FileOf(table) \in [Jobs -> Record] /\ \A i \in Jobs : Good(i, FileOf(table)[i])'
<1>1. \A i \in Jobs : Good(i, FileOf(table)[i])'
  <2> SUFFICES ASSUME NEW i \in Jobs PROVE Good(i, FileOf(table)[i])'
    OBVIOUS
  <2>1. PICK r : r = FileOf(table)[i]
    OBVIOUS
  <2>2. CASE r = table[i]
    BY <2>1, <2>2 DEF Good, FileOf, NoRecord
  <2>3. CASE r = NoRecord
    <3>1. r \in Record /\ r.next = 0 /\ ~r.present /\ r.end = 0
      BY <2>3, NoRecordGood DEF Good, NoRecord
    <3>2. Good(i, r)'
      BY <3>1 DEF Good
    <3> QED BY <2>1, <3>2 DEF Good, FileOf, NoRecord
  <2> QED BY <2>1, <2>2, <2>3 DEF FileOf
<1>2. \A i \in Jobs : FileOf(table)[i] \in Record
  BY <1>1 DEF Good, FileOf, NoRecord
<1> QED BY <1>1, <1>2 DEF FileOf

\* What a step leaves alone of a job.
Same(i) ==
    /\ jobs'[i] = jobs[i] /\ timer'[i] = timer[i] /\ loose'[i] = loose[i]
    /\ started'[i] = started[i] /\ executing'[i] = executing[i]

\* A step within the life of the service.
Histories ==
    /\ service' = service /\ restarts' = restarts /\ late' = late
    /\ faults' \in Nat /\ (faults' = 0 => faults = 0)
    /\ now' \in 0..MaxTime /\ now <= now'
    /\ touched \subseteq touched' /\ replanned \subseteq replanned'

\* A job that a step leaves alone keeps its invariant.
LEMMA OthersKeep ==
    ASSUME CronInv, NEW i \in Jobs, Same(i), Histories
    PROVE  JobInv(i)'
<1>1. /\ JobInv(i) /\ Good(i, jobs[i]) /\ now \in Nat /\ now' \in Nat
      /\ started[i] \in Nat /\ executing[i] \in Nat
  BY CronBoundsAssumption DEF CronInv, CronTypeOK, Histories
<1>2. PICK b \in Nat : b = Pause(jobs[i].schedule, jobs[i].errors)
  BY <1>1, BackoffType DEF Good, Record
<1>3. PICK e \in Nat : e = jobs[i].end
  BY <1>1 DEF Good, Record
<1>4. (Untriggered(i) => Untriggered(i)') /\ (Untriggered(i)' => Untriggered(i))
  BY DEF Same, Untriggered
<1>5. RunInv(i)'
  BY <1>1, <1>4 DEF JobInv, RunInv, Same, Histories
<1>6. TriggerInv(i)'
  BY <1>1, <1>4 DEF JobInv, TriggerInv, Same, Histories
<1>7. BackoffInv(i)'
  <2>1. Pause(jobs'[i].schedule, jobs'[i].errors) = b /\ jobs'[i].end = e
    BY <1>2, <1>3 DEF Same
  <2>2. i \notin touched \cup replanned /\ started[i] > 0 => now >= e + b
    BY <1>1, <1>2, <1>3 DEF JobInv, BackoffInv
  <2>3. i \notin touched' \cup replanned' => i \notin touched \cup replanned
    BY DEF Histories
  <2>4. i \notin touched' \cup replanned' /\ started'[i] > 0 => now' >= e + b
    BY <1>1, <2>2, <2>3 DEF Same, Histories
  <2>5. i \notin touched' \cup replanned' /\ timer'[i] # Never => timer'[i] = jobs'[i].next
    BY <1>1, <2>3 DEF Same, JobInv, BackoffInv
  <2> QED BY <2>1, <2>4, <2>5 DEF BackoffInv, Pause, Later, RetryBackoff, Recurring
<1> QED BY <1>5, <1>6, <1>7 DEF JobInv

\* A step of one job: what remains to be shown is what it makes of that job.
LEMMA JobStep ==
    ASSUME CronInv, NEW j \in Jobs, Histories, removed \subseteq removed',
           removed' \subseteq removed \cup {j},
           \A i \in Jobs \ {j} : Same(i),
           jobs' \in [Jobs -> Record],
           timer' \in [Jobs -> Nat \cup {Never}], DOMAIN loose' = Jobs,
           IsABag(loose'[j]), BagToSet(loose'[j]) \subseteq Nat,
           started' \in [Jobs -> Nat], executing' \in [Jobs -> Nat],
           \/ jobsFile' = jobsFile /\ removed' = removed
           \/ \E table : /\ jobsFile' = FileOf(table) /\ Good(j, table[j])'
                         /\ \A i \in Jobs \ {j} : table[i] = jobs[i],
           Good(j, jobs[j])', JobInv(j)'
    PROVE  CronInv'
<1>1. now \in Nat /\ now' \in Nat /\ now <= now'
  BY CronBoundsAssumption DEF CronInv, CronTypeOK, Histories
<1>2. \A i \in Jobs : Good(i, jobs[i]) /\ Good(i, jobsFile[i])
  BY DEF CronInv
<1>3. ASSUME NEW i \in Jobs \ {j}, NEW r, Good(i, r) PROVE Good(i, r)'
  BY <1>1, <1>3, GoodStays DEF Histories
<1>4. \A i \in Jobs \ {j} : Good(i, jobs[i])'
  <2> SUFFICES ASSUME NEW i \in Jobs \ {j} PROVE Good(i, jobs[i])'
    OBVIOUS
  <2>1. PICK r : r = jobs[i]
    OBVIOUS
  <2>2. Good(i, r)'
    BY <1>2, <1>3, <2>1
  <2>3. jobs'[i] = r
    BY <2>1 DEF Same
  <2> QED BY <2>2, <2>3 DEF Good
<1>5. \A i \in Jobs \ {j} : JobInv(i)'
  BY OthersKeep
<1>6. jobsFile' \in [Jobs -> Record] /\ \A i \in Jobs : Good(i, jobsFile[i])'
  <2>1. CASE jobsFile' = jobsFile /\ removed' = removed
    <3>1. \A i \in Jobs : Good(i, jobsFile[i])'
      <4> SUFFICES ASSUME NEW i \in Jobs PROVE Good(i, jobsFile[i])'
        OBVIOUS
      <4>1. PICK r : r = jobsFile[i]
        OBVIOUS
      <4>2. Good(i, r)'
        BY <1>1, <1>2, <2>1, <4>1, GoodStays DEF Histories
      <4> QED BY <2>1, <4>1, <4>2 DEF Good
    <3>2. jobsFile' \in [Jobs -> Record]
      BY <2>1 DEF CronInv, CronTypeOK
    <3> QED BY <3>1, <3>2
  <2>2. ASSUME NEW table, jobsFile' = FileOf(table), Good(j, table[j])',
               \A i \in Jobs \ {j} : table[i] = jobs[i]
        PROVE  jobsFile' \in [Jobs -> Record] /\ \A i \in Jobs : Good(i, jobsFile[i])'
    <3>1. \A i \in Jobs : Good(i, table[i])'
      BY <1>2, <1>3, <2>2
    <3>2. FileOf(table) \in [Jobs -> Record] /\ \A i \in Jobs : Good(i, FileOf(table)[i])'
      BY <1>1, <3>1, FileGood
    <3> QED BY <2>2, <3>2 DEF Good, FileOf, NoRecord
  <2> QED BY <2>1, <2>2
<1>7. \A i \in Jobs : IsABag(loose'[i]) /\ BagToSet(loose'[i]) \subseteq Nat
  BY DEF Same, CronInv, CronTypeOK
<1>8. CronTypeOK'
  BY <1>6, <1>7 DEF CronInv, CronTypeOK, Histories
<1>9. restarts' \in Nat /\ faults' \in Nat /\ removed' \subseteq Jobs
  BY DEF CronInv, Histories
<1> QED BY <1>4, <1>5, <1>6, <1>8, <1>9 DEF CronInv

-----------------------------------------------------------------------------
\* What the timers of one job may become.
TimersOf(j) ==
    /\ timer' \in [Jobs -> Nat \cup {Never}] /\ DOMAIN loose' = Jobs
    /\ IsABag(loose'[j]) /\ BagToSet(loose'[j]) \subseteq Nat
    /\ \A i \in Jobs \ {j} : timer'[i] = timer[i] /\ loose'[i] = loose[i]

\* scheduleJobLocked arms one timer, and loses the one the handle pointed at.
LEMMA Scheduled ==
    ASSUME CronInv, NEW j \in Jobs, NEW d \in Nat, ScheduleJob(j, d)
    PROVE  TimersOf(j) /\ timer'[j] = d /\ (timer[j] = Never => loose'[j] = loose[j])
<1>1. /\ timer \in [Jobs -> Nat \cup {Never}] /\ DOMAIN loose = Jobs
      /\ IsABag(loose[j]) /\ BagToSet(loose[j]) \subseteq Nat
  BY DEF CronInv, CronTypeOK
<1>2. /\ timer' \in [Jobs -> Nat \cup {Never}] /\ timer'[j] = d
      /\ \A i \in Jobs \ {j} : timer'[i] = timer[i]
  BY <1>1 DEF ScheduleJob
<1>3. CASE timer[j] = Never
  BY <1>1, <1>2, <1>3 DEF ScheduleJob, TimersOf
<1>4. CASE timer[j] # Never
  <2>1. PICK b : b = loose[j] (+) SetToBag({timer[j]})
    OBVIOUS
  <2>2. IsABag(b) /\ BagToSet(b) \subseteq Nat
    BY <1>1, <1>4, <2>1, OneTimerMore
  <2>3. loose' = [loose EXCEPT ![j] = b]
    BY <1>4, <2>1 DEF ScheduleJob
  <2>4. /\ DOMAIN loose' = Jobs /\ loose'[j] = b
        /\ \A i \in Jobs \ {j} : loose'[i] = loose[i]
    BY <1>1, <2>3
  <2> QED BY <1>2, <1>4, <2>2, <2>4 DEF TimersOf
<1> QED BY <1>3, <1>4

\* A handle that is moved, or let go, leaves the other timers alone.
LEMMA Moved ==
    ASSUME CronInv, NEW j \in Jobs, NEW d \in Nat \cup {Never},
           timer' = [timer EXCEPT ![j] = d], UNCHANGED loose
    PROVE  TimersOf(j) /\ timer'[j] = d /\ loose'[j] = loose[j]
  BY DEF CronInv, CronTypeOK, TimersOf

\* A step that leaves the timers alone leaves those of each job alone.
LEMMA Unmoved ==
    ASSUME CronInv, NEW j \in Jobs, UNCHANGED timerVars
    PROVE  TimersOf(j) /\ timer'[j] = timer[j] /\ loose'[j] = loose[j]
  BY DEF CronInv, CronTypeOK, TimersOf, timerVars

\* What CronInv says of one job, in the values its fields have.
LEMMA JobFacts ==
    ASSUME CronInv, NEW j \in Jobs
    PROVE  /\ Good(j, jobs[j]) /\ Good(j, jobsFile[j])
           /\ RunInv(j) /\ TriggerInv(j) /\ BackoffInv(j)
           /\ jobs[j] \in Record /\ jobs[j].next \in Nat /\ jobs[j].end \in Nat
           /\ jobs[j].end <= now /\ jobs[j].errors \in Nat /\ jobs[j].schedule \in Schedules
           /\ now \in Nat /\ now \in 0..MaxTime /\ faults \in Nat /\ restarts \in Nat
           /\ started[j] \in Nat /\ executing[j] \in Nat /\ executing[j] <= 1
           /\ timer[j] \in Nat \cup {Never} /\ Never \notin Nat
           /\ Pause(jobs[j].schedule, jobs[j].errors) \in Nat
<1>1. /\ Good(j, jobs[j]) /\ Good(j, jobsFile[j])
      /\ RunInv(j) /\ TriggerInv(j) /\ BackoffInv(j)
  BY DEF CronInv, JobInv
<1>2. PICK r \in Record : r = jobs[j]
  BY <1>1 DEF Good
<1>3. r.next \in Nat /\ r.end \in Nat /\ r.errors \in Nat /\ r.schedule \in Schedules
  BY DEF Record
<1>4. Pause(r.schedule, r.errors) \in Nat
  BY <1>3, BackoffType
<1>5. r.end <= now /\ executing[j] <= 1
  BY <1>1, <1>2 DEF Good, RunInv
<1>6. /\ now \in Nat /\ now \in 0..MaxTime /\ faults \in Nat /\ restarts \in Nat
      /\ started[j] \in Nat /\ executing[j] \in Nat
      /\ timer[j] \in Nat \cup {Never} /\ Never \notin Nat
  BY CronBoundsAssumption, ScheduleAssumption DEF CronInv, CronTypeOK
<1> QED BY <1>1, <1>2, <1>3, <1>4, <1>5, <1>6

\* What a step of job j changes of the table and the goroutines.
LEMMA TableChange ==
    ASSUME CronInv, NEW j \in Jobs, NEW r \in Record, jobs' = [jobs EXCEPT ![j] = r]
    PROVE  /\ jobs' \in [Jobs -> Record] /\ jobs'[j] = r
           /\ \A i \in Jobs \ {j} : jobs'[i] = jobs[i]
  BY DEF CronInv, CronTypeOK

\* AddJob: the new job gets the one timer it should have.
LEMMA AddStep ==
    ASSUME CronInv, NEW j \in Jobs, NEW s \in Schedules,
           NEW enabled \in BOOLEAN, NEW once \in BOOLEAN, AddJob(j, s, enabled, once)
    PROVE  CronInv'
<1>1. Untriggered(j) /\ j \notin removed /\ Valid(s) /\ service # "stopped"
  BY JobFacts, NoRecordGood DEF AddJob, RunInv
<1>2. PICK job : job = Added(s, enabled, once)
  OBVIOUS
<1>3. /\ Good(j, job) /\ job.present /\ job.enabled = enabled /\ ~job.running
      /\ job.next > 0 /\ job.next \in Nat /\ job.end = 0
  <2>1. now \in Nat
    BY JobFacts
  <2> QED BY <1>1, <1>2, <2>1, AddedGood
<1>4. /\ UNCHANGED <<now, service, restarts, late, removed, touched, replanned>>
      /\ UNCHANGED <<started, executing>>
  BY DEF AddJob, CronOperation, runVars, cronHistory
<1>5. started' \in [Jobs -> Nat] /\ executing' \in [Jobs -> Nat]
  BY <1>4 DEF CronInv, CronTypeOK
<1>6. CASE SaveFails /\ UNCHANGED <<jobs, timerVars>>
  <2>1. Histories
    BY <1>4, <1>6, JobFacts DEF Histories, SaveFails
  <2>2. TimersOf(j) /\ \A i \in Jobs : Same(i)
    BY <1>4, <1>6, Unmoved DEF Same, timerVars
  <2>3. jobsFile' = jobsFile /\ jobs' \in [Jobs -> Record]
    BY <1>6 DEF SaveFails, CronInv, CronTypeOK
  <2>4. Good(j, jobs[j])' /\ JobInv(j)'
    BY <1>4, <1>6, <2>1, <2>2, JobFacts, OthersKeep DEF Good
  <2> QED BY <1>4, <1>5, <2>1, <2>2, <2>3, <2>4, JobStep DEF TimersOf
<1>7. CASE /\ Saved([jobs EXCEPT ![j] = job])
           /\ jobs' = [jobs EXCEPT ![j] = job]
           /\ IF enabled THEN ScheduleJob(j, job.next) ELSE UNCHANGED timerVars
  <2>1. Histories
    BY <1>4, <1>7, JobFacts DEF Histories, Saved
  <2>2. job \in Record
    BY <1>3 DEF Good
  <2>3. /\ jobs' \in [Jobs -> Record] /\ jobs'[j] = job
        /\ \A i \in Jobs \ {j} : jobs'[i] = jobs[i]
    BY <1>7, <2>2, TableChange
  <2>4. /\ TimersOf(j) /\ loose'[j] = loose[j]
        /\ timer'[j] = IF enabled THEN job.next ELSE Never
    BY <1>1, <1>3, <1>7, Scheduled, Unmoved DEF Untriggered
  <2>5. Good(j, job)'
    BY <1>3, <1>4 DEF Good
  <2>6. jobsFile' = FileOf(jobs') /\ \A i \in Jobs \ {j} : jobs'[i] = jobs[i]
    BY <1>7, <2>3 DEF Saved, FileOf
  <2>7. JobInv(j)'
    <3>1. started'[j] = 0 /\ executing'[j] = 0 /\ loose'[j] = EmptyBag
      BY <1>1, <1>4, <2>4 DEF Untriggered
    <3>2. RunInv(j)'
      BY <1>3, <2>3, <3>1 DEF RunInv
    <3>3. TriggerInv(j)'
      BY <1>1, <1>3, <1>4, <2>3, <2>4, <3>1, JobFacts DEF TriggerInv
    <3>4. BackoffInv(j)'
      BY <1>3, <2>3, <2>4, <3>1 DEF BackoffInv
    <3> QED BY <3>2, <3>3, <3>4 DEF JobInv
  <2>8. \A i \in Jobs \ {j} : Same(i)
    BY <1>4, <2>3, <2>4 DEF Same, TimersOf
  <2>9. Good(j, jobs[j])'
    BY <2>3, <2>5 DEF Good
  <2>10. \E table : /\ jobsFile' = FileOf(table) /\ Good(j, table[j])'
                    /\ \A i \in Jobs \ {j} : table[i] = jobs[i]
    <3>1. PICK table : table = jobs'
      OBVIOUS
    <3>2. Good(j, table[j])'
      BY <2>3, <2>5, <3>1 DEF Good
    <3> QED BY <2>6, <3>1, <3>2
  <2> QED BY <1>4, <1>5, <2>1, <2>3, <2>4, <2>7, <2>8, <2>9, <2>10, JobStep DEF TimersOf
<1> QED BY <1>2, <1>6, <1>7 DEF AddJob, Added

\* An update: refused, not saved, or saved and the timer armed again.
LEMMA UpdateStep ==
    ASSUME CronInv, NEW j \in Jobs, NEW s \in Schedules \cup {Never},
           NEW enabled \in BOOLEAN, NEW once \in BOOLEAN, UpdateJob(j, enabled, once, s)
    PROVE  CronInv'
<1>1. /\ UNCHANGED <<now, service, started, executing, removed, late, restarts>>
      /\ replanned' = IF s = Never THEN replanned ELSE replanned \cup {j}
      /\ service # "stopped"
  BY DEF UpdateJob, CronOperation, runVars
<1>2. PICK r : r = jobs[j]
  OBVIOUS
<1>3. Good(j, r) /\ r.present /\ r.next > 0 /\ r.next \in Nat
  BY <1>2, JobFacts DEF UpdateJob, Good, Record
<1>4. PICK p : p = Patched(r, enabled, once, s)
  OBVIOUS
<1>5. PICK changed \in BOOLEAN : changed = (s # Never \/ enabled # r.enabled)
  OBVIOUS
<1>6. /\ jobs' = [jobs EXCEPT ![j] = p]
      /\ \/ s # Never /\ ~Valid(s) /\ UNCHANGED <<jobsFile, faults, timerVars, touched>>
         \/ SaveFails /\ UNCHANGED <<timerVars, touched>>
         \/ /\ Saved([jobs EXCEPT ![j] = p])
            /\ IF changed THEN Rearm(j, p) ELSE UNCHANGED timerVars
            /\ touched' = IF changed /\ enabled /\ started[j] + executing[j] > 0
                          THEN touched \cup {j} ELSE touched
  BY <1>2, <1>4, <1>5 DEF UpdateJob
<1>7. touched \subseteq touched' /\ (j \notin touched' => j \notin touched)
  BY <1>6
<1>8. /\ Good(j, p)' /\ p.present /\ p.enabled = enabled /\ p.running = r.running
      /\ p.end = r.end /\ p.errors = r.errors /\ p.next > 0 /\ p.next \in Nat
      /\ s = Never => p.schedule = r.schedule /\ p.next = r.next
      /\ s # Never => p.schedule = s
  <2>1. now \in Nat /\ now' = now /\ removed' = removed /\ touched \subseteq touched'
    BY <1>1, <1>7, JobFacts
  <2>2. Good(j, r) /\ r.present
    BY <1>3
  <2>3. replanned' = IF s = Never THEN replanned ELSE replanned \cup {j}
    BY <1>1
  <2>4. Good(j, p)'
    BY <1>4, <2>1, <2>2, <2>3, PatchedGood
  <2>5. /\ p.present /\ p.enabled = enabled /\ p.running = r.running
        /\ p.end = r.end /\ p.errors = r.errors /\ p.next > 0 /\ p.next \in Nat
        /\ s = Never => p.schedule = r.schedule /\ p.next = r.next
        /\ s # Never => p.schedule = s
    BY <1>4, <2>1, <2>2, <2>3, PatchedGood
  <2> QED BY <2>4, <2>5
<1>9. p \in Record
  BY <1>8 DEF Good
<1>10. /\ jobs' \in [Jobs -> Record] /\ jobs'[j] = p
       /\ \A i \in Jobs \ {j} : jobs'[i] = jobs[i]
  BY <1>6, <1>9, TableChange
<1>11. Histories
  BY <1>1, <1>6, <1>7, JobFacts DEF Histories, SaveFails, Saved
<1>12. Good(j, jobs[j])'
  BY <1>8, <1>10 DEF Good
<1>13. started' \in [Jobs -> Nat] /\ executing' \in [Jobs -> Nat]
  BY <1>1 DEF CronInv, CronTypeOK
<1>14. \/ jobsFile' = jobsFile /\ removed' = removed
       \/ \E table : /\ jobsFile' = FileOf(table) /\ Good(j, table[j])'
                     /\ \A i \in Jobs \ {j} : table[i] = jobs[i]
  <2>1. PICK table : table = jobs'
    OBVIOUS
  <2>2. Good(j, table[j])' /\ \A i \in Jobs \ {j} : table[i] = jobs[i]
    BY <1>8, <1>10, <2>1 DEF Good
  <2>3. jobsFile' = jobsFile \/ jobsFile' = FileOf(table)
    BY <1>6, <2>1 DEF SaveFails, Saved, FileOf
  <2> QED BY <1>1, <2>2, <2>3
<1>15. /\ TimersOf(j) /\ loose'[j] = loose[j]
       /\ timer'[j] = timer[j] \/ timer'[j] = IF enabled THEN p.next ELSE Never
       /\ changed /\ Valid(p.schedule) =>
              faults' # 0 \/ timer'[j] = IF enabled THEN p.next ELSE Never
  <2>1. CASE UNCHANGED timerVars /\ ((s # Never /\ ~Valid(s)) \/ SaveFails \/ ~changed)
    <3>1. SaveFails => faults' # 0
      BY JobFacts DEF SaveFails
    <3> QED BY <1>8, <2>1, <3>1, Unmoved
  <2>2. CASE Rearm(j, p)
    <3>1. PICK d \in Nat \cup {Never} : d = IF enabled THEN p.next ELSE Never
      BY <1>8
    <3>2. timer' = [timer EXCEPT ![j] = d] /\ UNCHANGED loose
      BY <1>8, <2>2, <3>1 DEF Rearm, CancelJob, Cancelled
    <3> QED BY <3>1, <3>2, Moved
  <2> QED BY <1>6, <2>1, <2>2
<1>16. \A i \in Jobs \ {j} : Same(i)
  BY <1>1, <1>10, <1>15 DEF Same, TimersOf
<1>17. JobInv(j)'
  <2>1. RunInv(j)'
    BY <1>1, <1>2, <1>8, <1>10, JobFacts DEF RunInv
  <2>2. TriggerInv(j)'
    <3>1. j \notin touched' /\ timer'[j] # Never /\ timer'[j] # timer[j] =>
              started[j] = 0 /\ executing[j] = 0
      <4> SUFFICES ASSUME j \notin touched', timer'[j] # Never, timer'[j] # timer[j]
                   PROVE  started[j] = 0 /\ executing[j] = 0
        OBVIOUS
      <4>1. enabled /\ timerVars' # timerVars
        BY <1>15 DEF timerVars
      <4>2. ~(changed /\ enabled /\ started[j] + executing[j] > 0)
        BY <1>6, <4>1 DEF SaveFails
      <4>3. changed
        BY <1>6, <4>1
      <4> QED BY <4>1, <4>2, <4>3, JobFacts
    <3>2. faults' = 0 /\ enabled /\ Valid(p.schedule) =>
              \/ timer'[j] # Never
              \/ /\ timer'[j] = timer[j] /\ r.enabled /\ Valid(r.schedule) /\ faults = 0
      BY <1>5, <1>8, <1>11, <1>15, <1>3, ScheduleAssumption, JobFacts DEF Histories
    <3>3. service' = "started" /\ faults' = 0 /\ p.present /\ p.enabled /\ Valid(p.schedule) =>
              p.running \/ timer'[j] # Never \/ started'[j] > 0
      BY <1>1, <1>2, <1>3, <1>8, <3>2, JobFacts DEF TriggerInv
    <3>4. j \notin touched' =>
              /\ loose'[j] = EmptyBag
              /\ timer'[j] = Never \/ (started'[j] = 0 /\ executing'[j] = 0)
              /\ started'[j] + executing'[j] <= 1
      BY <1>1, <1>7, <1>15, <3>1, JobFacts DEF TriggerInv
    <3> QED BY <1>1, <1>10, <3>3, <3>4 DEF TriggerInv
  <2>3. BackoffInv(j)'
    <3>1. j \notin replanned' => s = Never
      BY <1>1
    <3>2. j \notin touched' \cup replanned' => j \notin touched \cup replanned
      BY <1>1, <1>7
    <3>3. j \notin touched' \cup replanned' /\ timer'[j] # Never => timer'[j] = p.next
      BY <1>2, <1>8, <1>15, <3>1, <3>2, JobFacts DEF BackoffInv
    <3>4. j \notin touched' \cup replanned' /\ started'[j] > 0 =>
              now' >= p.end + Pause(p.schedule, p.errors)
      BY <1>1, <1>2, <1>8, <3>1, <3>2, JobFacts DEF BackoffInv
    <3>5. BackoffInv(j)' = (j \notin touched' \cup replanned' =>
              /\ timer'[j] # Never => timer'[j] = p.next
              /\ started'[j] > 0 => now' >= p.end + Pause(p.schedule, p.errors))
      BY <1>10 DEF BackoffInv, Pause, Later, RetryBackoff, Recurring
    <3> QED BY <3>3, <3>4, <3>5
  <2> QED BY <2>1, <2>2, <2>3 DEF JobInv
<1> QED BY <1>1, <1>10, <1>11, <1>12, <1>13, <1>14, <1>15, <1>16, <1>17, JobStep DEF TimersOf

\* A removal that is saved is one for good.
LEMMA RemoveStep ==
    ASSUME CronInv, NEW j \in Jobs, RemoveJob(j)
    PROVE  CronInv'
<1>1. /\ UNCHANGED <<now, service, started, executing, touched, replanned, late, restarts>>
      /\ timer' = [timer EXCEPT ![j] = Never] /\ UNCHANGED loose
      /\ service # "stopped"
  BY DEF RemoveJob, CronOperation, runVars, CancelJob, Cancelled
<1>2. PICK p : p = [jobs[j] EXCEPT !.present = FALSE]
  OBVIOUS
<1>3. /\ jobs[j].present /\ jobs' = [jobs EXCEPT ![j] = p]
      /\ \/ Saved([jobs EXCEPT ![j] = p]) /\ removed' = removed \cup {j}
         \/ SaveFails /\ UNCHANGED removed
  BY <1>2 DEF RemoveJob
<1>4. /\ p \in Record /\ ~p.present /\ p.running = jobs[j].running /\ p.next = jobs[j].next
      /\ p.end = jobs[j].end /\ p.errors = jobs[j].errors /\ p.schedule = jobs[j].schedule
  BY <1>2, JobFacts DEF Record
<1>5. /\ jobs' \in [Jobs -> Record] /\ jobs'[j] = p
      /\ \A i \in Jobs \ {j} : jobs'[i] = jobs[i]
  BY <1>3, <1>4, TableChange
<1>6. Histories
  BY <1>1, <1>3, JobFacts DEF Histories, SaveFails, Saved
<1>7. Good(j, p)'
  BY <1>1, <1>4, JobFacts DEF Good
<1>8. Good(j, jobs[j])'
  BY <1>5, <1>7 DEF Good
<1>9. \/ jobsFile' = jobsFile /\ removed' = removed
      \/ \E table : /\ jobsFile' = FileOf(table) /\ Good(j, table[j])'
                    /\ \A i \in Jobs \ {j} : table[i] = jobs[i]
  <2>1. PICK table : table = jobs'
    OBVIOUS
  <2>2. Good(j, table[j])' /\ \A i \in Jobs \ {j} : table[i] = jobs[i]
    BY <1>5, <1>7, <2>1 DEF Good
  <2>3. (jobsFile' = jobsFile /\ removed' = removed) \/ jobsFile' = FileOf(table)
    BY <1>3, <2>1 DEF SaveFails, Saved, FileOf
  <2> QED BY <2>2, <2>3
<1>10. TimersOf(j) /\ timer'[j] = Never /\ loose'[j] = loose[j]
  BY <1>1, Moved
<1>11. \A i \in Jobs \ {j} : Same(i)
  BY <1>1, <1>5, <1>10 DEF Same, TimersOf
<1>12. started' \in [Jobs -> Nat] /\ executing' \in [Jobs -> Nat]
  BY <1>1 DEF CronInv, CronTypeOK
<1>13. JobInv(j)'
  <2>1. jobs[j].next > 0
    BY <1>3, JobFacts DEF Good
  <2>2. RunInv(j)'
    BY <1>1, <1>4, <1>5, <2>1, JobFacts DEF RunInv
  <2>3. TriggerInv(j)'
    BY <1>1, <1>4, <1>5, <1>10, JobFacts DEF TriggerInv
  <2>4. BackoffInv(j)'
    BY <1>1, <1>4, <1>5, <1>10, JobFacts DEF BackoffInv, Pause, Later, RetryBackoff, Recurring
  <2> QED BY <2>2, <2>3, <2>4 DEF JobInv
<1>14. removed \subseteq removed' /\ removed' \subseteq removed \cup {j}
  BY <1>3
<1> QED BY <1>5, <1>6, <1>8, <1>9, <1>10, <1>11, <1>12, <1>13, <1>14, JobStep DEF TimersOf

\* A step of timers and goroutines only.
LEMMA TriggerStep ==
    ASSUME CronInv, NEW j \in Jobs, Histories, UNCHANGED <<jobs, jobsFile, removed>>,
           TimersOf(j), started' \in [Jobs -> Nat], executing' \in [Jobs -> Nat],
           \A i \in Jobs \ {j} : started'[i] = started[i] /\ executing'[i] = executing[i],
           now' = now, JobInv(j)'
    PROVE  CronInv'
<1>1. \A i \in Jobs \ {j} : Same(i)
  BY DEF Same, TimersOf
<1>2. Good(j, jobs[j])'
  <2>1. PICK r : r = jobs[j]
    OBVIOUS
  <2>2. Good(j, r)'
    BY <2>1, JobFacts, GoodStays DEF Histories
  <2> QED BY <2>1, <2>2 DEF Good
<1>3. jobs' \in [Jobs -> Record]
  BY DEF CronInv, CronTypeOK
<1> QED BY <1>1, <1>2, <1>3, JobStep DEF TimersOf

\* One goroutine more or less.
LEMMA StartedChange ==
    ASSUME CronInv, NEW j \in Jobs, NEW n \in Nat, started' = [started EXCEPT ![j] = n]
    PROVE  /\ started' \in [Jobs -> Nat] /\ started'[j] = n
           /\ \A i \in Jobs \ {j} : started'[i] = started[i]
  BY DEF CronInv, CronTypeOK

\* One job has another number of runs.
LEMMA ExecutingChange ==
    ASSUME CronInv, NEW j \in Jobs, NEW n \in Nat, executing' = [executing EXCEPT ![j] = n]
    PROVE  /\ executing' \in [Jobs -> Nat] /\ executing'[j] = n
           /\ \A i \in Jobs \ {j} : executing'[i] = executing[i]
  BY DEF CronInv, CronTypeOK

\* A run by hand.
LEMMA RunStep ==
    ASSUME CronInv, NEW j \in Jobs, NEW mode, RunJob(j, mode)
    PROVE  CronInv'
<1>1. /\ UNCHANGED <<now, service, jobs, jobsFile, executing, faults, removed, replanned>>
      /\ UNCHANGED <<late, restarts>> /\ UNCHANGED timerVars
      /\ touched' = touched \cup {j} /\ started' = [started EXCEPT ![j] = started[j] + 1]
      /\ jobs[j].present
  BY DEF RunJob, CronOperation, tableVars
<1>2. PICK n \in Nat : n = started[j] + 1
  BY JobFacts
<1>3. /\ started' \in [Jobs -> Nat] /\ started'[j] = n
      /\ \A i \in Jobs \ {j} : started'[i] = started[i]
  BY <1>1, <1>2, StartedChange
<1>4. TimersOf(j) /\ timer'[j] = timer[j] /\ loose'[j] = loose[j]
  BY <1>1, Unmoved
<1>5. Histories
  BY <1>1, JobFacts DEF Histories
<1>6. jobs[j].next > 0
  BY <1>1, JobFacts DEF Good
<1>7. JobInv(j)'
  BY <1>1, <1>2, <1>3, <1>4, <1>6, JobFacts DEF JobInv, RunInv, TriggerInv, BackoffInv
<1>8. executing' \in [Jobs -> Nat]
  BY <1>1 DEF CronInv, CronTypeOK
<1> QED BY <1>1, <1>3, <1>4, <1>5, <1>7, <1>8, TriggerStep

\* A timer that fires starts a goroutine, after the backoff.
LEMMA FireStep ==
    ASSUME CronInv, NEW j \in Jobs, Fire(j)
    PROVE  CronInv'
<1>1. /\ UNCHANGED <<now, service, jobs, jobsFile, executing, faults, removed, replanned>>
      /\ UNCHANGED <<late, restarts, touched>> /\ UNCHANGED loose
      /\ started' = [started EXCEPT ![j] = started[j] + 1]
      /\ timer' = [timer EXCEPT ![j] = Never] /\ timer[j] # Never /\ timer[j] <= now
  BY DEF Fire, tableVars, countVars, cronHistory
<1>2. PICK n \in Nat : n = started[j] + 1
  BY JobFacts
<1>3. /\ started' \in [Jobs -> Nat] /\ started'[j] = n
      /\ \A i \in Jobs \ {j} : started'[i] = started[i]
  BY <1>1, <1>2, StartedChange
<1>4. TimersOf(j) /\ timer'[j] = Never /\ loose'[j] = loose[j]
  BY <1>1, Moved
<1>5. Histories
  BY <1>1, JobFacts DEF Histories
<1>6. jobs[j].next > 0
  BY <1>1, JobFacts DEF RunInv, Untriggered
<1>7. RunInv(j)'
  BY <1>1, <1>6 , JobFacts DEF RunInv
<1>8. TriggerInv(j)'
  BY <1>1, <1>2, <1>3, <1>4, JobFacts DEF TriggerInv, Untriggered
<1>9. BackoffInv(j)'
  <2>1. PICK b \in Nat : b = Pause(jobs[j].schedule, jobs[j].errors)
    BY JobFacts
  <2>2. j \notin touched \cup replanned => now >= jobs[j].end + b
    BY <1>1, <1>6, <2>1, JobFacts DEF BackoffInv, Good
  <2> QED BY <1>1, <1>4, <2>1, <2>2 DEF BackoffInv, Pause, Later, RetryBackoff, Recurring
<1>10. executing' \in [Jobs -> Nat]
  BY <1>1 DEF CronInv, CronTypeOK
<1> QED BY <1>1, <1>3, <1>4, <1>5, <1>7, <1>8, <1>9, <1>10, TriggerStep DEF JobInv

\* So does a loose timer, which only a job somebody interfered with has.
LEMMA FireLooseStep ==
    ASSUME CronInv, NEW j \in Jobs, FireLoose(j)
    PROVE  CronInv'
<1>1. /\ UNCHANGED <<now, service, jobs, jobsFile, executing, faults, removed, replanned>>
      /\ UNCHANGED <<late, restarts, touched>> /\ UNCHANGED timer
      /\ started' = [started EXCEPT ![j] = started[j] + 1]
  BY DEF FireLoose, tableVars, countVars, cronHistory
<1>2. PICK n \in Nat : n = started[j] + 1
  BY JobFacts
<1>3. /\ started' \in [Jobs -> Nat] /\ started'[j] = n
      /\ \A i \in Jobs \ {j} : started'[i] = started[i]
  BY <1>1, <1>2, StartedChange
<1>4. PICK d \in BagToSet(loose[j]) : loose' = [loose EXCEPT ![j] = loose[j] (-) SetToBag({d})]
  BY DEF FireLoose
<1>5. IsABag(loose[j]) /\ BagToSet(loose[j]) \subseteq Nat /\ DOMAIN loose = Jobs
  BY DEF CronInv, CronTypeOK
<1>6. loose[j] # EmptyBag
  BY <1>4 DEF BagToSet, EmptyBag, SetToBag
<1>7. j \in touched /\ jobs[j].next > 0
  BY <1>6, JobFacts DEF TriggerInv, RunInv, Untriggered
<1>8. TimersOf(j)
  <2>1. PICK b : b = loose[j] (-) SetToBag({d})
    OBVIOUS
  <2>2. IsABag(b) /\ BagToSet(b) \subseteq Nat
    BY <1>5, <2>1, OneTimerLess
  <2>3. /\ DOMAIN loose' = Jobs /\ loose'[j] = b
        /\ \A i \in Jobs \ {j} : loose'[i] = loose[i]
    BY <1>4, <1>5, <2>1
  <2>4. timer' \in [Jobs -> Nat \cup {Never}]
    BY <1>1 DEF CronInv, CronTypeOK
  <2> QED BY <1>1, <2>2, <2>3, <2>4 DEF TimersOf
<1>9. Histories
  BY <1>1, JobFacts DEF Histories
<1>10. JobInv(j)'
  BY <1>1, <1>2, <1>3, <1>7, JobFacts DEF JobInv, RunInv, TriggerInv, BackoffInv
<1>11. executing' \in [Jobs -> Nat]
  BY <1>1 DEF CronInv, CronTypeOK
<1> QED BY <1>1, <1>3, <1>8, <1>9, <1>10, <1>11, TriggerStep

\* executeJob marks the job as running.
LEMMA ExecuteStep ==
    ASSUME CronInv, NEW j \in Jobs, Execute(j)
    PROVE  CronInv'
<1>1. /\ UNCHANGED <<now, service, jobsFile, faults, removed, replanned, late, restarts>>
      /\ UNCHANGED touched /\ UNCHANGED timerVars
      /\ started' = [started EXCEPT ![j] = started[j] - 1]
      /\ executing' = [executing EXCEPT ![j] = executing[j] + 1]
      /\ started[j] > 0 /\ jobs[j].present /\ ~jobs[j].running
  BY DEF Execute, countVars, cronHistory
<1>2. PICK p : p = [jobs[j] EXCEPT !.running = TRUE]
  OBVIOUS
<1>3. jobs' = [jobs EXCEPT ![j] = p]
  BY <1>2 DEF Execute
<1>4. /\ p \in Record /\ p.present = jobs[j].present /\ p.running = TRUE
      /\ p.next = jobs[j].next /\ p.end = jobs[j].end /\ p.errors = jobs[j].errors
      /\ p.schedule = jobs[j].schedule
  BY <1>2, JobFacts DEF Record
<1>5. /\ jobs' \in [Jobs -> Record] /\ jobs'[j] = p
      /\ \A i \in Jobs \ {j} : jobs'[i] = jobs[i]
  BY <1>3, <1>4, TableChange
<1>6. PICK n \in Nat : n = started[j] - 1
  BY <1>1, JobFacts
<1>7. /\ started' \in [Jobs -> Nat] /\ started'[j] = n
      /\ \A i \in Jobs \ {j} : started'[i] = started[i]
  BY <1>1, <1>6, StartedChange
<1>8. executing[j] = 0
  BY <1>1, JobFacts DEF RunInv
<1>9. /\ executing' \in [Jobs -> Nat] /\ executing'[j] = 1
      /\ \A i \in Jobs \ {j} : executing'[i] = executing[i]
  <2>1. executing' = [executing EXCEPT ![j] = 1]
    BY <1>1, <1>8
  <2> QED BY <2>1, ExecutingChange
<1>10. TimersOf(j) /\ timer'[j] = timer[j] /\ loose'[j] = loose[j]
  BY <1>1, Unmoved
<1>11. Histories
  BY <1>1, JobFacts DEF Histories
<1>12. \A i \in Jobs \ {j} : Same(i)
  BY <1>5, <1>7, <1>9, <1>10 DEF Same, TimersOf
<1>13. Good(j, p)'
  BY <1>1, <1>4, JobFacts DEF Good
<1>14. Good(j, jobs[j])'
  BY <1>5, <1>13 DEF Good
<1>15. JobInv(j)'
  <2>1. jobs[j].next > 0
    BY <1>1, JobFacts DEF Good
  <2>2. RunInv(j)'
    BY <1>4, <1>5, <1>9, <2>1, JobFacts DEF RunInv
  <2>3. TriggerInv(j)'
    BY <1>1, <1>4, <1>5, <1>6, <1>7, <1>8, <1>9, <1>10, JobFacts DEF TriggerInv, Untriggered
  <2>4. BackoffInv(j)'
    BY <1>1, <1>4, <1>5, <1>6, <1>7, <1>10, JobFacts, ZenonT(60)
       DEF BackoffInv, Pause, Later, RetryBackoff, Recurring
  <2> QED BY <2>2, <2>3, <2>4 DEF JobInv
<1> QED BY <1>1, <1>5, <1>7, <1>9, <1>10, <1>11, <1>12, <1>14, <1>15, JobStep DEF TimersOf

\* A goroutine that finds nothing to do ends.
LEMMA SkipStep ==
    ASSUME CronInv, NEW j \in Jobs, Skip(j)
    PROVE  CronInv'
<1>1. /\ UNCHANGED <<now, service, jobs, jobsFile, executing, faults, removed, replanned>>
      /\ UNCHANGED <<late, restarts, touched>> /\ UNCHANGED timerVars
      /\ started' = [started EXCEPT ![j] = started[j] - 1]
      /\ started[j] > 0 /\ ~(jobs[j].present /\ ~jobs[j].running)
  BY DEF Skip, tableVars, countVars, cronHistory
<1>2. PICK n \in Nat : n = started[j] - 1
  BY <1>1, JobFacts
<1>3. /\ started' \in [Jobs -> Nat] /\ started'[j] = n
      /\ \A i \in Jobs \ {j} : started'[i] = started[i]
  BY <1>1, <1>2, StartedChange
<1>4. TimersOf(j) /\ timer'[j] = timer[j] /\ loose'[j] = loose[j]
  BY <1>1, Unmoved
<1>5. Histories
  BY <1>1, JobFacts DEF Histories
<1>6. RunInv(j)'
  BY <1>1, <1>2, <1>3, <1>4, JobFacts DEF RunInv, Untriggered
<1>7. TriggerInv(j)'
  BY <1>1, <1>2, <1>3, <1>4, JobFacts DEF TriggerInv, Untriggered
<1>8. BackoffInv(j)'
  BY <1>1, <1>2, <1>3, <1>4, JobFacts DEF BackoffInv, Pause, Later, RetryBackoff, Recurring
<1>9. executing' \in [Jobs -> Nat]
  BY <1>1 DEF CronInv, CronTypeOK
<1> QED BY <1>1, <1>3, <1>4, <1>5, <1>6, <1>7, <1>8, <1>9, TriggerStep DEF JobInv

\* A run that ends arms the timer again, for a job that stays.
LEMMA FinishStep ==
    ASSUME CronInv, NEW j \in Jobs, NEW failed \in BOOLEAN, FinishRun(j, failed)
    PROVE  CronInv'
<1>1. /\ UNCHANGED <<now, service, started, removed, replanned, late, restarts, touched>>
      /\ executing' = [executing EXCEPT ![j] = executing[j] - 1] /\ executing[j] > 0
  BY DEF FinishRun, cronHistory
<1>2. PICK r : r = jobs[j]
  OBVIOUS
<1>3. PICK a : a = AfterRun(r, failed)
  OBVIOUS
<1>4. /\ jobs' = [jobs EXCEPT ![j] = a] /\ Persist([jobs EXCEPT ![j] = a])
      /\ IF a.enabled /\ Valid(a.schedule) THEN ScheduleJob(j, a.next) ELSE UNCHANGED timerVars
  BY <1>2, <1>3 DEF FinishRun
<1>5. Good(j, r) /\ r.next > 0 /\ r.running /\ executing[j] = 1
  BY <1>1, <1>2, JobFacts DEF RunInv, Untriggered
<1>6. /\ Good(j, a) /\ a.present = r.present /\ a.enabled = r.enabled /\ ~a.running
      /\ a.schedule = r.schedule /\ a.next > 0 /\ a.next \in Nat
  <2>1. now \in Nat
    BY JobFacts
  <2> QED BY <1>3, <1>5, <2>1, AfterRunGood
<1>7. a \in Record
  BY <1>6 DEF Good
<1>8. /\ jobs' \in [Jobs -> Record] /\ jobs'[j] = a
      /\ \A i \in Jobs \ {j} : jobs'[i] = jobs[i]
  BY <1>4, <1>7, TableChange
<1>9. /\ executing' \in [Jobs -> Nat] /\ executing'[j] = 0
      /\ \A i \in Jobs \ {j} : executing'[i] = executing[i]
  <2>1. executing' = [executing EXCEPT ![j] = 0]
    BY <1>1, <1>5
  <2> QED BY <2>1, ExecutingChange
<1>10. Histories
  BY <1>1, <1>4, JobFacts DEF Histories, Persist, SaveFails, Saved
<1>11. /\ TimersOf(j)
       /\ timer[j] = Never => loose'[j] = loose[j]
       /\ IF a.enabled /\ Valid(a.schedule) THEN timer'[j] = a.next
          ELSE timer'[j] = timer[j] /\ loose'[j] = loose[j]
  BY <1>4, <1>6, Scheduled, Unmoved
<1>12. \A i \in Jobs \ {j} : Same(i)
  BY <1>1, <1>8, <1>9, <1>11 DEF Same, TimersOf
<1>13. Good(j, a)'
  BY <1>1, <1>6 DEF Good
<1>14. Good(j, jobs[j])'
  BY <1>8, <1>13 DEF Good
<1>15. \/ jobsFile' = jobsFile /\ removed' = removed
       \/ \E table : /\ jobsFile' = FileOf(table) /\ Good(j, table[j])'
                     /\ \A i \in Jobs \ {j} : table[i] = jobs[i]
  <2>1. PICK table : table = jobs'
    OBVIOUS
  <2>2. Good(j, table[j])' /\ \A i \in Jobs \ {j} : table[i] = jobs[i]
    BY <1>8, <1>13, <2>1 DEF Good
  <2>3. jobsFile' = jobsFile \/ jobsFile' = FileOf(table)
    BY <1>4, <2>1 DEF Persist, SaveFails, Saved, FileOf
  <2> QED BY <1>1, <2>2, <2>3
<1>16. JobInv(j)'
  <2>1. RunInv(j)'
    BY <1>6, <1>8, <1>9, JobFacts DEF RunInv
  <2>2. j \notin touched => timer[j] = Never /\ started[j] = 0 /\ loose[j] = EmptyBag
    BY <1>5, JobFacts DEF TriggerInv
  <2>3. TriggerInv(j)'
    BY <1>1, <1>2, <1>5, <1>6, <1>8, <1>9, <1>11, <2>2, JobFacts DEF TriggerInv, Untriggered
  <2>4. BackoffInv(j)'
    BY <1>1, <1>8, <1>11, <2>2, JobFacts DEF BackoffInv
  <2> QED BY <2>1, <2>3, <2>4 DEF JobInv
<1>17. started' \in [Jobs -> Nat]
  BY <1>1 DEF CronInv, CronTypeOK
<1> QED BY <1>1, <1>8, <1>9, <1>10, <1>11, <1>12, <1>14, <1>15, <1>16, <1>17, JobStep DEF TimersOf

\* The last run of a job that is deleted after it.
LEMMA FinishLastStep ==
    ASSUME CronInv, NEW j \in Jobs, FinishLastRun(j)
    PROVE  CronInv'
<1>1. /\ UNCHANGED <<now, service, started, replanned, late, restarts, touched>>
      /\ executing' = [executing EXCEPT ![j] = executing[j] - 1] /\ executing[j] > 0
      /\ timer' = [timer EXCEPT ![j] = Never] /\ UNCHANGED loose
  BY DEF FinishLastRun, CancelJob, Cancelled
<1>2. PICK r : r = jobs[j]
  OBVIOUS
<1>3. PICK a : a = AfterRun(r, FALSE)
  OBVIOUS
<1>4. Good(j, r) /\ r.next > 0 /\ r.running /\ executing[j] = 1
  BY <1>1, <1>2, JobFacts DEF RunInv, Untriggered
<1>5. Good(j, a) /\ a.present = r.present /\ ~a.running /\ a.next > 0 /\ a.next \in Nat
  <2>1. now \in Nat
    BY JobFacts
  <2> QED BY <1>3, <1>4, <2>1, AfterRunGood
<1>6. PICK p : p = [a EXCEPT !.present = FALSE]
  OBVIOUS
<1>7. /\ p \in Record /\ ~p.present /\ ~p.running /\ p.next = a.next /\ p.end = a.end
      /\ p.errors = a.errors /\ p.schedule = a.schedule
  BY <1>5, <1>6 DEF Record, Good
<1>8. PICK table : table = [jobs EXCEPT ![j] = a]
  OBVIOUS
<1>9. table[j] = a /\ \A i \in Jobs \ {j} : table[i] = jobs[i]
  BY <1>8 DEF CronInv, CronTypeOK
<1>10. PICK without : without = [jobs EXCEPT ![j] = p]
  OBVIOUS
<1>11. without = [table EXCEPT ![j].present = FALSE]
  BY <1>6, <1>8, <1>9, <1>10 DEF CronInv, CronTypeOK
<1>12. /\ jobs' = without
       /\ \/ Saved(without) /\ removed' = removed \cup {j}
          \/ /\ faults' = faults + 1 /\ UNCHANGED removed
             /\ UNCHANGED jobsFile \/ jobsFile' = FileOf(table)
  BY <1>2, <1>3, <1>8, <1>11 DEF FinishLastRun, FileOf
<1>13. /\ jobs' \in [Jobs -> Record] /\ jobs'[j] = p
       /\ \A i \in Jobs \ {j} : jobs'[i] = jobs[i]
  BY <1>7, <1>10, <1>12, TableChange
<1>14. /\ executing' \in [Jobs -> Nat] /\ executing'[j] = 0
       /\ \A i \in Jobs \ {j} : executing'[i] = executing[i]
  <2>1. executing' = [executing EXCEPT ![j] = 0]
    BY <1>1, <1>4
  <2> QED BY <2>1, ExecutingChange
<1>15. Histories
  BY <1>1, <1>12, JobFacts DEF Histories, Saved
<1>16. TimersOf(j) /\ timer'[j] = Never /\ loose'[j] = loose[j]
  BY <1>1, Moved
<1>17. \A i \in Jobs \ {j} : Same(i)
  BY <1>1, <1>13, <1>14, <1>16 DEF Same, TimersOf
<1>18. Good(j, p)'
  BY <1>1, <1>5, <1>7 DEF Good
<1>19. Good(j, jobs[j])'
  BY <1>13, <1>18 DEF Good
<1>20. removed' = removed => Good(j, a)'
  BY <1>1, <1>5 DEF Good
<1>21. \/ jobsFile' = jobsFile /\ removed' = removed
       \/ \E t : /\ jobsFile' = FileOf(t) /\ Good(j, t[j])'
                 /\ \A i \in Jobs \ {j} : t[i] = jobs[i]
  <2>1. CASE Saved(without) /\ removed' = removed \cup {j}
    <3>1. without[j] = p /\ \A i \in Jobs \ {j} : without[i] = jobs[i]
      BY <1>12, <1>13
    <3>2. Good(j, without[j])'
      BY <1>18, <3>1 DEF Good
    <3>3. jobsFile' = FileOf(without)
      BY <2>1 DEF Saved, FileOf
    <3> QED BY <3>1, <3>2, <3>3
  <2>2. CASE removed' = removed /\ jobsFile' = FileOf(table)
    <3>1. Good(j, table[j])'
      BY <1>9, <1>20, <2>2 DEF Good
    <3> QED BY <1>9, <2>2, <3>1
  <2> QED BY <1>12, <2>1, <2>2
<1>22. JobInv(j)'
  <2>1. RunInv(j)'
    BY <1>5, <1>7, <1>13, <1>14, JobFacts DEF RunInv
  <2>2. j \notin touched => started[j] = 0 /\ loose[j] = EmptyBag
    BY <1>4, JobFacts DEF TriggerInv
  <2>3. TriggerInv(j)'
    BY <1>1, <1>4, <1>7, <1>13, <1>14, <1>16, <2>2, JobFacts DEF TriggerInv, Untriggered
  <2>4. BackoffInv(j)'
    BY <1>1, <1>16, <2>2, JobFacts DEF BackoffInv
  <2> QED BY <2>1, <2>3, <2>4 DEF JobInv
<1>23. removed \subseteq removed' /\ removed' \subseteq removed \cup {j}
  BY <1>12
<1>24. started' \in [Jobs -> Nat]
  BY <1>1 DEF CronInv, CronTypeOK
<1> QED BY <1>13, <1>14, <1>15, <1>16, <1>17, <1>19, <1>21, <1>22, <1>23, <1>24, JobStep
        DEF TimersOf

-----------------------------------------------------------------------------
\* A step of the whole table, that leaves the records alone.
LEMMA TableStays ==
    ASSUME CronInv, now' = now, removed' = removed, touched \subseteq touched',
           replanned' = replanned, jobs' = jobs, jobsFile' = jobsFile \/ jobsFile' = FileOf(jobs)
    PROVE  /\ jobs' \in [Jobs -> Record] /\ jobsFile' \in [Jobs -> Record]
           /\ \A i \in Jobs : Good(i, jobs[i])' /\ Good(i, jobsFile[i])'
<1>1. now \in Nat /\ now' \in Nat
  BY CronBoundsAssumption DEF CronInv, CronTypeOK
<1>2. ASSUME NEW i \in Jobs, NEW r, Good(i, r) PROVE Good(i, r)'
  BY <1>1, <1>2, GoodStays
<1>3. PICK table : table = jobs
  OBVIOUS
<1>4. \A i \in Jobs : Good(i, table[i])'
  BY <1>2, <1>3 DEF CronInv
<1>5. PICK before : before = jobsFile
  OBVIOUS
<1>6. \A i \in Jobs : Good(i, before[i])'
  BY <1>2, <1>5 DEF CronInv
<1>7. FileOf(table) \in [Jobs -> Record] /\ \A i \in Jobs : Good(i, FileOf(table)[i])'
  BY <1>1, <1>4, FileGood
<1>8. \A i \in Jobs : Good(i, jobs[i])'
  BY <1>3, <1>4 DEF Good
<1>9. jobsFile' = before \/ jobsFile' = FileOf(table)
  BY <1>3, <1>5
<1>10. \A i \in Jobs : Good(i, jobsFile[i])'
  BY <1>6, <1>7, <1>9 DEF Good, FileOf, NoRecord
<1> QED BY <1>7, <1>8, <1>9, <1>10, <1>3, <1>5 DEF CronInv, CronTypeOK

\* Start arms a timer for every enabled job, whatever else is armed.
LEMMA StartStep == ASSUME CronInv, Start PROVE CronInv'
<1>1. /\ UNCHANGED <<now, jobs, jobsFile, started, executing, removed, replanned, late>>
      /\ UNCHANGED <<faults, restarts>> /\ service = "new" /\ service' = "started"
  BY DEF Start, runVars, countVars
<1>2. PICK Enabled : Enabled = {j \in Jobs : jobs[j].present /\ jobs[j].enabled}
  OBVIOUS
<1>3. /\ timer' = [j \in Jobs |-> IF j \in Enabled THEN jobs[j].next ELSE timer[j]]
      /\ loose' = [j \in Jobs |-> IF j \in Enabled /\ timer[j] # Never
                                  THEN loose[j] (+) SetToBag({timer[j]}) ELSE loose[j]]
      /\ touched \subseteq touched'
      /\ \A j \in Enabled : timer[j] # Never \/ started[j] + executing[j] > 0 =>
             j \in touched'
  BY <1>2 DEF Start
<1>4. /\ jobs' \in [Jobs -> Record] /\ jobsFile' \in [Jobs -> Record]
      /\ \A i \in Jobs : Good(i, jobs[i])' /\ Good(i, jobsFile[i])'
  BY <1>1, <1>3, TableStays
<1>5. timer' \in [Jobs -> Nat \cup {Never}] /\ DOMAIN loose' = Jobs
  <2>1. \A j \in Jobs : jobs[j].next \in Nat /\ timer[j] \in Nat \cup {Never}
    BY JobFacts
  <2> QED BY <1>3, <2>1
<1>6. \A j \in Jobs : IsABag(loose'[j]) /\ BagToSet(loose'[j]) \subseteq Nat
  <2> SUFFICES ASSUME NEW j \in Jobs
               PROVE  IsABag(loose'[j]) /\ BagToSet(loose'[j]) \subseteq Nat
    OBVIOUS
  <2>1. IsABag(loose[j]) /\ BagToSet(loose[j]) \subseteq Nat
    BY DEF CronInv, CronTypeOK
  <2>2. CASE j \in Enabled /\ timer[j] # Never
    <3>1. PICK d \in Nat : d = timer[j]
      BY <2>2, JobFacts
    <3>2. PICK b : b = loose[j] (+) SetToBag({d})
      OBVIOUS
    <3>3. IsABag(b) /\ BagToSet(b) \subseteq Nat
      BY <2>1, <3>2, OneTimerMore
    <3>4. loose'[j] = b
      BY <1>3, <2>2, <3>1, <3>2
    <3> QED BY <3>3, <3>4
  <2>3. CASE ~(j \in Enabled /\ timer[j] # Never)
    BY <1>3, <2>1, <2>3
  <2> QED BY <2>2, <2>3
<1>7. CronTypeOK' /\ restarts' \in Nat /\ faults' \in Nat /\ removed' \subseteq Jobs
  BY <1>1, <1>4, <1>5, <1>6 DEF CronInv, CronTypeOK
<1>8. ASSUME NEW j \in Jobs PROVE JobInv(j)'
  <2>1. CASE j \in Enabled
    <3>1. jobs[j].present /\ jobs[j].enabled /\ jobs[j].next > 0 /\ timer'[j] = jobs[j].next
      BY <1>2, <1>3, <2>1, JobFacts DEF Good
    <3>2. j \notin touched' =>
              /\ timer[j] = Never /\ started[j] = 0 /\ executing[j] = 0
              /\ loose[j] = EmptyBag /\ loose'[j] = EmptyBag
      <4> SUFFICES ASSUME j \notin touched'
                   PROVE  /\ timer[j] = Never /\ started[j] = 0 /\ executing[j] = 0
                          /\ loose[j] = EmptyBag /\ loose'[j] = EmptyBag
        OBVIOUS
      <4>1. timer[j] = Never /\ ~(started[j] + executing[j] > 0) /\ loose'[j] = loose[j]
        BY <1>3, <2>1
      <4>2. loose[j] = EmptyBag
        BY <1>3, JobFacts DEF TriggerInv
      <4>3. started[j] = 0 /\ executing[j] = 0
        BY <4>1, JobFacts
      <4> QED BY <4>1, <4>2, <4>3
    <3>3. RunInv(j)'
      BY <1>1, <3>1, JobFacts DEF RunInv
    <3>4. TriggerInv(j)'
      BY <1>1, <3>1, <3>2, JobFacts DEF TriggerInv
    <3>5. BackoffInv(j)'
      BY <1>1, <3>1, <3>2 DEF BackoffInv
    <3> QED BY <3>3, <3>4, <3>5 DEF JobInv
  <2>2. CASE j \notin Enabled
    <3>1. timer'[j] = timer[j] /\ loose'[j] = loose[j] /\ ~(jobs[j].present /\ jobs[j].enabled)
      BY <1>2, <1>3, <2>2
    <3>2. RunInv(j)'
      BY <1>1, <3>1, JobFacts DEF RunInv, Untriggered
    <3>3. TriggerInv(j)'
      BY <1>1, <1>3, <3>1, JobFacts DEF TriggerInv
    <3>4. BackoffInv(j)'
      BY <1>1, <1>3, <3>1, JobFacts DEF BackoffInv, Pause, Later, RetryBackoff, Recurring
    <3> QED BY <3>2, <3>3, <3>4 DEF JobInv
  <2> QED BY <2>1, <2>2
<1> QED BY <1>4, <1>5, <1>7, <1>8 DEF CronInv

\* Stop lets every handle go, and keeps in late the jobs on their way.
LEMMA StopStep == ASSUME CronInv, Stop PROVE CronInv'
<1>1. /\ UNCHANGED <<now, jobs, loose, started, executing, removed, touched, replanned, restarts>>
      /\ service' = "stopped" /\ timer' = [j \in Jobs |-> Never]
      /\ late' = {j \in Jobs : started[j] + executing[j] > 0}
      /\ Persist(jobs)
  BY DEF Stop, CronOperation, runVars
<1>2. jobsFile' = jobsFile \/ jobsFile' = FileOf(jobs)
  BY <1>1 DEF Persist, Saved, SaveFails, FileOf
<1>3. faults' \in Nat
  BY <1>1 DEF Persist, Saved, SaveFails, CronInv
<1>4. /\ jobs' \in [Jobs -> Record] /\ jobsFile' \in [Jobs -> Record]
      /\ \A i \in Jobs : Good(i, jobs[i])' /\ Good(i, jobsFile[i])'
  BY <1>1, <1>2, TableStays
<1>5. CronTypeOK' /\ restarts' \in Nat /\ DOMAIN loose' = Jobs /\ removed' \subseteq Jobs
  BY <1>1, <1>4 DEF CronInv, CronTypeOK
<1>6. ASSUME NEW j \in Jobs PROVE JobInv(j)'
  <2>1. timer'[j] = Never
    BY <1>1
  <2>2. RunInv(j)'
    BY <1>1, <2>1, JobFacts DEF RunInv, Untriggered
  <2>3. j \notin late' => started[j] = 0 /\ executing[j] = 0
    BY <1>1, JobFacts
  <2>4. TriggerInv(j)'
    BY <1>1, <2>1, <2>3, JobFacts DEF TriggerInv, Untriggered
  <2>5. BackoffInv(j)'
    BY <1>1, <2>1, JobFacts DEF BackoffInv, Pause, Later, RetryBackoff, Recurring
  <2> QED BY <2>2, <2>4, <2>5 DEF JobInv
<1> QED BY <1>3, <1>4, <1>5, <1>6 DEF CronInv

\* Time passes.
LEMMA TickStep == ASSUME CronInv, Tick PROVE CronInv'
<1>1. /\ UNCHANGED <<service, jobs, jobsFile, timer, loose, started, executing>>
      /\ UNCHANGED <<faults, restarts, removed, touched, replanned, late>>
      /\ now < MaxTime /\ now' = now + 1
  BY DEF Tick, tableVars, timerVars, runVars, countVars, cronHistory
<1>2. now \in Nat /\ now' \in Nat /\ now' \in 0..MaxTime
  BY <1>1, CronBoundsAssumption DEF CronInv, CronTypeOK
<1>3. Histories
  BY <1>1, <1>2 DEF Histories, CronInv
<1>4. \A j \in Jobs : JobInv(j)'
  BY <1>1, <1>3, OthersKeep DEF Same
<1>5. ASSUME NEW j \in Jobs PROVE Good(j, jobs[j])' /\ Good(j, jobsFile[j])'
  <2>1. PICK r, f : r = jobs[j] /\ f = jobsFile[j]
    OBVIOUS
  <2>2. Good(j, r)' /\ Good(j, f)'
    BY <1>1, <1>2, <2>1, JobFacts, GoodStays
  <2> QED BY <1>1, <2>1, <2>2 DEF Good
<1>6. /\ CronTypeOK' /\ DOMAIN loose' = Jobs /\ removed' \subseteq Jobs
      /\ restarts' \in Nat /\ faults' \in Nat
  BY <1>1, <1>2 DEF CronInv, CronTypeOK
<1> QED BY <1>4, <1>5, <1>6 DEF CronInv

\* A restart finds in the file what was saved last, and nothing that was removed.
LEMMA RestartStep == ASSUME CronInv, Restart PROVE CronInv'
<1>1. /\ UNCHANGED <<now, jobsFile, faults, removed, touched, replanned>>
      /\ restarts' = restarts + 1 /\ service' = "new" /\ jobs' = jobsFile
      /\ timer' = [j \in Jobs |-> Never] /\ loose' = [j \in Jobs |-> EmptyBag]
      /\ started' = [j \in Jobs |-> 0] /\ executing' = [j \in Jobs |-> 0]
  BY DEF Restart
<1>2. restarts' \in Nat /\ restarts' # 0 /\ faults' \in Nat
  BY <1>1 DEF CronInv
<1>3. CronTypeOK' /\ DOMAIN loose' = Jobs /\ removed' \subseteq Jobs
  BY <1>1, NoTimers DEF CronInv, CronTypeOK
<1>4. ASSUME NEW j \in Jobs PROVE Good(j, jobs[j])' /\ Good(j, jobsFile[j])'
  BY <1>1, JobFacts DEF Good
<1>5. ASSUME NEW j \in Jobs PROVE JobInv(j)'
  <2>1. Untriggered(j)'
    BY <1>1 DEF Untriggered
  <2> QED BY <1>1, <1>2, <2>1 DEF JobInv, RunInv, TriggerInv, BackoffInv, Untriggered
<1> QED BY <1>2, <1>3, <1>4, <1>5 DEF CronInv

-----------------------------------------------------------------------------
\* At the start there are no jobs.
LEMMA CronInitInv == CronInit => CronInv
<1> SUFFICES ASSUME CronInit PROVE CronInv
  OBVIOUS
<1>1. now = 0 /\ now \in 0..MaxTime
  BY CronBoundsAssumption DEF CronInit
<1>2. ASSUME NEW j \in Jobs PROVE Good(j, jobs[j]) /\ Good(j, jobsFile[j]) /\ JobInv(j)
  <2>1. PICK r : r = NoRecord
    OBVIOUS
  <2>2. Good(j, r) /\ r.next = 0 /\ ~r.present /\ ~r.running
    BY <1>1, <2>1, NoRecordGood
  <2>3. jobs[j] = r /\ jobsFile[j] = r /\ Untriggered(j)
    BY <2>1 DEF CronInit, Untriggered
  <2>4. started[j] = 0 /\ executing[j] = 0 /\ timer[j] = Never /\ loose[j] = EmptyBag
    BY DEF CronInit
  <2>5. JobInv(j)
    BY <2>2, <2>3, <2>4 DEF JobInv, RunInv, TriggerInv, BackoffInv
  <2> QED BY <2>2, <2>3, <2>5
<1>3. \A j \in Jobs : jobs[j] \in Record /\ jobsFile[j] \in Record
  BY <1>2 DEF Good
<1>4. CronTypeOK
  BY <1>1, <1>3, NoTimers DEF CronInit, CronTypeOK
<1> QED BY <1>2, <1>4 DEF CronInit, CronInv

\* Every step keeps all parts.
LEMMA CronInvStep == CronInv /\ [CronNext]_cronVars => CronInv'
<1> SUFFICES ASSUME CronInv, [CronNext]_cronVars PROVE CronInv'
  OBVIOUS
<1>1. CASE Start BY <1>1, StartStep
<1>2. CASE Stop BY <1>2, StopStep
<1>3. CASE Tick BY <1>3, TickStep
<1>4. CASE Restart BY <1>4, RestartStep
<1>5. ASSUME NEW j \in Jobs, NEW s \in Schedules, NEW e \in BOOLEAN, NEW o \in BOOLEAN,
             AddJob(j, s, e, o)
      PROVE  CronInv'
  BY <1>5, AddStep
<1>6. ASSUME NEW j \in Jobs, NEW s \in Schedules \cup {Never},
             NEW e \in BOOLEAN, NEW o \in BOOLEAN, UpdateJob(j, e, o, s)
      PROVE  CronInv'
  BY <1>6, UpdateStep
<1>7. ASSUME NEW j \in Jobs, RemoveJob(j) PROVE CronInv'
  BY <1>7, RemoveStep
<1>8. ASSUME NEW j \in Jobs, NEW mode, RunJob(j, mode) PROVE CronInv'
  BY <1>8, RunStep
<1>9. ASSUME NEW j \in Jobs, Fire(j) PROVE CronInv'
  BY <1>9, FireStep
<1>10. ASSUME NEW j \in Jobs, FireLoose(j) PROVE CronInv'
  BY <1>10, FireLooseStep
<1>11. ASSUME NEW j \in Jobs, Execute(j) PROVE CronInv'
  BY <1>11, ExecuteStep
<1>12. ASSUME NEW j \in Jobs, Skip(j) PROVE CronInv'
  BY <1>12, SkipStep
<1>13. ASSUME NEW j \in Jobs, NEW f \in BOOLEAN, FinishRun(j, f) PROVE CronInv'
  BY <1>13, FinishStep
<1>14. ASSUME NEW j \in Jobs, FinishLastRun(j) PROVE CronInv'
  BY <1>14, FinishLastStep
<1>15. CASE UNCHANGED cronVars
  BY <1>15 DEF CronInv, CronTypeOK, Good, JobInv, RunInv, TriggerInv, BackoffInv,
      Untriggered, Pause, Later, RetryBackoff, Recurring, cronVars, tableVars, timerVars, runVars,
      countVars, cronHistory
<1> QED BY <1>1, <1>2, <1>3, <1>4, <1>5, <1>6, <1>7, <1>8, <1>9, <1>10, <1>11, <1>12,
           <1>13, <1>14, <1>15 DEF CronNext

\* All parts of the cron service hold in every state.
LEMMA CronInductive == CronSpec => []CronInv
  BY CronInitInv, CronInvStep, PTL DEF CronSpec

\* A run begins only of a job that is in the table, by a goroutine that was
\* started; no removal is forgotten.
Begins ==
    /\ removed \subseteq removed'
    /\ \A j \in Jobs : executing'[j] > executing[j] => started[j] > 0 /\ jobs[j].present

\* Every step lets a run begin only so.
LEMMA RunsBegin == ASSUME CronInv, [CronNext]_cronVars PROVE Begins
<1>1. ASSUME UNCHANGED executing, removed \subseteq removed' PROVE Begins
  BY <1>1, JobFacts DEF Begins
<1>2. ASSUME NEW j \in Jobs, executing[j] > 0, removed \subseteq removed',
             executing' = [executing EXCEPT ![j] = @ - 1]
      PROVE  Begins
  <2>1. executing'[j] = executing[j] - 1 /\ \A i \in Jobs \ {j} : executing'[i] = executing[i]
    BY <1>2 DEF CronInv, CronTypeOK
  <2> QED BY <1>2, <2>1, JobFacts DEF Begins
<1>3. CASE Start \/ Stop \/ Tick
  BY <1>1, <1>3 DEF Start, Stop, Tick, runVars, cronHistory
<1>4. CASE Restart
  BY <1>4, JobFacts DEF Restart, Begins
<1>5. ASSUME NEW j \in Jobs, NEW s, NEW e, NEW o, AddJob(j, s, e, o) PROVE Begins
  BY <1>1, <1>5 DEF AddJob, runVars, cronHistory
<1>6. ASSUME NEW j \in Jobs, NEW s, NEW e, NEW o, UpdateJob(j, e, o, s) PROVE Begins
  BY <1>1, <1>6 DEF UpdateJob, runVars
<1>7. ASSUME NEW j \in Jobs, RemoveJob(j) PROVE Begins
  BY <1>1, <1>7 DEF RemoveJob, runVars
<1>8. ASSUME NEW j \in Jobs, NEW mode, RunJob(j, mode) PROVE Begins
  BY <1>1, <1>8 DEF RunJob
<1>9. ASSUME NEW j \in Jobs, Fire(j) \/ FireLoose(j) \/ Skip(j) PROVE Begins
  BY <1>1, <1>9 DEF Fire, FireLoose, Skip, cronHistory
<1>10. ASSUME NEW j \in Jobs, Execute(j) PROVE Begins
  <2>1. \A i \in Jobs \ {j} : executing'[i] = executing[i]
    BY <1>10 DEF Execute, CronInv, CronTypeOK
  <2>2. started[j] > 0 /\ jobs[j].present /\ removed' = removed
    BY <1>10 DEF Execute, cronHistory
  <2> QED BY <2>1, <2>2, JobFacts DEF Begins
<1>11. ASSUME NEW j \in Jobs, NEW f, FinishRun(j, f) PROVE Begins
  BY <1>2, <1>11 DEF FinishRun, cronHistory
<1>12. ASSUME NEW j \in Jobs, FinishLastRun(j) PROVE Begins
  BY <1>2, <1>12 DEF FinishLastRun
<1>13. CASE UNCHANGED cronVars
  BY <1>1, <1>13 DEF cronVars, runVars, cronHistory
<1> QED BY <1>3, <1>4, <1>5, <1>6, <1>7, <1>8, <1>9, <1>10, <1>11, <1>12, <1>13 DEF CronNext

-----------------------------------------------------------------------------
\* Two runs of one job never overlap, whatever starts them, and every record is
\* what the code may find there (executeJob's RunningAtMs check).
THEOREM RunsAreAloneHolds == CronSpec => []RunsAreAlone
<1>1. CronInv => RunsAreAlone
  <2> SUFFICES ASSUME CronInv PROVE RunsAreAlone
    OBVIOUS
  <2>1. \A j \in Jobs : RunInv(j) /\ CronTypeOK
    BY DEF CronInv, JobInv
  <2> QED BY <2>1 DEF RunInv, RunsAreAlone, RunsDoNotOverlap, CronInv
<1> QED BY <1>1, CronInductive, PTL

\* An enabled job of a started service has a timer or a goroutine, and one only
\* unless somebody interfered (scheduleJobLocked, executeJob, UpdateJob).
THEOREM EnabledHasOneTriggerHolds == CronSpec => []EnabledHasOneTrigger
<1>1. CronInv => EnabledHasOneTrigger
  <2> SUFFICES ASSUME CronInv PROVE EnabledHasOneTrigger
    OBVIOUS
  <2>1. EnabledIsTriggered
    BY JobFacts DEF TriggerInv, EnabledIsTriggered, Untriggered
  <2>2. TriggersDoNotMultiply
    BY JobFacts DEF TriggerInv, TriggersDoNotMultiply
  <2> QED BY <2>1, <2>2 DEF EnabledHasOneTrigger
<1> QED BY <1>1, CronInductive, PTL

\* After Stop nothing is left to run a job, but for what Stop cannot know of.
THEOREM StopQuietsHolds == CronSpec => []StopQuiets
<1>1. CronInv => StopQuiets
  BY JobFacts DEF TriggerInv, StopQuiets
<1> QED BY <1>1, CronInductive, PTL

\* A removal that was reported, and the backoff of a job that failed, hold in
\* every step: a removed job is in no table a restart finds, and no run of it
\* begins (RemoveJob, executeJob, calculateRetryBackoff).
THEOREM RemovalsAndBackoffHolds == CronSpec => RemovalsAndBackoffHold
<1>1. CronInv /\ CronInv' /\ [CronNext]_cronVars =>
          [\A j \in removed : /\ ~jobsFile'[j].present /\ ~jobs'[j].present
                              /\ executing'[j] <= executing[j]]_cronVars
  <2> SUFFICES ASSUME CronInv, CronInv', [CronNext]_cronVars, NEW j \in removed
               PROVE  /\ ~jobsFile'[j].present /\ ~jobs'[j].present
                      /\ executing'[j] <= executing[j]
    OBVIOUS
  <2>1. Begins
    BY RunsBegin
  <2>2. j \in Jobs /\ j \in removed'
    BY <2>1 DEF Begins, CronInv
  <2>3. ~jobsFile'[j].present /\ ~jobs'[j].present
    BY <2>2 DEF CronInv, Good
  <2>4. ~jobs[j].present /\ executing[j] \in Nat /\ executing'[j] \in Nat
    BY <2>2 DEF CronInv, CronTypeOK, Good
  <2> QED BY <2>1, <2>2, <2>3, <2>4 DEF Begins
<1>2. CronInv /\ [CronNext]_cronVars =>
          [\A j \in Jobs \ (touched \cup replanned) :
              executing'[j] > executing[j] =>
                  now >= jobs[j].end + Pause(jobs[j].schedule, jobs[j].errors)]_cronVars
  BY RunsBegin, JobFacts DEF Begins, BackoffInv
<1> QED BY <1>1, <1>2, CronInductive, PTL
        DEF CronSpec, RemovalsAndBackoffHold, RemovedStaysRemoved, BackoffIsKept

-----------------------------------------------------------------------------
(***************************************************************************)
(* Browser.  A context has no session before it is made, the session of a  *)
(* profile's own context is of the profile's Chrome or of one that is      *)
(* gone, and what a call has made sure of stays while the call is not      *)
(* among the lost.  A profile whose removed context was connected again    *)
(* is left out, for good.                                                  *)
(***************************************************************************)
Stages == {"idle", "ensure", "connect", "use", "page", "done"}

BrowserTypes ==
    /\ contexts \in Nat /\ contexts <= MaxContexts
    /\ contextOf \in [Profiles -> Nat] /\ \A p \in Profiles : contextOf[p] <= contexts
    /\ profileOf \in [Contexts -> Profiles]
    /\ available \in [Contexts -> BOOLEAN] /\ browser \in [Contexts -> Nat]
    /\ spawned \in [Contexts -> BOOLEAN] /\ launched \in [Contexts -> Nat]
    /\ chrome \in [Profiles -> Nat] /\ chromes \in Nat
    /\ toolCall \in [BrowserCalls -> Stages]
    /\ context \in [BrowserCalls -> Nat] /\ page \in [BrowserCalls -> Nat]

\* The contexts of the profiles, and those of the calls.
ContextsInv ==
    /\ \A p \in Profiles : contextOf[p] # 0 => profileOf[contextOf[p]] = p
    /\ \A c \in Contexts : c > contexts => browser[c] = 0
    /\ \A k \in BrowserCalls :
           /\ context[k] <= contexts
           /\ toolCall[k] \notin {"idle", "done"} => context[k] > 0

\* The session of a profile's own context.
SessionInv(p) ==
    p \notin overtaken /\ contextOf[p] # 0 /\ chrome[p] # 0 /\ browser[contextOf[p]] # 0 =>
        browser[contextOf[p]] = chrome[p]

\* The Chrome that a call works with.
CallInv(k) ==
    toolCall[k] \in {"use", "page"} /\ k \notin lost
    /\ profileOf[context[k]] \notin overtaken =>
        /\ chrome[profileOf[context[k]]] # 0
        /\ toolCall[k] = "use" => browser[context[k]] = chrome[profileOf[context[k]]]
        /\ toolCall[k] = "page" => page[k] = chrome[profileOf[context[k]]]

BrowserInv ==
    /\ BrowserTypes /\ ContextsInv
    /\ \A c \in Contexts : available[c] = (browser[c] # 0)
    /\ \A p \in Profiles : SessionInv(p)
    /\ \A k \in BrowserCalls : CallInv(k)

\* At the start there is no context.
LEMMA BrowserInitInv == BrowserInit => BrowserInv
<1> SUFFICES ASSUME BrowserInit PROVE BrowserInv
  OBVIOUS
<1>1. (CHOOSE p \in Profiles : TRUE) \in Profiles /\ MaxContexts \in Nat
  BY BrowserAssumption
<1>2. BrowserTypes
  <2>1. /\ available \in [Contexts -> BOOLEAN] /\ spawned \in [Contexts -> BOOLEAN]
        /\ profileOf \in [Contexts -> Profiles]
    BY <1>1 DEF BrowserInit
  <2>2. /\ contextOf \in [Profiles -> Nat] /\ \A p \in Profiles : contextOf[p] <= contexts
        /\ contexts \in Nat /\ contexts <= MaxContexts
        /\ chrome \in [Profiles -> Nat] /\ chromes \in Nat
    BY <1>1 DEF BrowserInit
  <2>3. browser \in [Contexts -> Nat] /\ launched \in [Contexts -> Nat]
    BY DEF BrowserInit
  <2>4. /\ toolCall \in [BrowserCalls -> Stages]
        /\ context \in [BrowserCalls -> Nat] /\ page \in [BrowserCalls -> Nat]
    BY DEF BrowserInit, Stages
  <2> QED BY <2>1, <2>2, <2>3, <2>4 DEF BrowserTypes
<1>3. ContextsInv /\ \A c \in Contexts : available[c] = (browser[c] # 0)
  <2>1. ContextsInv
    <3>1. \A p \in Profiles : contextOf[p] = 0
      BY DEF BrowserInit
    <3>2. \A c \in Contexts : browser[c] = 0
      BY DEF BrowserInit
    <3>3. \A k \in BrowserCalls : context[k] <= contexts /\ toolCall[k] = "idle"
      BY DEF BrowserInit
    <3> QED BY <3>1, <3>2, <3>3 DEF ContextsInv
  <2>2. \A c \in Contexts : available[c] = FALSE /\ browser[c] = 0
    BY DEF BrowserInit
  <2> QED BY <2>1, <2>2
<1>4. \A p \in Profiles : SessionInv(p)
  BY DEF BrowserInit, SessionInv
<1>5. \A k \in BrowserCalls : CallInv(k)
  BY DEF BrowserInit, CallInv
<1> QED BY <1>2, <1>3, <1>4, <1>5 DEF BrowserInv

\* What the invariant says of a call at work.
LEMMA CallFacts ==
    ASSUME BrowserInv, NEW k \in BrowserCalls, toolCall[k] \notin {"idle", "done"}
    PROVE  /\ context[k] \in Contexts /\ context[k] <= contexts
           /\ profileOf[context[k]] \in Profiles /\ ChromeOf(context[k]) \in Nat
           /\ browser[context[k]] \in Nat
  BY BrowserAssumption DEF BrowserInv, BrowserTypes, ContextsInv, Contexts, ChromeOf

\* What StopBrowser leaves of the context of a profile, and of the calls.
LEMMA StopStepInv ==
    ASSUME BrowserInv, NEW p \in Profiles, contextOf[p] # 0, StopBrowser(contextOf[p]),
           contextOf' = [contextOf EXCEPT ![p] = 0],
           UNCHANGED <<profileOf, contexts, chromes, toolCall, context, page, overtaken>>
    PROVE  BrowserInv'
<1>1. PICK c : c = contextOf[p]
  OBVIOUS
<1>2. c \in Contexts /\ profileOf[c] = p /\ \A q \in Profiles : contextOf[q] = c => q = p
  BY <1>1, BrowserAssumption DEF BrowserInv, BrowserTypes, ContextsInv, Contexts
<1>3. CASE ~available[c]
  <2>1. UNCHANGED <<available, browser, spawned, launched, chrome, lost>>
    BY <1>1, <1>3 DEF StopBrowser
  <2>2. BrowserTypes' /\ ContextsInv' /\ \A d \in Contexts : (available[d] = (browser[d] # 0))'
    BY <2>1 DEF BrowserInv, BrowserTypes, ContextsInv
  <2>3. \A q \in Profiles : SessionInv(q)'
    BY <2>1 DEF BrowserInv, BrowserTypes, SessionInv
  <2>4. \A k \in BrowserCalls : CallInv(k)'
    BY <2>1 DEF BrowserInv, CallInv
  <2> QED BY <2>2, <2>3, <2>4 DEF BrowserInv
<1>4. CASE available[c]
  <2>1. /\ available' = [available EXCEPT ![c] = FALSE]
        /\ browser' = [browser EXCEPT ![c] = 0]
        /\ spawned' = [spawned EXCEPT ![c] = FALSE]
        /\ launched' = [launched EXCEPT ![c] = 0]
        /\ chrome' = chrome \/ chrome' = [chrome EXCEPT ![p] = 0]
        /\ lost' = lost \cup UsersOf(p)
    BY <1>1, <1>2, <1>4 DEF StopBrowser
  <2>2. BrowserTypes'
    <3>1. BrowserTypes
      BY DEF BrowserInv
    <3>2. /\ available' \in [Contexts -> BOOLEAN] /\ spawned' \in [Contexts -> BOOLEAN]
          /\ browser' \in [Contexts -> Nat] /\ launched' \in [Contexts -> Nat]
      BY <2>1, <3>1 DEF BrowserTypes
    <3>3. /\ contextOf' \in [Profiles -> Nat]
          /\ \A q \in Profiles : contextOf'[q] <= contexts'
          /\ chrome' \in [Profiles -> Nat]
      BY <2>1, <3>1 DEF BrowserTypes
    <3> QED BY <3>1, <3>2, <3>3 DEF BrowserTypes
  <2>3. ContextsInv' /\ \A d \in Contexts : (available[d] = (browser[d] # 0))'
    BY <2>1 DEF BrowserInv, BrowserTypes, ContextsInv
  <2>4. ASSUME NEW q \in Profiles PROVE SessionInv(q)'
    <3>1. CASE q = p
      BY <3>1 DEF BrowserInv, BrowserTypes, SessionInv
    <3>2. CASE q # p
      <4>1. contextOf'[q] = contextOf[q] /\ chrome'[q] = chrome[q]
        BY <2>1, <3>2 DEF BrowserInv, BrowserTypes
      <4>2. contextOf[q] # 0 => contextOf[q] \in Contexts /\ contextOf[q] # c
        BY <1>2, <3>2, BrowserAssumption DEF BrowserInv, BrowserTypes, Contexts
      <4>3. contextOf[q] # 0 => browser'[contextOf[q]] = browser[contextOf[q]]
        BY <2>1, <4>2 DEF BrowserInv, BrowserTypes
      <4> QED BY <4>1, <4>3 DEF BrowserInv, SessionInv
    <3> QED BY <3>1, <3>2
  <2>5. ASSUME NEW k \in BrowserCalls PROVE CallInv(k)'
    <3> SUFFICES ASSUME toolCall[k] \in {"use", "page"}, k \notin lost',
                        profileOf[context[k]] \notin overtaken
                 PROVE  CallInv(k)'
      BY DEF CallInv
    <3>1. context[k] \in Contexts /\ context[k] > 0 /\ profileOf[context[k]] \in Profiles
      BY CallFacts, BrowserAssumption DEF Contexts, BrowserInv, ContextsInv
    <3>2. k \notin lost /\ profileOf[context[k]] # p
      BY <2>1, <3>1 DEF UsersOf
    <3>3. context[k] # c
      BY <1>2, <3>2
    <3>4. browser'[context[k]] = browser[context[k]]
          /\ chrome'[profileOf[context[k]]] = chrome[profileOf[context[k]]]
      BY <2>1, <3>1, <3>2, <3>3 DEF BrowserInv, BrowserTypes
    <3> QED BY <3>2, <3>4 DEF BrowserInv, CallInv
  <2> QED BY <2>2, <2>3, <2>4, <2>5 DEF BrowserInv
<1> QED BY <1>3, <1>4

\* The configuration and the contexts of its profiles.
LEMMA ConfigStep ==
    ASSUME BrowserInv, NEW p \in Profiles,
           \/ EditConfig(p) \/ RemoveProfile(p) \/ AddProfile(p) \/ ShutdownProfile(p)
           \/ LoadConfig \/ LockProfiles \/ FinishReload \/ ShutdownBrowsers \/ FinishShutdown
    PROVE  BrowserInv'
<1>1. CASE \/ EditConfig(p) \/ LoadConfig \/ LockProfiles \/ FinishReload
           \/ ShutdownBrowsers \/ FinishShutdown
  <2>1. UNCHANGED <<contextOf, profileOf, contexts, contextVars, chromeVars, toolCallVars>>
    BY <1>1 DEF EditConfig, LoadConfig, LockProfiles, FinishReload, ShutdownBrowsers,
           FinishShutdown
  <2> QED BY <2>1 DEF BrowserInv, BrowserTypes, ContextsInv, SessionInv, CallInv,
                      contextVars, chromeVars, toolCallVars
<1>2. CASE RemoveProfile(p) \/ ShutdownProfile(p)
  BY <1>2, StopStepInv DEF RemoveProfile, ShutdownProfile
<1>3. CASE AddProfile(p)
  <2>1. PICK n \in Contexts : n = contexts + 1
    <3>1. contexts \in Nat /\ contexts < MaxContexts /\ MaxContexts \in Nat
      BY <1>3, BrowserAssumption DEF AddProfile, BrowserInv, BrowserTypes
    <3> QED BY <3>1 DEF Contexts
  <2>2. /\ contexts' = n /\ contextOf' = [contextOf EXCEPT ![p] = n]
        /\ profileOf' = [profileOf EXCEPT ![n] = p]
        /\ UNCHANGED <<available, browser, spawned, launched, chrome, chromes>>
        /\ UNCHANGED <<toolCall, context, page, lost, overtaken>>
    BY <1>3, <2>1 DEF AddProfile, contextVars, chromeVars, toolCallVars
  <2>3. n > contexts /\ browser[n] = 0 /\ n # 0 /\ n <= MaxContexts /\ n \in Nat
    <3>1. n \in 1..MaxContexts /\ MaxContexts \in Nat /\ contexts \in Nat
      BY BrowserAssumption DEF Contexts, BrowserInv, BrowserTypes
    <3>2. n > contexts /\ n # 0 /\ n <= MaxContexts /\ n \in Nat
      BY <2>1, <3>1
    <3> QED BY <3>2 DEF BrowserInv, ContextsInv
  <2>4. BrowserTypes'
    BY <2>1, <2>2, <2>3 DEF BrowserInv, BrowserTypes
  <2>5. ContextsInv'
    BY <2>1, <2>2, <2>3 DEF BrowserInv, BrowserTypes, ContextsInv, Contexts
  <2>6. \A q \in Profiles : SessionInv(q)'
    BY <2>1, <2>2, <2>3 DEF BrowserInv, BrowserTypes, SessionInv
  <2>7. ASSUME NEW k \in BrowserCalls PROVE CallInv(k)'
    <3> SUFFICES ASSUME toolCall[k] \in {"use", "page"} PROVE CallInv(k)'
      BY <2>2 DEF CallInv
    <3>1. context[k] \in Contexts /\ context[k] <= contexts
      BY CallFacts
    <3>2. profileOf'[context[k]] = profileOf[context[k]]
      BY <2>1, <2>2, <2>3, <3>1 DEF BrowserInv, BrowserTypes, Contexts
    <3> QED BY <2>2, <3>2 DEF BrowserInv, CallInv
  <2>8. \A c \in Contexts : (available[c] = (browser[c] # 0))'
    BY <2>2 DEF BrowserInv
  <2> QED BY <2>4, <2>5, <2>6, <2>7, <2>8 DEF BrowserInv
<1> QED BY <1>1, <1>2, <1>3

\* A Chrome that dies makes its calls lost.
LEMMA ChromeDiesStep ==
    ASSUME BrowserInv, NEW p \in Profiles, ChromeDies(p)
    PROVE  BrowserInv'
<1>1. /\ chrome' = [chrome EXCEPT ![p] = 0] /\ lost' = lost \cup UsersOf(p)
      /\ UNCHANGED <<contextOf, profileOf, contexts, available, browser, spawned, launched>>
      /\ UNCHANGED <<chromes, toolCall, context, page, overtaken>>
  BY DEF ChromeDies, configVars, contextVars
<1>2. BrowserTypes' /\ ContextsInv'
  BY <1>1 DEF BrowserInv, BrowserTypes, ContextsInv
<1>3. \A c \in Contexts : (available[c] = (browser[c] # 0))'
  BY <1>1 DEF BrowserInv
<1>4. \A q \in Profiles : SessionInv(q)'
  BY <1>1 DEF BrowserInv, BrowserTypes, SessionInv
<1>5. ASSUME NEW k \in BrowserCalls PROVE CallInv(k)'
  <2> SUFFICES ASSUME toolCall[k] \in {"use", "page"}, k \notin lost' PROVE CallInv(k)'
    BY <1>1 DEF CallInv
  <2>1. context[k] # 0 /\ profileOf[context[k]] \in Profiles
    BY CallFacts, BrowserAssumption DEF Contexts
  <2>2. k \notin lost /\ profileOf[context[k]] # p
    BY <1>1, <2>1 DEF UsersOf
  <2>3. chrome'[profileOf[context[k]]] = chrome[profileOf[context[k]]]
    BY <1>1, <2>1, <2>2 DEF BrowserInv, BrowserTypes
  <2> QED BY <1>1, <2>2, <2>3 DEF BrowserInv, CallInv
<1> QED BY <1>2, <1>3, <1>4, <1>5 DEF BrowserInv

\* The stage of a call moves on.
LEMMA StageChange ==
    ASSUME BrowserInv, NEW k \in BrowserCalls, NEW s \in Stages, At(k, s)
    PROVE  /\ toolCall' \in [BrowserCalls -> Stages] /\ toolCall'[k] = s
           /\ \A i \in BrowserCalls \ {k} : toolCall'[i] = toolCall[i]
  BY DEF BrowserInv, BrowserTypes, At

\* GetProfile: a call takes the context that its profile has.
LEMMA GetProfileStep ==
    ASSUME BrowserInv, NEW k \in BrowserCalls, NEW p \in Profiles, GetProfile(k, p)
    PROVE  BrowserInv'
<1>1. /\ context' = [context EXCEPT ![k] = contextOf[p]]
      /\ UNCHANGED <<contextOf, profileOf, contexts, available, browser, spawned, launched>>
      /\ UNCHANGED <<chrome, chromes, page, lost, overtaken>>
  BY DEF GetProfile, configVars, contextVars, chromeVars
<1>2. PICK s \in Stages : /\ s = IF contextOf[p] = 0 THEN "done" ELSE "ensure"
                          /\ At(k, s)
  BY DEF GetProfile, Stages
<1>3. /\ toolCall' \in [BrowserCalls -> Stages] /\ toolCall'[k] = s
      /\ \A i \in BrowserCalls \ {k} : toolCall'[i] = toolCall[i]
  BY <1>2, StageChange
<1>4. contextOf[p] \in Nat /\ contextOf[p] <= contexts
  BY DEF BrowserInv, BrowserTypes
<1>5. BrowserTypes' /\ ContextsInv'
  <2>1. context' \in [BrowserCalls -> Nat] /\ context'[k] = contextOf[p]
        /\ \A i \in BrowserCalls \ {k} : context'[i] = context[i]
    BY <1>1, <1>4 DEF BrowserInv, BrowserTypes
  <2>2. BrowserTypes'
    BY <1>1, <1>3, <2>1 DEF BrowserInv, BrowserTypes
  <2>3. ContextsInv'
    BY <1>1, <1>2, <1>3, <1>4, <2>1 DEF BrowserInv, ContextsInv
  <2> QED BY <2>2, <2>3
<1>6. \A c \in Contexts : (available[c] = (browser[c] # 0))'
  BY <1>1 DEF BrowserInv
<1>7. \A q \in Profiles : SessionInv(q)'
  BY <1>1 DEF BrowserInv, SessionInv
<1>8. ASSUME NEW i \in BrowserCalls PROVE CallInv(i)'
  <2>1. CASE i = k
    BY <1>2, <1>3, <2>1 DEF CallInv
  <2>2. CASE i # k
    BY <1>1, <1>3, <2>2 DEF BrowserInv, BrowserTypes, CallInv
  <2> QED BY <2>1, <2>2
<1> QED BY <1>5, <1>6, <1>7, <1>8 DEF BrowserInv

\* A healthy browser is kept, or the context connects anew.
LEMMA EnsureStep ==
    ASSUME BrowserInv, NEW k \in BrowserCalls, EnsureBrowser(k)
    PROVE  BrowserInv'
<1>1. PICK c : c = context[k]
  OBVIOUS
<1>2. /\ c \in Contexts /\ profileOf[c] \in Profiles /\ c \in Nat \ {0}
      /\ toolCall[k] = "ensure"
      /\ KeepBrowser(k, c) \/ SpawnChrome(k, c)
  BY <1>1, CallFacts, BrowserAssumption DEF EnsureBrowser, Contexts
<1>3. PICK p \in Profiles : p = profileOf[c]
  BY <1>2
<1>4. /\ UNCHANGED <<contextOf, profileOf, contexts, context, page>>
      /\ overtaken' = IF contextOf[p] = c THEN overtaken ELSE overtaken \cup {p}
      /\ lost' = lost \ {k}
  BY <1>1, <1>2, <1>3 DEF EnsureBrowser, configVars, KeepBrowser, SpawnChrome
<1>5. \A q \in Profiles : q # p /\ contextOf[q] # 0 => contextOf[q] # c
  BY <1>3 DEF BrowserInv, ContextsInv
<1>6. CASE KeepBrowser(k, c)
  <2>1. /\ UNCHANGED <<available, browser, spawned, launched, chrome, chromes>>
        /\ available[c] /\ browser[c] # 0 /\ chrome[p] # 0 /\ At(k, "use")
    BY <1>3, <1>6 DEF KeepBrowser, contextVars, ChromeOf
  <2>2. /\ toolCall' \in [BrowserCalls -> Stages] /\ toolCall'[k] = "use"
        /\ \A i \in BrowserCalls \ {k} : toolCall'[i] = toolCall[i]
    BY <2>1, StageChange DEF Stages
  <2>3. BrowserTypes' /\ ContextsInv'
    BY <1>1, <1>2, <1>4, <2>1, <2>2 DEF BrowserInv, BrowserTypes, ContextsInv
  <2>4. \A d \in Contexts : (available[d] = (browser[d] # 0))'
    BY <2>1 DEF BrowserInv
  <2>5. \A q \in Profiles : SessionInv(q)'
    BY <1>4, <2>1 DEF BrowserInv, SessionInv
  <2>6. ASSUME NEW i \in BrowserCalls PROVE CallInv(i)'
    <3>1. CASE i = k
      <4>1. p \notin overtaken' => browser[c] = chrome[p]
        BY <1>2, <1>4, <2>1 DEF BrowserInv, SessionInv
      <4> QED BY <1>1, <1>3, <1>4, <2>1, <2>2, <3>1, <4>1 DEF CallInv
    <3>2. CASE i # k
      BY <1>4, <2>1, <2>2, <3>2 DEF BrowserInv, CallInv
    <3> QED BY <3>1, <3>2
  <2> QED BY <2>3, <2>4, <2>5, <2>6 DEF BrowserInv
<1>7. CASE SpawnChrome(k, c)
  <2>1. /\ ~(available[c] /\ browser[c] # 0 /\ chrome[p] # 0)
        /\ available' = [available EXCEPT ![c] = FALSE]
        /\ browser' = [browser EXCEPT ![c] = 0]
        /\ At(k, "connect") \/ At(k, "done")
    BY <1>3, <1>7 DEF SpawnChrome, ChromeOf
  <2>2. /\ spawned' = spawned \/ \E b \in BOOLEAN : spawned' = [spawned EXCEPT ![c] = b]
        /\ \/ UNCHANGED <<chrome, chromes>>
           \/ /\ chrome[p] = 0 /\ chromes' = chromes + 1
              /\ chrome' = [chrome EXCEPT ![p] = chromes']
        /\ launched' = launched \/ \E n \in {0, chromes'} : launched' = [launched EXCEPT ![c] = n]
    BY <1>3, <1>7 DEF SpawnChrome, ChromeOf
  <2>3. /\ toolCall' \in [BrowserCalls -> Stages] /\ toolCall'[k] \in {"connect", "done"}
        /\ \A i \in BrowserCalls \ {k} : toolCall'[i] = toolCall[i]
    BY <2>1, StageChange DEF Stages
  <2>4. chromes' \in Nat /\ chrome' \in [Profiles -> Nat]
    BY <2>2 DEF BrowserInv, BrowserTypes
  <2>5. /\ spawned' \in [Contexts -> BOOLEAN] /\ launched' \in [Contexts -> Nat]
        /\ available' \in [Contexts -> BOOLEAN] /\ browser' \in [Contexts -> Nat]
    <3>1. BrowserTypes
      BY DEF BrowserInv
    <3>2. available' \in [Contexts -> BOOLEAN] /\ browser' \in [Contexts -> Nat]
      BY <2>1, <3>1 DEF BrowserTypes
    <3>3. spawned' \in [Contexts -> BOOLEAN]
      BY <2>2, <3>1 DEF BrowserTypes
    <3>4. launched' \in [Contexts -> Nat]
      BY <2>2, <2>4, <3>1 DEF BrowserTypes
    <3> QED BY <3>2, <3>3, <3>4
  <2>6. /\ browser'[c] = 0 /\ \A d \in Contexts \ {c} : browser'[d] = browser[d]
        /\ available'[c] = FALSE /\ \A d \in Contexts \ {c} : available'[d] = available[d]
    BY <1>2, <2>1 DEF BrowserInv, BrowserTypes
  <2>7. \A q \in Profiles : chrome'[q] = chrome[q] \/ (q = p /\ chrome[p] = 0)
    BY <2>2 DEF BrowserInv, BrowserTypes
  <2>8. BrowserTypes'
    BY <1>4, <2>3, <2>4, <2>5 DEF BrowserInv, BrowserTypes
  <2>9. ContextsInv'
    BY <1>1, <1>2, <1>4, <2>3, <2>6 DEF BrowserInv, ContextsInv
  <2>10. \A d \in Contexts : (available[d] = (browser[d] # 0))'
    BY <2>6 DEF BrowserInv
  <2>11. ASSUME NEW q \in Profiles PROVE SessionInv(q)'
    <3>1. CASE q = p
      BY <1>4, <2>6, <3>1 DEF SessionInv
    <3>2. CASE q # p
      <4>1. contextOf[q] # 0 => contextOf[q] \in Contexts \ {c}
        BY <1>5, <3>2, BrowserAssumption DEF BrowserInv, BrowserTypes, Contexts
      <4> QED BY <1>4, <2>6, <2>7, <3>2, <4>1 DEF BrowserInv, SessionInv
    <3> QED BY <3>1, <3>2
  <2>12. ASSUME NEW i \in BrowserCalls PROVE CallInv(i)'
    <3> SUFFICES ASSUME toolCall'[i] \in {"use", "page"}, i \notin lost',
                        profileOf[context[i]] \notin overtaken'
                 PROVE  CallInv(i)'
      BY <1>4 DEF CallInv
    <3>1. i # k /\ toolCall[i] = toolCall'[i] /\ i \notin lost
          /\ profileOf[context[i]] \notin overtaken
      BY <1>4, <2>3
    <3>2. PICK d \in Contexts, q \in Profiles : d = context[i] /\ q = profileOf[d]
      BY <3>1, CallFacts
    <3>3. /\ chrome[q] # 0
          /\ toolCall[i] = "use" => browser[d] = chrome[q]
          /\ toolCall[i] = "page" => page[i] = chrome[q]
      BY <3>1, <3>2 DEF BrowserInv, CallInv
    <3>4. chrome'[q] = chrome[q]
      BY <2>7, <3>3
    <3>5. toolCall[i] = "use" => d # c
      BY <1>2, <1>3, <2>1, <3>2, <3>3 DEF BrowserInv
    <3> QED BY <1>4, <2>6, <3>1, <3>2, <3>3, <3>4, <3>5 DEF CallInv
  <2> QED BY <2>8, <2>9, <2>10, <2>11, <2>12 DEF BrowserInv
<1> QED BY <1>2, <1>6, <1>7

\* The context has the Chrome there is for its session.
LEMMA ConnectStep ==
    ASSUME BrowserInv, NEW k \in BrowserCalls, ConnectCDP(k)
    PROVE  BrowserInv'
<1>1. PICK c : c = context[k]
  OBVIOUS
<1>2. c \in Contexts /\ c <= contexts /\ profileOf[c] \in Profiles /\ toolCall[k] = "connect"
  BY <1>1, CallFacts DEF ConnectCDP
<1>3. PICK p \in Profiles : p = profileOf[c]
  BY <1>2
<1>4. /\ UNCHANGED <<contextOf, profileOf, contexts, spawned, launched, chrome, chromes>>
      /\ UNCHANGED <<context, page, lost, overtaken>>
  BY DEF ConnectCDP, configVars, chromeVars
<1>5. CASE UNCHANGED <<available, browser>> /\ At(k, "done")
  <2>1. UNCHANGED <<available, browser>> /\ At(k, "done")
    BY <1>5
  <2>2. /\ toolCall' \in [BrowserCalls -> Stages] /\ toolCall'[k] = "done"
        /\ \A i \in BrowserCalls \ {k} : toolCall'[i] = toolCall[i]
    BY <2>1, StageChange DEF Stages
  <2>3. BrowserTypes' /\ ContextsInv' /\ \A d \in Contexts : (available[d] = (browser[d] # 0))'
    BY <1>4, <2>1, <2>2 DEF BrowserInv, BrowserTypes, ContextsInv
  <2>4. \A q \in Profiles : SessionInv(q)'
    BY <1>4, <2>1 DEF BrowserInv, SessionInv
  <2>5. \A i \in BrowserCalls : CallInv(i)'
    BY <1>4, <2>1, <2>2 DEF BrowserInv, CallInv
  <2> QED BY <2>3, <2>4, <2>5 DEF BrowserInv
<1>6. CASE /\ chrome[p] # 0 /\ browser' = [browser EXCEPT ![c] = chrome[p]]
           /\ available' = [available EXCEPT ![c] = TRUE] /\ At(k, "use")
  <2>1. /\ browser' = [browser EXCEPT ![c] = chrome[p]]
        /\ available' = [available EXCEPT ![c] = TRUE] /\ At(k, "use")
    BY <1>6
  <2>2. /\ toolCall' \in [BrowserCalls -> Stages] /\ toolCall'[k] = "use"
        /\ \A i \in BrowserCalls \ {k} : toolCall'[i] = toolCall[i]
    BY <2>1, StageChange DEF Stages
  <2>3. /\ browser' \in [Contexts -> Nat] /\ available' \in [Contexts -> BOOLEAN]
        /\ browser'[c] = chrome[p] /\ \A d \in Contexts \ {c} : browser'[d] = browser[d]
        /\ available'[c] = TRUE /\ \A d \in Contexts \ {c} : available'[d] = available[d]
    BY <1>2, <2>1 DEF BrowserInv, BrowserTypes
  <2>4. BrowserTypes'
    BY <1>4, <2>2, <2>3 DEF BrowserInv, BrowserTypes
  <2>5. ContextsInv'
    <3>1. context[k] > 0
      BY <1>2 DEF BrowserInv, ContextsInv
    <3>2. ~(c > contexts)
      BY <1>2, BrowserAssumption DEF BrowserInv, BrowserTypes, Contexts
    <3> QED BY <1>4, <2>2, <2>3, <3>1, <3>2 DEF BrowserInv, ContextsInv
  <2>6. \A d \in Contexts : (available[d] = (browser[d] # 0))'
    BY <1>6, <2>3 DEF BrowserInv
  <2>7. ASSUME NEW q \in Profiles PROVE SessionInv(q)'
    <3>1. contextOf[q] # 0 => contextOf[q] \in Contexts /\ profileOf[contextOf[q]] = q
      BY BrowserAssumption DEF BrowserInv, BrowserTypes, ContextsInv, Contexts
    <3>2. contextOf[q] # 0 => contextOf[q] # c \/ q = p
      BY <1>3, <3>1
    <3> QED BY <1>4, <2>3, <3>1, <3>2 DEF BrowserInv, SessionInv
  <2>8. ASSUME NEW i \in BrowserCalls PROVE CallInv(i)'
    <3>1. CASE i = k
      BY <1>1, <1>3, <1>4, <1>6, <2>2, <2>3, <3>1 DEF CallInv
    <3>2. CASE i # k
      <4> SUFFICES ASSUME toolCall[i] \in {"use", "page"}, i \notin lost,
                          profileOf[context[i]] \notin overtaken
                   PROVE  CallInv(i)'
        BY <1>4, <2>2, <3>2 DEF CallInv
      <4>1. context[i] \in Contexts
        BY CallFacts
      <4>2. context[i] = c => profileOf[context[i]] = p
        BY <1>3
      <4> QED BY <1>4, <2>2, <2>3, <3>2, <4>1, <4>2 DEF BrowserInv, CallInv
    <3> QED BY <3>1, <3>2
  <2> QED BY <2>4, <2>5, <2>6, <2>7, <2>8 DEF BrowserInv
<1> QED BY <1>1, <1>3, <1>5, <1>6 DEF ConnectCDP, ChromeOf

\* The session is read; the operation on the page ends.
LEMMA UseStep ==
    ASSUME BrowserInv, NEW k \in BrowserCalls, UseSession(k) \/ FinishToolCall(k)
    PROVE  BrowserInv'
<1>1. /\ UNCHANGED <<contextOf, profileOf, contexts, available, browser, spawned, launched>>
      /\ UNCHANGED <<chrome, chromes, context, lost, overtaken>>
  BY DEF UseSession, FinishToolCall, configVars, contextVars, chromeVars
<1>2. /\ toolCall[k] \in {"use", "page"}
      /\ \/ page' = page /\ At(k, "done")
         \/ /\ toolCall[k] = "use" /\ page' = [page EXCEPT ![k] = browser[context[k]]]
            /\ At(k, "done") \/ At(k, "page")
  BY DEF UseSession, FinishToolCall
<1>3. /\ toolCall' \in [BrowserCalls -> Stages] /\ toolCall'[k] \in {"page", "done"}
      /\ toolCall'[k] = "page" =>
             toolCall[k] = "use" /\ page' = [page EXCEPT ![k] = browser[context[k]]]
      /\ \A i \in BrowserCalls \ {k} : toolCall'[i] = toolCall[i]
  BY <1>2, StageChange DEF Stages
<1>4. context[k] \in Contexts /\ browser[context[k]] \in Nat /\ context[k] > 0
  BY <1>2, CallFacts DEF BrowserInv, ContextsInv
<1>5. /\ page' \in [BrowserCalls -> Nat]
      /\ \A i \in BrowserCalls \ {k} : page'[i] = page[i]
      /\ toolCall'[k] = "page" => page'[k] = browser[context[k]]
  BY <1>2, <1>3, <1>4 DEF BrowserInv, BrowserTypes
<1>6. BrowserTypes'
  BY <1>1, <1>3, <1>5 DEF BrowserInv, BrowserTypes
<1>7. ContextsInv'
  BY <1>1, <1>3, <1>4 DEF BrowserInv, ContextsInv
<1>8. \A d \in Contexts : (available[d] = (browser[d] # 0))'
  BY <1>1 DEF BrowserInv
<1>9. \A q \in Profiles : SessionInv(q)'
  BY <1>1 DEF BrowserInv, SessionInv
<1>10. \A i \in BrowserCalls : CallInv(i)'
  BY <1>1, <1>3, <1>5 DEF BrowserInv, CallInv
<1> QED BY <1>6, <1>7, <1>8, <1>9, <1>10 DEF BrowserInv

\* All parts of the browser hold in every state.
LEMMA BrowserInductive == BrowserSpec => []BrowserInv
<1>1. BrowserInv /\ [BrowserNext]_browserVars => BrowserInv'
  <2> SUFFICES ASSUME BrowserInv, [BrowserNext]_browserVars PROVE BrowserInv'
    OBVIOUS
  <2>1. CASE UNCHANGED browserVars
    BY <2>1 DEF BrowserInv, BrowserTypes, ContextsInv, SessionInv, CallInv,
        browserVars, configVars, contextVars, chromeVars, toolCallVars
  <2>2. CASE BrowserNext
    <3>1. Profiles # {}
      BY BrowserAssumption
    <3> QED BY <2>2, <3>1, ConfigStep, ChromeDiesStep, GetProfileStep, EnsureStep, ConnectStep,
               UseStep DEF BrowserNext, ToolCallStep
  <2> QED BY <2>1, <2>2
<1> QED BY <1>1, BrowserInitInv, PTL DEF BrowserSpec

\* The session that a call works with is of its profile's Chrome, through every
\* crash, reload and shutdown, unless the call is lost or a removed context was
\* connected again (EnsureBrowserAvailable, StopRunningBrowser).
THEOREM CrashesAreHealedHolds == BrowserSpec => []CrashesAreHealed
<1>1. BrowserInv => CrashesAreHealed
  BY DEF BrowserInv, CallInv, CrashesAreHealed
<1> QED BY <1>1, BrowserInductive, PTL

-----------------------------------------------------------------------------
(***************************************************************************)
(* Workspace.  What is on its way for a file ends with an event that says  *)
(* whether there is a file, unless the file is muffled: every event of     *)
(* attributes that has a change before it has another one after it.  So    *)
(* when the last change is processed the cache has what is on disk.        *)
(***************************************************************************)
Events == {"create", "write", "remove", "chmod"}
FileEvents == Events \cup {NoEvent}

WorkspaceTypes ==
    /\ edits \in Nat /\ chmods \in Nat
    /\ disk \in [Files -> Nat] /\ cache \in [Files -> Nat]
    /\ agents \in Nat /\ prompt \in Nat /\ replaced \in BOOLEAN
    /\ bootRead \in Nat /\ bootHas \in BOOLEAN /\ boot \in {"agents", "soul", "done"}
    /\ manager \in {"new", "loading", "ready", "closing", "closed"}
    /\ hidden \in BOOLEAN /\ watching = (manager = "ready" /\ ~hidden)
    /\ raised \in Seq(Files \X Events)
    /\ timers \in [Files -> FileEvents] /\ callback \in [Files -> FileEvents]
    /\ fresh \subseteq Files

\* The cache and the configuration have the file as it is.
Followed(f) == cache[f] = disk[f] /\ (disk[f] # 0 => Applied(f))

\* The event says of the file's version what is so.
Fits(e, version) == e = "remove" <=> version = 0

\* The places of the file's events and of its changes in the watcher's channel.
EventsOf(f) == {i \in DOMAIN raised : raised[i][1] = f}
ChangesOf(f) == {i \in EventsOf(f) : IsChange(raised[i][2])}

\* The last change that is on its way is right.
LastIsRight(f) ==
    /\ \A i \in ChangesOf(f) :
           (\A j \in EventsOf(f) : j <= i) => Fits(raised[i][2], disk[f])
    /\ EventsOf(f) = {} =>
           /\ IsChange(timers[f]) => Fits(timers[f], disk[f])
           /\ timers[f] = NoEvent /\ IsChange(callback[f]) => Fits(callback[f], disk[f])

\* After an event of attributes that has a change before it comes a change.
ChangesComeLast(f) ==
    /\ \A k \in EventsOf(f) :
           \/ IsChange(raised[k][2])
           \/ \E j \in ChangesOf(f) : j > k
           \/ /\ \A i \in ChangesOf(f) : i > k
              /\ ~IsChange(timers[f]) /\ ~IsChange(callback[f])
    /\ IsChange(callback[f]) /\ timers[f] = "chmod" => ChangesOf(f) # {}

\* A file that was changed since all was up.
FreshInv(f) ==
    /\ ~Changing(f) => Followed(f)
    /\ cache[f] = disk[f] /\ disk[f] # 0 => Applied(f)
    /\ LastIsRight(f) /\ ChangesComeLast(f)

WorkspaceInv ==
    /\ WorkspaceTypes
    /\ \A f \in Files : disk[f] <= edits /\ cache[f] <= edits
    /\ fresh # {} => boot = "done"
    /\ fresh # {} => manager \in {"ready", "closing", "closed"}
    /\ boot = "done" => ~bootHas
    /\ watching => \A f \in fresh \ muffled : FreshInv(f)
    /\ manager = "closed" => \A f \in Files : cache[f] = 0

\* At the start nothing is on its way.
LEMMA WorkspaceInitInv == WorkspaceInit => WorkspaceInv
<1> SUFFICES ASSUME WorkspaceInit PROVE WorkspaceInv
  OBVIOUS
<1>1. /\ edits \in Nat /\ chmods \in Nat /\ disk \in [Files -> Nat] /\ cache \in [Files -> Nat]
      /\ agents \in Nat /\ prompt \in Nat /\ bootRead \in Nat
      /\ \A f \in Files : disk[f] <= edits /\ cache[f] <= edits
  BY DEF WorkspaceInit
<1>2. /\ boot = "agents" /\ bootHas = FALSE /\ replaced = FALSE
      /\ timers \in [Files -> FileEvents] /\ callback \in [Files -> FileEvents]
  BY DEF WorkspaceInit, FileEvents, NoEvent
<1>3. /\ manager = "new" /\ watching = FALSE /\ hidden \in BOOLEAN /\ raised = <<>> /\ fresh = {}
  BY DEF WorkspaceInit
<1>4. raised \in Seq(Files \X Events)
  BY <1>3
<1> QED BY <1>1, <1>2, <1>3, <1>4 DEF WorkspaceInv, WorkspaceTypes

\* The places in the channel are natural numbers, and hold events of files.
LEMMA Places2 ==
    ASSUME WorkspaceTypes
    PROVE  /\ DOMAIN raised = 1..Len(raised) /\ Len(raised) \in Nat
           /\ \A i \in DOMAIN raised :
                  i \in Nat /\ raised[i][1] \in Files /\ raised[i][2] \in Events
<1>1. raised \in Seq(Files \X Events)
  BY DEF WorkspaceTypes
<1>2. \A i \in 1..Len(raised) : raised[i] \in Files \X Events
  BY <1>1
<1> QED BY <1>1, <1>2

\* A change is on its way in a timer, in a callback or in the channel.
LEMMA ChangingIs ==
    ASSUME WorkspaceTypes, NEW f \in Files
    PROVE  Changing(f) <=> IsChange(timers[f]) \/ IsChange(callback[f]) \/ ChangesOf(f) # {}
  BY Places2 DEF Changing, ChangesOf, EventsOf

\* An event joins the channel.
LEMMA Joined ==
    ASSUME WorkspaceTypes, NEW f \in Files, NEW e \in Events,
           raised' = Append(raised, <<f, e>>)
    PROVE  /\ raised' \in Seq(Files \X Events)
           /\ \E n \in Nat :
                  /\ raised'[n][1] = f /\ raised'[n][2] = e
                  /\ EventsOf(f)' = EventsOf(f) \cup {n}
                  /\ \A g \in Files \ {f} : EventsOf(g)' = EventsOf(g)
                  /\ \A i \in DOMAIN raised : i < n /\ raised'[i] = raised[i]
<1>1. raised \in Seq(Files \X Events) /\ <<f, e>> \in Files \X Events
  BY DEF WorkspaceTypes
<1>2. raised' \in Seq(Files \X Events)
  BY <1>1
<1>3. PICK n \in Nat : n = Len(raised) + 1
  BY <1>1
<1>4. /\ Len(raised') = n /\ raised'[n] = <<f, e>>
      /\ \A i \in 1..Len(raised) : raised'[i] = raised[i]
  BY <1>1, <1>3
<1>5. /\ DOMAIN raised = 1..Len(raised) /\ DOMAIN raised' = 1..n
      /\ \A i \in DOMAIN raised : i < n /\ raised'[i] = raised[i]
  BY <1>1, <1>2, <1>3, <1>4
<1>6. DOMAIN raised' = DOMAIN raised \cup {n}
  BY <1>1, <1>3, <1>5
<1>7. raised'[n][1] = f /\ raised'[n][2] = e
  BY <1>4
<1>8. \A g \in Files : EventsOf(g)' = EventsOf(g) \cup (IF g = f THEN {n} ELSE {})
  BY <1>5, <1>6, <1>7 DEF EventsOf
<1>9. EventsOf(f)' = EventsOf(f) \cup {n}
  BY <1>8
<1>10. \A g \in Files \ {f} : EventsOf(g)' = EventsOf(g)
  BY <1>8
<1>11. \A i \in DOMAIN raised : i < n /\ raised'[i] = raised[i]
  BY <1>5
<1> QED BY <1>2, <1>7, <1>9, <1>10, <1>11

\* The first event leaves the channel.
LEMMA Left ==
    ASSUME WorkspaceTypes, raised # <<>>, raised' = Tail(raised)
    PROVE  /\ raised' \in Seq(Files \X Events)
           /\ 1 \in DOMAIN raised /\ Head(raised) = raised[1]
           /\ \A g \in Files, i \in Nat :
                  i \in EventsOf(g)' <=> i # 0 /\ i + 1 \in EventsOf(g)
           /\ \A g \in Files : \A i \in EventsOf(g)' : i \in Nat \ {0} /\ raised'[i] = raised[i + 1]
<1>1. raised \in Seq(Files \X Events)
  BY DEF WorkspaceTypes
<1>2. PICK n \in Nat : n = Len(raised) /\ n > 0
  BY <1>1
<1>3. /\ raised' \in Seq(Files \X Events) /\ Len(raised') = n - 1 /\ Head(raised) = raised[1]
      /\ \A i \in 1..(n - 1) : raised'[i] = raised[i + 1]
  BY <1>1, <1>2
<1>4. DOMAIN raised = 1..n /\ DOMAIN raised' = 1..(n - 1)
  BY <1>1, <1>2, <1>3
<1>5. \A i \in Nat : i \in DOMAIN raised' <=> i # 0 /\ i + 1 \in DOMAIN raised
  BY <1>2, <1>4
<1>6. \A i \in DOMAIN raised' : i \in Nat \ {0} /\ raised'[i] = raised[i + 1]
  BY <1>2, <1>3, <1>4
<1>7. 1 \in DOMAIN raised
  BY <1>2, <1>4
<1>8. \A g \in Files : \A i \in EventsOf(g)' : i \in Nat \ {0} /\ raised'[i] = raised[i + 1]
  BY <1>6 DEF EventsOf
<1>9. \A g \in Files, i \in Nat : i \in EventsOf(g)' <=> i # 0 /\ i + 1 \in EventsOf(g)
  BY <1>5, <1>6 DEF EventsOf
<1> QED BY <1>3, <1>7, <1>8, <1>9

\* What a step does not touch of a file.
Untouched(f) ==
    /\ disk'[f] = disk[f] /\ cache'[f] = cache[f] /\ (Applied(f) => Applied(f)')
    /\ timers'[f] = timers[f] /\ callback'[f] = callback[f]
    /\ EventsOf(f)' = EventsOf(f) /\ \A i \in EventsOf(f) : raised'[i] = raised[i]

\* A file that a step does not touch stays as it should be.
LEMMA FreshStays ==
    ASSUME WorkspaceTypes, WorkspaceTypes', NEW f \in Files, FreshInv(f), Untouched(f)
    PROVE  FreshInv(f)'
<1>1. ChangesOf(f)' = ChangesOf(f)
  BY DEF Untouched, ChangesOf
<1>2. Changing(f)' <=> Changing(f)
  <2>1. Changing(f)' <=> (IsChange(timers[f]) \/ IsChange(callback[f]) \/ ChangesOf(f) # {})'
    BY ChangingIs, PTL
  <2> QED BY <1>1, <2>1, ChangingIs DEF Untouched, IsChange
<1>3. (Followed(f) => Followed(f)') /\ LastIsRight(f)'
  BY <1>1 DEF Untouched, Followed, FreshInv, LastIsRight, Fits, IsChange, ChangesOf
<1>4. ChangesComeLast(f)'
  BY <1>1 DEF Untouched, FreshInv, ChangesComeLast, IsChange
<1> QED BY <1>2, <1>3, <1>4 DEF FreshInv, Untouched

\* A file is changed: a right event joins, after all others of the file.
LEMMA EditStep ==
    ASSUME WorkspaceInv, NEW f \in Files,
           Edit(f) \/ (Replace(f) /\ Report(f, "create") /\ muffled' = muffled \ {f})
    PROVE  WorkspaceInv'
<1>1. /\ edits' = edits + 1 /\ UNCHANGED <<chmods, manager, hidden, watching>>
      /\ UNCHANGED <<timers, callback, cache, agents, prompt, replaced, boot, bootHas, bootRead>>
      /\ muffled' = muffled \ {f} /\ fresh' = IF Up THEN fresh \cup {f} ELSE fresh
  BY DEF Edit, Replace, bootVars, agentVars
<1>2. PICK v \in Nat, e \in {"create", "write", "remove"} :
          /\ disk' = [disk EXCEPT ![f] = v] /\ Report(f, e)
          /\ IF e = "remove" THEN v = 0 ELSE v = edits + 1
  BY DEF Edit, Replace, WorkspaceInv, WorkspaceTypes
<1>3. /\ edits \in Nat /\ edits' \in Nat /\ disk' \in [Files -> Nat] /\ disk'[f] = v
      /\ \A g \in Files \ {f} : disk'[g] = disk[g]
  BY <1>1, <1>2 DEF WorkspaceInv, WorkspaceTypes
<1>4. e \in Events /\ WorkspaceTypes
  BY DEF Events, WorkspaceInv
<1>5. raised' \in Seq(Files \X Events)
  BY <1>2, <1>4, Joined DEF Report, WorkspaceTypes
<1>6. WorkspaceTypes'
  BY <1>1, <1>3, <1>5 DEF WorkspaceInv, WorkspaceTypes
<1>7. \A g \in Files : disk'[g] <= edits' /\ cache'[g] <= edits'
  BY <1>1, <1>2, <1>3 DEF WorkspaceInv, WorkspaceTypes
<1>8. /\ fresh' # {} => boot' = "done"
      /\ fresh' # {} => manager' \in {"ready", "closing", "closed"}
  BY <1>1 DEF WorkspaceInv, WorkspaceTypes, Up
<1>9. ASSUME watching', NEW g \in fresh' \ muffled' PROVE FreshInv(g)'
  <2>1. PICK n \in Nat :
            /\ raised'[n][1] = f /\ raised'[n][2] = e
            /\ EventsOf(f)' = EventsOf(f) \cup {n}
            /\ \A h \in Files \ {f} : EventsOf(h)' = EventsOf(h)
            /\ \A i \in DOMAIN raised : i < n /\ raised'[i] = raised[i]
    <3>1. watching
      BY <1>1, <1>9, <1>4 DEF WorkspaceTypes
    <3> QED BY <1>2, <1>4, <3>1, Joined DEF Report
  <2>2. CASE g = f
    <3>1. IsChange(e)
      BY DEF IsChange, NoEvent
    <3>2. n \in ChangesOf(f)' /\ n \in EventsOf(f)'
      BY <2>1, <3>1 DEF ChangesOf, IsChange
    <3>3. \A i \in EventsOf(f)' : i = n \/ i < n
      BY <2>1 DEF EventsOf
    <3>4. Changing(f)'
      <4>1. (Changing(f) <=> IsChange(timers[f]) \/ IsChange(callback[f]) \/ ChangesOf(f) # {})'
        BY <1>6, ChangingIs, PTL
      <4> QED BY <3>2, <4>1
    <3>5. ~(cache'[f] = disk'[f] /\ disk'[f] # 0)
      BY <1>1, <1>2, <1>3 DEF WorkspaceInv, WorkspaceTypes
    <3>6. LastIsRight(f)'
      <4>1. \A i \in ChangesOf(f)' : (\A j \in EventsOf(f)' : j <= i) => i = n
        BY <3>2, <3>3, <2>1, Places2, <1>4 DEF ChangesOf, EventsOf
      <4>2. Fits(e, disk'[f])
        BY <1>2, <1>3 DEF Fits
      <4> QED BY <2>1, <3>2, <4>1, <4>2 DEF LastIsRight, Fits
    <3>7. ChangesComeLast(f)'
      BY <3>1, <3>2, <3>3, <2>1 DEF ChangesComeLast
    <3> QED BY <2>2, <3>4, <3>5, <3>6, <3>7 DEF FreshInv
  <2>3. CASE g # f
    <3>1. g \in Files /\ FreshInv(g)
      BY <1>1, <1>4, <1>9, <2>3 DEF WorkspaceInv, WorkspaceTypes
    <3>2. Untouched(g)
      BY <1>1, <1>3, <2>1, <2>3, <3>1 DEF Untouched, EventsOf, Applied
    <3> QED BY <1>4, <1>6, <3>1, <3>2, FreshStays
  <2> QED BY <2>2, <2>3
<1>10. manager' = "closed" => \A g \in Files : cache'[g] = 0
  BY <1>1 DEF WorkspaceInv
<1>11. boot' = "done" => ~bootHas'
  BY <1>1 DEF WorkspaceInv
<1> QED BY <1>6, <1>7, <1>8, <1>9, <1>10, <1>11 DEF WorkspaceInv

\* A file is replaced, and the end of the old one joins after that: it is muffled.
LEMMA ReplaceStep ==
    ASSUME WorkspaceInv, NEW f \in Files, Replace(f), muffled' = muffled \cup {f},
           NEW e \in {"chmod", "remove"},
           raised' = IF watching THEN Append(Append(raised, <<f, "create">>), <<f, e>>)
                     ELSE raised
    PROVE  WorkspaceInv'
<1>1. /\ edits' = edits + 1 /\ UNCHANGED <<chmods, manager, hidden, watching>>
      /\ UNCHANGED <<timers, callback, cache, agents, prompt, replaced, boot, bootHas, bootRead>>
      /\ disk' = [disk EXCEPT ![f] = edits + 1]
      /\ fresh' = IF Up THEN fresh \cup {f} ELSE fresh
  BY DEF Replace, bootVars, agentVars
<1>2. WorkspaceTypes /\ <<f, "create">> \in Files \X Events /\ <<f, e>> \in Files \X Events
  BY DEF WorkspaceInv, Events
<1>3. PICK one \in Files \X Events : one = <<f, "create">>
  BY <1>2
<1>4. PICK two \in Files \X Events : two = <<f, e>>
  BY <1>2
<1>5. /\ raised \in Seq(Files \X Events) /\ Append(raised, one) \in Seq(Files \X Events)
      /\ watching => raised' = Append(Append(raised, one), two)
      /\ ~watching => raised' = raised
  BY <1>2, <1>3, <1>4 DEF WorkspaceTypes
<1>6. raised' \in Seq(Files \X Events)
  <2>1. Append(Append(raised, one), two) \in Seq(Files \X Events)
    BY <1>5
  <2> QED BY <1>5, <2>1
<1>7. WorkspaceTypes'
  BY <1>1, <1>2, <1>6 DEF WorkspaceTypes
<1>8. /\ \A g \in Files : disk'[g] <= edits' /\ cache'[g] <= edits'
      /\ \A g \in Files \ {f} : disk'[g] = disk[g]
  <2>1. /\ edits \in Nat /\ edits' = edits + 1 /\ disk \in [Files -> Nat] /\ cache' = cache
        /\ cache \in [Files -> Nat] /\ \A g \in Files : disk[g] <= edits /\ cache[g] <= edits
    BY <1>1 DEF WorkspaceInv, WorkspaceTypes
  <2> QED BY <1>1, <2>1
<1>9. ASSUME watching', NEW g \in fresh' \ muffled' PROVE FreshInv(g)'
  <2>1. g \in Files /\ g # f /\ FreshInv(g)
    BY <1>1, <1>2, <1>9 DEF WorkspaceInv, WorkspaceTypes
  <2>2. PICK n \in Nat : n = Len(raised)
    BY <1>5
  <2>3. /\ Len(raised') = n + 2 /\ raised'[n + 1] = one /\ raised'[n + 2] = two
        /\ \A i \in 1..n : raised'[i] = raised[i]
    <3>1. watching /\ raised' = Append(Append(raised, one), two)
      BY <1>1, <1>5, <1>9
    <3>2. PICK mid \in Seq(Files \X Events) : mid = Append(raised, one)
      BY <1>5
    <3>3. Len(mid) = n + 1 /\ mid[n + 1] = one /\ \A i \in 1..n : mid[i] = raised[i]
      BY <1>5, <2>2, <3>2
    <3>4. /\ Len(Append(mid, two)) = n + 2 /\ Append(mid, two)[n + 2] = two
          /\ \A i \in 1..(n + 1) : Append(mid, two)[i] = mid[i]
      BY <2>2, <3>3
    <3>5. n + 1 \in 1..(n + 1) /\ 1..n \subseteq 1..(n + 1)
      OBVIOUS
    <3> QED BY <3>1, <3>2, <3>3, <3>4, <3>5
  <2>4. /\ DOMAIN raised = 1..n /\ DOMAIN raised' = 1..(n + 2)
        /\ raised'[n + 1][1] # g /\ raised'[n + 2][1] # g
    BY <1>3, <1>4, <1>5, <1>6, <2>1, <2>2, <2>3
  <2>5. EventsOf(g)' = EventsOf(g) /\ \A i \in EventsOf(g) : raised'[i] = raised[i]
    <3>1. \A i \in 1..(n + 2) : i \in 1..n \/ i = n + 1 \/ i = n + 2
      OBVIOUS
    <3>2. 1..n \subseteq 1..(n + 2)
      OBVIOUS
    <3> QED BY <2>3, <2>4, <3>1, <3>2 DEF EventsOf
  <2>6. Untouched(g)
    BY <1>1, <1>8, <2>1, <2>5 DEF Untouched, Applied
  <2> QED BY <1>2, <1>7, <2>1, <2>6, FreshStays
<1>10. /\ fresh' # {} => boot' = "done" /\ manager' \in {"ready", "closing", "closed"}
       /\ boot' = "done" => ~bootHas'
       /\ manager' = "closed" => \A g \in Files : cache'[g] = 0
  BY <1>1 DEF WorkspaceInv, Up
<1> QED BY <1>7, <1>8, <1>9, <1>10 DEF WorkspaceInv

\* Attributes are changed: an event joins that muffles a change before it.
LEMMA ChmodStep == ASSUME WorkspaceInv, NEW f \in Files, Chmod(f) PROVE WorkspaceInv'
<1>1. /\ chmods' = chmods + 1 /\ Report(f, "chmod")
      /\ UNCHANGED <<disk, edits, manager, hidden, watching, timers, callback, cache>>
      /\ UNCHANGED <<agents, prompt, replaced, boot, bootHas, bootRead, fresh>>
      /\ muffled' = IF Changing(f) THEN muffled \cup {f} ELSE muffled
  BY DEF Chmod, bootVars, agentVars
<1>2. "chmod" \in Events /\ WorkspaceTypes
  BY DEF Events, WorkspaceInv
<1>3. raised' \in Seq(Files \X Events)
  BY <1>1, <1>2, Joined DEF Report, WorkspaceTypes
<1>4. WorkspaceTypes'
  BY <1>1, <1>3 DEF WorkspaceInv, WorkspaceTypes
<1>5. ASSUME watching', NEW g \in fresh' \ muffled' PROVE FreshInv(g)'
  <2>1. PICK n \in Nat :
            /\ raised'[n][1] = f /\ raised'[n][2] = "chmod"
            /\ EventsOf(f)' = EventsOf(f) \cup {n}
            /\ \A h \in Files \ {f} : EventsOf(h)' = EventsOf(h)
            /\ \A i \in DOMAIN raised : i < n /\ raised'[i] = raised[i]
    <3>1. watching
      BY <1>1, <1>5, <1>2 DEF WorkspaceTypes
    <3> QED BY <1>1, <1>2, <3>1, Joined DEF Report
  <2>2. g \in Files /\ FreshInv(g)
    BY <1>1, <1>2, <1>5 DEF WorkspaceInv, WorkspaceTypes
  <2>3. CASE g = f
    <3>1. ~Changing(f) /\ Followed(f)
      BY <1>1, <1>5, <2>2, <2>3 DEF FreshInv
    <3>2. ~IsChange(timers[f]) /\ ~IsChange(callback[f]) /\ ChangesOf(f) = {}
      BY <1>2, <3>1, ChangingIs
    <3>3. ChangesOf(f)' = {}
      BY <2>1, <3>2 DEF ChangesOf, EventsOf, IsChange
    <3>4. (Changing(f) <=> IsChange(timers[f]) \/ IsChange(callback[f]) \/ ChangesOf(f) # {})'
      BY <1>4, ChangingIs, PTL
    <3>5. ~IsChange(timers'[f]) /\ ~IsChange(callback'[f])
      BY <1>1, <3>2 DEF IsChange
    <3>6. LastIsRight(f)' /\ ChangesComeLast(f)'
      BY <3>3, <3>5 DEF LastIsRight, ChangesComeLast, IsChange
    <3>7. Followed(f)'
      BY <1>1, <3>1 DEF Followed, Applied
    <3> QED BY <2>3, <3>6, <3>7 DEF FreshInv, Followed
  <2>4. CASE g # f
    <3>1. Untouched(g)
      BY <1>1, <2>1, <2>2, <2>4 DEF Untouched, EventsOf, Applied
    <3> QED BY <1>2, <1>4, <2>2, <3>1, FreshStays
  <2> QED BY <2>3, <2>4
<1> QED BY <1>1, <1>4, <1>5 DEF WorkspaceInv

\* The daemon applies a file: the configuration stays one.
LEMMA ReloadType ==
    ASSUME WorkspaceTypes, NEW f \in Files, NEW v \in Nat, Reload(f, v)
    PROVE  agents' \in Nat /\ prompt' \in Nat /\ replaced' \in BOOLEAN
<1>1. agents' \in Nat /\ prompt' \in Nat
  BY DEF Reload, WorkspaceTypes
<1> QED BY <1>1 DEF Reload

\* It is then in the configuration, and another file that was is, too, unless it
\* is SOUL.md and the agents were replaced.
LEMMA ReloadApplies ==
    ASSUME NEW f \in Files, Reload(f, disk[f]), UNCHANGED disk
    PROVE  /\ Applied(f)'
           /\ \A g \in Files \ {f} : Applied(g) => Applied(g)'
<1>1. AgentsFile # SoulFile
  BY FilesAssumption
<1>2. CASE f = AgentsFile
  BY <1>1, <1>2 DEF Reload, Applied
<1>3. CASE f = SoulFile
  BY <1>1, <1>3 DEF Reload, Applied
<1>4. CASE f # AgentsFile /\ f # SoulFile
  <2>1. agents' = agents /\ prompt' = prompt /\ (replaced => replaced')
    BY <1>4 DEF Reload
  <2> QED BY <1>4, <2>1 DEF Applied
<1> QED BY <1>2, <1>3, <1>4

\* Before all is up no file counts as changed.
LEMMA StartupStep ==
    ASSUME WorkspaceInv,
           (\E f \in Files : LoadFile(f)) \/ StartWatcher \/ ReadBootstrap \/ ApplyBootstrap
    PROVE  WorkspaceInv'
<1>1. UNCHANGED <<disk, edits, chmods, hidden, raised, timers, callback, fresh, muffled>>
  BY DEF LoadFile, StartWatcher, ReadBootstrap, ApplyBootstrap, watchVars, historyVars
<1>2. fresh = {}
  BY DEF LoadFile, StartWatcher, ReadBootstrap, ApplyBootstrap, WorkspaceInv
<1>3. /\ cache' \in [Files -> Nat] /\ \A g \in Files : cache'[g] <= edits
      /\ manager' = "closed" => \A g \in Files : cache'[g] = 0
  <2>1. ASSUME NEW f \in Files, LoadFile(f)
        PROVE  /\ cache' \in [Files -> Nat] /\ \A g \in Files : cache'[g] <= edits
               /\ manager' # "closed"
    BY <2>1 DEF LoadFile, WorkspaceInv, WorkspaceTypes
  <2>2. CASE UNCHANGED cache /\ manager' # "closed"
    BY <2>2 DEF WorkspaceInv, WorkspaceTypes
  <2>3. CASE UNCHANGED <<cache, manager>>
    BY <2>3 DEF WorkspaceInv, WorkspaceTypes
  <2> QED BY <2>1, <2>2, <2>3 DEF StartWatcher, ReadBootstrap, ApplyBootstrap
<1>4. /\ agents' \in Nat /\ prompt' \in Nat /\ replaced' \in BOOLEAN
      /\ bootRead' \in Nat /\ bootHas' \in BOOLEAN /\ boot' \in {"agents", "soul", "done"}
      /\ boot' = "done" => ~bootHas'
  <2>1. WorkspaceTypes /\ (boot = "done" => ~bootHas)
    BY DEF WorkspaceInv
  <2>2. BootFile \in Files
    BY FilesAssumption DEF BootFile
  <2>3. CASE (\E f \in Files : LoadFile(f)) \/ StartWatcher
    BY <2>1, <2>3 DEF LoadFile, StartWatcher, WorkspaceTypes, bootVars, agentVars
  <2>4. CASE ReadBootstrap
    BY <2>1, <2>2, <2>4 DEF ReadBootstrap, WorkspaceTypes, agentVars
  <2>5. CASE ApplyBootstrap
    <3>1. agents' \in Nat /\ prompt' \in Nat /\ replaced' \in BOOLEAN
      <4>1. CASE UNCHANGED agentVars
        BY <2>1, <4>1 DEF WorkspaceTypes, agentVars
      <4>2. CASE Reload(BootFile, bootRead)
        BY <2>1, <2>2, <4>2, ReloadType DEF WorkspaceTypes
      <4> QED BY <2>5, <4>1, <4>2 DEF ApplyBootstrap
    <3> QED BY <2>1, <2>5, <3>1 DEF ApplyBootstrap, WorkspaceTypes
  <2> QED BY <2>3, <2>4, <2>5
<1>5. /\ manager' \in {"new", "loading", "ready", "closing", "closed"}
      /\ watching' = (manager' = "ready" /\ ~hidden)
  <2>1. WorkspaceTypes
    BY DEF WorkspaceInv
  <2>2. ASSUME NEW f \in Files, LoadFile(f)
        PROVE  manager' = "loading" /\ watching' = FALSE
    BY <2>1, <2>2 DEF LoadFile, WorkspaceTypes
  <2>3. CASE StartWatcher
    BY <2>1, <2>3 DEF StartWatcher, WorkspaceTypes
  <2>4. CASE ReadBootstrap \/ ApplyBootstrap
    <3>1. UNCHANGED <<manager, watching>>
      BY <2>4 DEF ReadBootstrap, ApplyBootstrap
    <3> QED BY <2>1, <3>1 DEF WorkspaceTypes
  <2> QED BY <2>2, <2>3, <2>4
<1>6. WorkspaceTypes'
  BY <1>1, <1>3, <1>4, <1>5 DEF WorkspaceInv, WorkspaceTypes
<1> QED BY <1>1, <1>2, <1>3, <1>4, <1>6 DEF WorkspaceInv

\* Close; nothing is expected of the files any more.
LEMMA CloseStep == ASSUME WorkspaceInv, CloseWatcher \/ ClearCache PROVE WorkspaceInv'
<1>1. /\ UNCHANGED <<disk, edits, chmods, hidden, agents, prompt, replaced, boot, bootHas>>
      /\ UNCHANGED <<bootRead, raised, callback, fresh, muffled>> /\ ~watching'
      /\ timers' = timers \/ timers' = [g \in Files |-> NoEvent]
      /\ \/ manager' = "closing" /\ UNCHANGED cache
         \/ manager' = "closed" /\ cache' = [g \in Files |-> 0]
  BY DEF CloseWatcher, ClearCache, bootVars, agentVars, watchVars, historyVars, WorkspaceInv,
         WorkspaceTypes
<1>2. WorkspaceTypes
  BY DEF WorkspaceInv
<1>3. timers' \in [Files -> FileEvents] /\ cache' \in [Files -> Nat] /\ watching' = FALSE
  BY <1>1, <1>2 DEF WorkspaceTypes, FileEvents, CloseWatcher, ClearCache
<1>4. WorkspaceTypes'
  BY <1>1, <1>2, <1>3 DEF WorkspaceTypes
<1>5. \A g \in Files : cache'[g] <= edits /\ (manager' = "closed" => cache'[g] = 0)
  BY <1>1, <1>2 DEF WorkspaceInv, WorkspaceTypes
<1> QED BY <1>1, <1>4, <1>5 DEF WorkspaceInv

\* The event that was raised first takes the place of the one the timer had.
LEMMA DebounceStep == ASSUME WorkspaceInv, DebounceEvent PROVE WorkspaceInv'
<1>1. /\ UNCHANGED <<disk, edits, chmods, manager, hidden, watching, callback, cache>>
      /\ UNCHANGED <<agents, prompt, replaced, boot, bootHas, bootRead, fresh, muffled>>
      /\ raised # <<>> /\ raised' = Tail(raised)
      /\ timers' = [timers EXCEPT ![Head(raised)[1]] = Head(raised)[2]]
  BY DEF DebounceEvent, bootVars, agentVars, historyVars
<1>2. WorkspaceTypes
  BY DEF WorkspaceInv
<1>3. /\ raised' \in Seq(Files \X Events)
      /\ 1 \in DOMAIN raised /\ Head(raised) = raised[1]
      /\ \A g \in Files, i \in Nat : i \in EventsOf(g)' <=> i # 0 /\ i + 1 \in EventsOf(g)
      /\ \A g \in Files : \A i \in EventsOf(g)' : i \in Nat \ {0} /\ raised'[i] = raised[i + 1]
  BY <1>1, <1>2, Left
<1>4. PICK f \in Files, e \in Events : f = raised[1][1] /\ e = raised[1][2]
  BY <1>2, <1>3, Places2
<1>5. /\ timers' \in [Files -> FileEvents] /\ timers'[f] = e
      /\ \A g \in Files \ {f} : timers'[g] = timers[g]
  BY <1>1, <1>2, <1>3, <1>4 DEF WorkspaceTypes, FileEvents
<1>6. WorkspaceTypes'
  BY <1>1, <1>2, <1>3, <1>5 DEF WorkspaceTypes
<1>ch. ASSUME NEW h \in Files
       PROVE  (Changing(h) <=> IsChange(timers[h]) \/ IsChange(callback[h]) \/ ChangesOf(h) # {})'
  <2>1. DOMAIN raised' = 1..Len(raised')
    BY <1>3
  <2> QED BY <2>1 DEF Changing, ChangesOf, EventsOf
<1>7. ASSUME NEW g \in Files PROVE \A i \in EventsOf(g) : i \in Nat /\ i > 0 /\ i >= 1
  BY <1>2, Places2 DEF EventsOf
<1>8. ASSUME NEW g \in Files
      PROVE  /\ \A i \in Nat : i \in ChangesOf(g)' <=> i # 0 /\ i + 1 \in ChangesOf(g)
             /\ \A i \in ChangesOf(g)' : i \in Nat
  BY <1>3 DEF ChangesOf, IsChange
<1>9. \A g \in Files \ {f} : \A i \in EventsOf(g) : i > 1
  <2> SUFFICES ASSUME NEW g \in Files \ {f}, NEW i \in EventsOf(g) PROVE i > 1
    OBVIOUS
  <2>1. i # 1
    BY <1>4 DEF EventsOf
  <2> QED BY <1>7, <2>1
<1>10. ASSUME watching', NEW g \in fresh' \ muffled' PROVE FreshInv(g)'
  <2>1. g \in Files /\ FreshInv(g)
    BY <1>1, <1>2, <1>10 DEF WorkspaceInv, WorkspaceTypes
  <2>2. /\ Changing(g) <=> IsChange(timers[g]) \/ IsChange(callback[g]) \/ ChangesOf(g) # {}
        /\ Changing(g)' <=> (IsChange(timers[g]) \/ IsChange(callback[g]) \/ ChangesOf(g) # {})'
    <3>1. \A h \in Files : Changing(h) <=>
              IsChange(timers[h]) \/ IsChange(callback[h]) \/ ChangesOf(h) # {}
      BY <1>2, ChangingIs
    <3> QED BY <2>1, <3>1, <1>ch
  <2>3. Followed(g) => Followed(g)'
    BY <1>1 DEF Followed, Applied
  <2>4. cache'[g] = disk'[g] /\ disk'[g] # 0 => Applied(g)'
    BY <1>1, <2>1 DEF FreshInv, Applied
  <2>5. callback'[g] = callback[g] /\ disk'[g] = disk[g]
    BY <1>1
  <2>6. CASE g # f
    <3>1. \A i \in EventsOf(g) : i > 1 /\ i \in Nat /\ i - 1 \in EventsOf(g)' /\ i - 1 \in Nat
      BY <1>3, <1>7, <1>9, <2>1, <2>6
    <3>2. \A i \in ChangesOf(g) : i - 1 \in ChangesOf(g)'
      BY <1>8, <2>1, <3>1 DEF ChangesOf
    <3>3. timers'[g] = timers[g]
      BY <1>5, <2>1, <2>6
    <3>4. Changing(g)' <=> Changing(g)
      BY <1>8, <2>1, <2>2, <2>5, <3>2, <3>3 DEF IsChange
    <3>5. LastIsRight(g)'
      <4>1. ASSUME NEW i \in ChangesOf(g)', \A j \in EventsOf(g)' : j <= i
            PROVE  Fits(raised'[i][2], disk'[g])
        <5>1. i + 1 \in ChangesOf(g) /\ i \in Nat /\ raised'[i] = raised[i + 1]
          BY <1>3, <1>8, <2>1 DEF ChangesOf
        <5>2. \A j \in EventsOf(g) : j <= i + 1
          BY <3>1, <4>1, <5>1
        <5>3. Fits(raised[i + 1][2], disk[g])
          BY <2>1, <5>1, <5>2 DEF FreshInv, LastIsRight
        <5> QED BY <2>5, <5>1, <5>3 DEF Fits
      <4>2. EventsOf(g)' = {} => EventsOf(g) = {}
        BY <3>1
      <4>3. EventsOf(g)' = {} =>
                /\ IsChange(timers'[g]) => Fits(timers'[g], disk'[g])
                /\ timers'[g] = NoEvent /\ IsChange(callback'[g]) => Fits(callback'[g], disk'[g])
        BY <2>1, <2>5, <3>3, <4>2 DEF FreshInv, LastIsRight, Fits
      <4>4. \A i \in ChangesOf(g)' : (\A j \in EventsOf(g)' : j <= i) => Fits(raised'[i][2], disk'[g])
        BY <4>1
      <4> QED BY <4>3, <4>4 DEF LastIsRight, Fits, IsChange
    <3>6. ChangesComeLast(g)'
      <4>1. ASSUME NEW k \in EventsOf(g)'
            PROVE  \/ IsChange(raised'[k][2])
                   \/ \E j \in ChangesOf(g)' : j > k
                   \/ /\ \A i \in ChangesOf(g)' : i > k
                      /\ ~IsChange(timers'[g]) /\ ~IsChange(callback'[g])
        <5>1. k \in Nat /\ k + 1 \in EventsOf(g) /\ raised'[k] = raised[k + 1]
          BY <1>3, <2>1
        <5>2. CASE IsChange(raised[k + 1][2])
          BY <5>1, <5>2
        <5>3. ASSUME NEW j \in ChangesOf(g), j > k + 1 PROVE \E l \in ChangesOf(g)' : l > k
          <6>1. j - 1 \in ChangesOf(g)' /\ j \in Nat
            BY <3>1, <3>2 DEF ChangesOf
          <6> QED BY <5>1, <5>3, <6>1
        <5>4. CASE /\ \A i \in ChangesOf(g) : i > k + 1
                   /\ ~IsChange(timers[g]) /\ ~IsChange(callback[g])
          BY <1>8, <2>1, <2>5, <3>3, <5>1, <5>4
        <5> QED BY <2>1, <5>1, <5>2, <5>3, <5>4 DEF FreshInv, ChangesComeLast
      <4>2. IsChange(callback'[g]) /\ timers'[g] = "chmod" => ChangesOf(g)' # {}
        BY <2>1, <2>5, <3>2, <3>3 DEF FreshInv, ChangesComeLast
      <4> QED BY <4>1, <4>2 DEF ChangesComeLast, IsChange
    <3> QED BY <2>1, <2>3, <2>4, <3>4, <3>5, <3>6 DEF FreshInv
  <2>7. CASE g = f
    <3>1. 1 \in EventsOf(g) /\ timers'[g] = e /\ e = raised[1][2] /\ e # NoEvent
      BY <1>3, <1>4, <1>5, <2>7 DEF EventsOf, Events, NoEvent
    <3>2. \A i \in EventsOf(g) : i = 1 \/ (i > 1 /\ i \in Nat /\ i - 1 \in EventsOf(g)')
      BY <1>3, <1>7, <2>1
    <3>3. \A i \in ChangesOf(g) : i = 1 \/ (i > 1 /\ i \in Nat /\ i - 1 \in ChangesOf(g)')
      BY <1>8, <2>1, <3>2 DEF ChangesOf
    <3>4. IsChange(e) \/ (\E j \in ChangesOf(g) : j > 1)
          \/ (/\ \A i \in ChangesOf(g) : i > 1
              /\ ~IsChange(timers[g]) /\ ~IsChange(callback[g]))
      BY <2>1, <3>1 DEF FreshInv, ChangesComeLast
    <3>5. ~Changing(g)' => ~Changing(g)
      <4> SUFFICES ASSUME ~Changing(g)' PROVE ~Changing(g)
        OBVIOUS
      <4>1. ~IsChange(e) /\ ~IsChange(callback[g]) /\ ChangesOf(g)' = {}
        BY <2>2, <2>5, <3>1 DEF IsChange
      <4>2. 1 \notin ChangesOf(g)
        BY <3>1, <4>1 DEF ChangesOf
      <4>3. ChangesOf(g) = {}
        BY <3>3, <4>1, <4>2
      <4> QED BY <2>2, <3>4, <4>1, <4>3
    <3>6. LastIsRight(g)'
      <4>1. ASSUME NEW i \in ChangesOf(g)', \A j \in EventsOf(g)' : j <= i
            PROVE  Fits(raised'[i][2], disk'[g])
        <5>1. i + 1 \in ChangesOf(g) /\ i \in Nat /\ raised'[i] = raised[i + 1]
          BY <1>3, <1>8, <2>1 DEF ChangesOf
        <5>2. \A j \in EventsOf(g) : j <= i + 1
          BY <3>2, <4>1, <5>1
        <5>3. Fits(raised[i + 1][2], disk[g])
          BY <2>1, <5>1, <5>2 DEF FreshInv, LastIsRight
        <5> QED BY <2>5, <5>1, <5>3 DEF Fits
      <4>2. EventsOf(g)' = {} /\ IsChange(e) => Fits(e, disk'[g])
        <5> SUFFICES ASSUME EventsOf(g)' = {}, IsChange(e) PROVE Fits(e, disk'[g])
          OBVIOUS
        <5>1. 1 \in ChangesOf(g) /\ \A j \in EventsOf(g) : j <= 1
          BY <3>1, <3>2 DEF ChangesOf
        <5>2. Fits(e, disk[g])
          BY <2>1, <3>1, <5>1 DEF FreshInv, LastIsRight
        <5> QED BY <2>5, <5>2 DEF Fits
      <4>3. \A i \in ChangesOf(g)' : (\A j \in EventsOf(g)' : j <= i) => Fits(raised'[i][2], disk'[g])
        BY <4>1
      <4> QED BY <3>1, <4>2, <4>3 DEF LastIsRight, Fits, IsChange
    <3>7. ChangesComeLast(g)'
      <4>1. ASSUME NEW k \in EventsOf(g)'
            PROVE  \/ IsChange(raised'[k][2])
                   \/ \E j \in ChangesOf(g)' : j > k
                   \/ /\ \A i \in ChangesOf(g)' : i > k
                      /\ ~IsChange(timers'[g]) /\ ~IsChange(callback'[g])
        <5>1. k \in Nat /\ k # 0 /\ k + 1 \in EventsOf(g) /\ raised'[k] = raised[k + 1]
          BY <1>3, <2>1
        <5>2. CASE IsChange(raised[k + 1][2])
          BY <5>1, <5>2
        <5>3. ASSUME NEW j \in ChangesOf(g), j > k + 1 PROVE \E l \in ChangesOf(g)' : l > k
          <6>1. j - 1 \in ChangesOf(g)' /\ j \in Nat
            BY <3>3, <5>1, <5>3
          <6> QED BY <5>1, <5>3, <6>1
        <5>4. CASE /\ \A i \in ChangesOf(g) : i > k + 1
                   /\ ~IsChange(timers[g]) /\ ~IsChange(callback[g])
          <6>1. 1 \notin ChangesOf(g)
            BY <5>1, <5>4
          <6>2. ~IsChange(e)
            BY <3>1, <6>1 DEF ChangesOf
          <6> QED BY <1>8, <2>1, <2>5, <3>1, <5>1, <5>4, <6>2
        <5> QED BY <2>1, <5>1, <5>2, <5>3, <5>4 DEF FreshInv, ChangesComeLast
      <4>2. IsChange(callback'[g]) /\ timers'[g] = "chmod" => ChangesOf(g)' # {}
        <5> SUFFICES ASSUME IsChange(callback[g]), e = "chmod" PROVE ChangesOf(g)' # {}
          BY <2>5, <3>1 DEF IsChange
        <5>1. PICK j \in ChangesOf(g) : j > 1
          BY <3>4 DEF IsChange
        <5> QED BY <3>3, <5>1
      <4> QED BY <4>1, <4>2 DEF ChangesComeLast, IsChange
    <3> QED BY <2>1, <2>3, <2>4, <3>5, <3>6, <3>7 DEF FreshInv
  <2> QED BY <2>6, <2>7
<1> QED BY <1>1, <1>6, <1>10 DEF WorkspaceInv

\* The timer's event becomes the callback's.
LEMMA TimerStep == ASSUME WorkspaceInv, NEW f \in Files, TimerFires(f) PROVE WorkspaceInv'
<1>1. /\ UNCHANGED <<disk, edits, chmods, manager, hidden, watching, raised, cache>>
      /\ UNCHANGED <<agents, prompt, replaced, boot, bootHas, bootRead, fresh, muffled>>
      /\ timers[f] # NoEvent /\ callback[f] = NoEvent
      /\ timers' = [timers EXCEPT ![f] = NoEvent]
      /\ callback' = IF watching THEN [callback EXCEPT ![f] = timers[f]] ELSE callback
  BY DEF TimerFires, bootVars, agentVars, historyVars
<1>2. WorkspaceTypes
  BY DEF WorkspaceInv
<1>3. WorkspaceTypes'
  BY <1>1, <1>2 DEF WorkspaceTypes, FileEvents
<1>4. ASSUME watching', NEW g \in fresh' \ muffled' PROVE FreshInv(g)'
  <2>1. g \in Files /\ FreshInv(g) /\ watching
    BY <1>1, <1>2, <1>4 DEF WorkspaceInv, WorkspaceTypes
  <2>2. EventsOf(g)' = EventsOf(g) /\ ChangesOf(g)' = ChangesOf(g)
    BY <1>1 DEF EventsOf, ChangesOf, IsChange
  <2>3. CASE g # f
    <3>1. timers'[g] = timers[g] /\ callback'[g] = callback[g]
      BY <1>1, <1>2, <2>1, <2>3 DEF WorkspaceTypes
    <3>2. Untouched(g)
      BY <1>1, <2>2, <3>1 DEF Untouched, Applied
    <3> QED BY <1>2, <1>3, <2>1, <3>2, FreshStays
  <2>4. CASE g = f
    <3>1. timers'[f] = NoEvent /\ callback'[f] = timers[f]
      BY <1>1, <1>2, <2>1 DEF WorkspaceTypes
    <3>2. ~IsChange(NoEvent)
      BY DEF IsChange
    <3>3. Changing(f)' => Changing(f)
      BY <1>1, <3>1, <3>2 DEF Changing
    <3>4. Changing(f) => Changing(f)'
      BY <1>1, <3>1, <3>2 DEF Changing
    <3>5. (Followed(f)' <=> Followed(f)) /\ (Applied(f)' <=> Applied(f))
      BY <1>1 DEF Followed, Applied
    <3>6. LastIsRight(f)'
      BY <1>1, <2>1, <2>2, <2>4, <3>1, <3>2 DEF FreshInv, LastIsRight
    <3>7. ChangesComeLast(f)'
      BY <1>1, <2>1, <2>2, <2>4, <3>1, <3>2 DEF FreshInv, ChangesComeLast, NoEvent
    <3> QED BY <1>1, <2>1, <2>4, <3>3, <3>4, <3>5, <3>6, <3>7 DEF FreshInv
  <2> QED BY <2>3, <2>4
<1> QED BY <1>1, <1>3, <1>4 DEF WorkspaceInv

\* The manager takes the file as it is now; no change is on its way after the
\* last one, so the file is as that change says.
LEMMA ProcessStep == ASSUME WorkspaceInv, NEW f \in Files, ProcessEvent(f) PROVE WorkspaceInv'
<1>1. /\ UNCHANGED <<disk, edits, chmods, manager, hidden, watching, raised, timers>>
      /\ UNCHANGED <<boot, bootHas, bootRead, fresh, muffled>>
      /\ callback[f] # NoEvent /\ manager \in {"ready", "closed"}
      /\ callback' = [callback EXCEPT ![f] = NoEvent]
  BY DEF ProcessEvent, bootVars, historyVars
<1>2. WorkspaceTypes
  BY DEF WorkspaceInv
<1>3. PICK e \in Events : e = callback[f]
  BY <1>1, <1>2 DEF WorkspaceTypes, FileEvents
<1>4. callback'[f] = NoEvent /\ \A g \in Files \ {f} : callback'[g] = callback[g]
  BY <1>1, <1>2 DEF WorkspaceTypes
<1>5. \/ UNCHANGED <<cache, agentVars>> /\ (manager = "closed" \/ e = "chmod")
      \/ UNCHANGED <<cache, agentVars>> /\ manager = "ready" /\ e \in {"create", "write"} /\ disk[f] = 0
      \/ UNCHANGED <<cache, agentVars>> /\ manager = "ready" /\ e = "write" /\ disk[f] = cache[f]
      \/ Brings(f, disk[f]) /\ manager = "ready" /\ e \in {"create", "write"}
      \/ HandleFileDeleted(f) /\ manager = "ready" /\ e = "remove"
  <2>1. CASE manager = "closed"
    BY <2>1 DEF ProcessEvent
  <2>2. CASE manager = "ready" /\ e = "create"
    BY <1>3, <2>2 DEF ProcessEvent, HandleFileAdded
  <2>3. CASE manager = "ready" /\ e = "write"
    BY <1>3, <2>3 DEF ProcessEvent, HandleFileChanged
  <2>4. CASE manager = "ready" /\ e = "remove"
    BY <1>3, <2>4 DEF ProcessEvent
  <2>5. CASE manager = "ready" /\ e = "chmod"
    BY <1>3, <2>5 DEF ProcessEvent
  <2> QED BY <1>1, <2>1, <2>2, <2>3, <2>4, <2>5 DEF Events
<1>6. /\ cache' \in [Files -> Nat] /\ \A g \in Files \ {f} : cache'[g] = cache[g]
      /\ cache'[f] <= edits
  <2>1. \E v \in {cache[f], disk[f], 0} : cache' = [cache EXCEPT ![f] = v]
    <3>1. cache = [cache EXCEPT ![f] = cache[f]]
      BY <1>2 DEF WorkspaceTypes
    <3> QED BY <1>5, <3>1 DEF Brings, HandleFileDeleted
  <2> QED BY <1>2, <2>1 DEF WorkspaceInv, WorkspaceTypes
<1>a. UNCHANGED agentVars \/ Reload(f, disk[f])
  BY <1>5 DEF Brings, HandleFileDeleted
<1>b. agents' \in Nat /\ prompt' \in Nat /\ replaced' \in BOOLEAN
  <2>1. CASE UNCHANGED agentVars
    BY <1>2, <2>1 DEF agentVars, WorkspaceTypes
  <2>2. CASE Reload(f, disk[f])
    BY <1>2, <2>2, ReloadType DEF WorkspaceTypes
  <2> QED BY <1>a, <2>1, <2>2
<1>c. /\ \A g \in Files \ {f} : Applied(g) => Applied(g)'
      /\ UNCHANGED agentVars => (Applied(f) => Applied(f)')
  BY <1>1, <1>a, ReloadApplies DEF agentVars, Applied
<1>7. WorkspaceTypes'
  BY <1>1, <1>2, <1>6, <1>b DEF WorkspaceTypes, FileEvents
<1>8. ASSUME watching', NEW g \in fresh' \ muffled' PROVE FreshInv(g)'
  <2>1. g \in Files /\ FreshInv(g)
    BY <1>1, <1>2, <1>8 DEF WorkspaceInv, WorkspaceTypes
  <2>2. EventsOf(g)' = EventsOf(g) /\ ChangesOf(g)' = ChangesOf(g)
    BY <1>1 DEF EventsOf, ChangesOf, IsChange
  <2>3. CASE g # f
    <3>1. Untouched(g)
      BY <1>1, <1>4, <1>6, <1>c, <2>1, <2>2, <2>3 DEF Untouched
    <3> QED BY <1>2, <1>7, <2>1, <3>1, FreshStays
  <2>4. CASE g = f
    <3>1. ~IsChange(NoEvent)
      BY DEF IsChange
    <3>2. LastIsRight(f)'
      BY <1>1, <1>4, <2>1, <2>2, <2>4, <3>1 DEF FreshInv, LastIsRight
    <3>3. ChangesComeLast(f)'
      BY <1>1, <1>4, <2>1, <2>2, <2>4, <3>1 DEF FreshInv, ChangesComeLast
    <3>4. cache'[f] = disk'[f] /\ disk'[f] # 0 => Applied(f)'
      <4>1. CASE UNCHANGED <<cache, agentVars>>
        BY <1>1, <1>c, <2>1, <2>4, <4>1 DEF FreshInv
      <4>2. CASE Reload(f, disk[f])
        BY <1>1, <4>2, ReloadApplies
      <4>3. CASE HandleFileDeleted(f)
        BY <1>1, <1>2, <4>3 DEF HandleFileDeleted, WorkspaceTypes
      <4> QED BY <1>5, <4>1, <4>2, <4>3 DEF Brings
    <3>5. ASSUME ~Changing(f)' PROVE Followed(f)'
      <4>1. ~IsChange(timers[f]) /\ ChangesOf(f) = {}
        BY <1>1, <1>2, <3>5, Places2 DEF Changing, ChangesOf, EventsOf
      <4>2. CASE e = "chmod"
        <5>1. ~Changing(f)
          BY <1>2, <1>3, <4>1, <4>2, ChangingIs DEF IsChange
        <5>2. UNCHANGED <<cache, agentVars>>
          BY <1>5, <4>2
        <5> QED BY <1>1, <2>1, <2>4, <3>4, <5>1, <5>2 DEF FreshInv, Followed
      <4>3. CASE e # "chmod"
        <5>1. IsChange(callback[f])
          BY <1>1, <1>3, <4>3 DEF IsChange
        <5>2. EventsOf(f) = {}
          BY <2>1, <2>4, <4>1, <5>1 DEF FreshInv, ChangesComeLast, ChangesOf
        <5>3. timers[f] = NoEvent
          BY <1>2, <2>1, <2>4, <4>1, <5>1 DEF FreshInv, ChangesComeLast, IsChange, WorkspaceTypes
        <5>4. Fits(e, disk[f])
          BY <1>3, <2>1, <2>4, <5>1, <5>2, <5>3 DEF FreshInv, LastIsRight
        <5>5. manager = "ready"
          BY <1>7, <1>1, <1>8 DEF WorkspaceTypes
        <5>6. cache'[f] = disk[f]
          BY <1>2, <1>5, <4>3, <5>4, <5>5 DEF Fits, Brings, HandleFileDeleted, WorkspaceTypes
        <5> QED BY <1>1, <3>4, <5>6 DEF Followed
      <4> QED BY <4>2, <4>3
    <3> QED BY <2>4, <3>2, <3>3, <3>4, <3>5 DEF FreshInv
  <2> QED BY <2>3, <2>4
<1>9. manager' = "closed" => \A g \in Files : cache'[g] = 0
  BY <1>1, <1>5 DEF WorkspaceInv
<1>10. \A g \in Files : disk'[g] <= edits' /\ cache'[g] <= edits'
  BY <1>1, <1>6 DEF WorkspaceInv
<1> QED BY <1>1, <1>7, <1>8, <1>9, <1>10 DEF WorkspaceInv

\* WorkspaceInv is inductive.
LEMMA WorkspaceInductive == WorkspaceInv /\ [WorkspaceNext]_workspaceVars => WorkspaceInv'
<1> SUFFICES ASSUME WorkspaceInv, [WorkspaceNext]_workspaceVars PROVE WorkspaceInv'
  OBVIOUS
<1>1. ASSUME NEW f \in Files, Edit(f) \/ Replace(f) PROVE WorkspaceInv'
  <2>1. CASE Edit(f) \/ (Replace(f) /\ Report(f, "create") /\ muffled' = muffled \ {f})
    BY <2>1, EditStep
  <2>2. CASE Replace(f) /\ muffled' = muffled \cup {f}
    <3>1. PICK e \in {"chmod", "remove"} :
              raised' = IF watching THEN Append(Append(raised, <<f, "create">>), <<f, e>>)
                        ELSE raised
      BY <2>1, <2>2 DEF Replace
    <3> QED BY <2>2, <3>1, ReplaceStep
  <2> QED BY <1>1, <2>1, <2>2 DEF Replace
<1>2. ASSUME NEW f \in Files, Chmod(f) PROVE WorkspaceInv'
  BY <1>2, ChmodStep
<1>3. CASE (\E f \in Files : LoadFile(f)) \/ StartWatcher \/ ReadBootstrap \/ ApplyBootstrap
  BY <1>3, StartupStep
<1>5. CASE DebounceEvent
  BY <1>5, DebounceStep
<1>6. ASSUME NEW f \in Files, TimerFires(f) PROVE WorkspaceInv'
  BY <1>6, TimerStep
<1>7. ASSUME NEW f \in Files, ProcessEvent(f) PROVE WorkspaceInv'
  BY <1>7, ProcessStep
<1>8. CASE CloseWatcher \/ ClearCache
  BY <1>8, CloseStep
<1>9. CASE UNCHANGED workspaceVars
  <2>1. /\ UNCHANGED <<disk, edits, chmods, manager, watching, raised, timers, callback>>
        /\ UNCHANGED <<cache, agents, prompt, replaced, boot, bootHas, bootRead, fresh, muffled>>
        /\ UNCHANGED hidden
    BY <1>9 DEF workspaceVars, watchVars, bootVars, agentVars, historyVars
  <2>2. WorkspaceTypes'
    BY <2>1 DEF WorkspaceInv, WorkspaceTypes
  <2>3. ASSUME NEW f \in Files, FreshInv(f) PROVE FreshInv(f)'
    <3>1. Untouched(f)
      BY <2>1 DEF Untouched, EventsOf, Applied
    <3> QED BY <2>2, <2>3, <3>1, FreshStays DEF WorkspaceInv
  <2>4. watching' => \A f \in fresh' \ muffled' : FreshInv(f)'
    BY <2>1, <2>3 DEF WorkspaceInv, WorkspaceTypes
  <2> QED BY <2>1, <2>2, <2>4 DEF WorkspaceInv
<1> QED BY <1>1, <1>2, <1>3, <1>5, <1>6, <1>7, <1>8, <1>9 DEF WorkspaceNext, Watch

\* Workspace.CacheFollowsDisk: in a workspace that is watched, a file that was
\* changed after the daemon was up, and for which nothing is on its way, is in the
\* cache as it is on disk, and AGENTS.md and SOUL.md are applied unless they do not
\* parse, or the agents that had SOUL.md's prompt were replaced, however many
\* changes, events and restarts of a timer lie between (debounceEvent and
\* processEvent of workspace/watcher.go, manager.go and handleWorkspaceReload).
THEOREM CacheFollowsDiskHolds == WorkspaceSpec => []CacheFollowsDisk
<1>1. WorkspaceInv => CacheFollowsDisk
  <2> SUFFICES ASSUME WorkspaceInv PROVE CacheFollowsDisk
    OBVIOUS
  <2>1. ASSUME manager = "ready", ~hidden, NEW f \in fresh \ muffled, AtRest(f) PROVE Followed(f)
    <3>1. f \in Files /\ FreshInv(f)
      BY <2>1 DEF WorkspaceInv, WorkspaceTypes
    <3>2. ~Changing(f)
      BY <2>1 DEF AtRest, Changing, IsChange
    <3> QED BY <3>1, <3>2 DEF FreshInv
  <2> QED BY <2>1 DEF CacheFollowsDisk, Followed, WorkspaceInv
<1> QED BY <1>1, WorkspaceInitInv, WorkspaceInductive, PTL DEF WorkspaceSpec

-----------------------------------------------------------------------------
\* The composition that is model-checked is all four components at once, so that
\* whatever is proved of one of them above holds of it too.
THEOREM ResourcesAreComponents ==
    PartSpec => CronSpec /\ PairingSpec /\ WorkspaceSpec /\ BrowserSpec
<1>1. PartInit => CronInit /\ PairingInit /\ WorkspaceInit /\ BrowserInit
  BY DEF PartInit
<1>2. [PartNext]_<<part, cronVars, pairingVars, workspaceVars, browserVars>> =>
      /\ [CronNext]_cronVars /\ [PairingNext]_pairingVars
      /\ [WorkspaceNext]_workspaceVars /\ [BrowserNext]_browserVars
  BY DEF PartNext
<1> QED
  BY <1>1, <1>2, PTL DEF PartSpec, CronSpec, PairingSpec, WorkspaceSpec, BrowserSpec
=============================================================================

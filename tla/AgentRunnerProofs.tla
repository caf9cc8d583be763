------------------------- MODULE AgentRunnerProofs -------------------------
(***************************************************************************)
(* Proofs about AgentRunner: the transcripts and the table of active runs  *)
(* are honest, for every number of runs, sessions, profiles and turns.     *)
(***************************************************************************)
EXTENDS AgentRunner, TLAPS, SequenceTheorems

\* The phases between the prompt that was saved and the answer.
Prompted == {"profiles", "pick", "turn", "call", "backoff", "tools", "answer"}
Entries == {"user", "assistant"} \X Runs

Phases == {"idle", "queued", "done", "begin", "leave"} \cup Prompted

RunnerTypes ==
    /\ session \in [Runs -> Sessions] /\ phase \in [Runs -> Phases]
    /\ over \subseteq Runs
    /\ outcome \in [Runs -> {"none", "ok", "aborted", "error"}]
    /\ activeRuns \in [Sessions -> Runs \cup {NoRun}]
    /\ transcript \in [Sessions -> Seq(Entries)]

\* The lane lets one run of a session in.
LaneInv ==
    \A r, o \in Runs : session[r] = session[o] /\ InLane(r) /\ InLane(o) => r = o

\* A run is in the table under its own session, and only succeeded at its end.
TableInv ==
    /\ \A s \in Sessions : activeRuns[s] # NoRun => session[activeRuns[s]] = s
    /\ \A r \in Runs : outcome[r] = "ok" => phase[r] \in {"leave", "done"}

\* From a run's prompt to its answer, the prompt is the last of its session's
\* messages, unless the session was cleared.
PromptInv ==
    \A r \in Runs : phase[r] \in Prompted =>
        LET t == transcript[session[r]] IN t # <<>> => t[Len(t)] = <<"user", r>>

RunnerInv ==
    /\ RunnerTypes /\ LaneInv /\ TableInv /\ PromptInv
    /\ TranscriptIsHonest /\ AbortReachesTheRun

-----------------------------------------------------------------------------
\* Before the first run all parts hold.
LEMMA RunnerInitInv == RunnerInit => RunnerInv
<1> SUFFICES ASSUME RunnerInit PROVE RunnerInv
  OBVIOUS
<1> USE RunnerAssumption DEF RunnerInit
<1>1. RunnerTypes
  BY DEF RunnerTypes, Phases
<1>2. LaneInv /\ TableInv /\ PromptInv /\ AbortReachesTheRun
  BY DEF LaneInv, InLane, Waiting, TableInv, PromptInv, Prompted, AbortReachesTheRun
<1>3. TranscriptIsHonest
  BY DEF TranscriptIsHonest, Answers
<1> QED BY <1>1, <1>2, <1>3 DEF RunnerInv

\* A message is written behind the others.
LEMMA SaysAppends ==
    ASSUME RunnerTypes, NEW r \in Runs, NEW role \in {"user", "assistant"}, Says(r, role)
    PROVE  /\ transcript' \in [Sessions -> Seq(Entries)]
           /\ \A s \in Sessions : s # session[r] => transcript'[s] = transcript[s]
           /\ LET t == transcript[session[r]]  u == transcript'[session[r]]
              IN  /\ Len(t) \in Nat /\ DOMAIN t = 1..Len(t)
                  /\ Len(u) = Len(t) + 1 /\ DOMAIN u = 1..(Len(t) + 1)
                  /\ \A i \in 1..Len(t) : u[i] = t[i]
                  /\ u[Len(t) + 1] = <<role, r>> /\ u # <<>>
<1>1. session[r] \in Sessions /\ transcript \in [Sessions -> Seq(Entries)]
      /\ <<role, r>> \in Entries /\ transcript[session[r]] \in Seq(Entries)
  BY DEF RunnerTypes, RunnerTypeOK, Entries
<1>2. transcript'[session[r]] = Append(transcript[session[r]], <<role, r>>)
      /\ \A s \in Sessions : s # session[r] => transcript'[s] = transcript[s]
  BY <1>1 DEF Says
<1>3. transcript'[session[r]] \in Seq(Entries)
  BY <1>1, <1>2, AppendProperties
<1>4. transcript' \in [Sessions -> Seq(Entries)]
  BY <1>1, <1>2, <1>3 DEF Says
<1> DEFINE t == transcript[session[r]]
<1>5. /\ t \in Seq(Entries) /\ <<role, r>> \in Entries
      /\ transcript'[session[r]] = Append(t, <<role, r>>)
  BY <1>1, <1>2
<1> HIDE DEF t
<1>6. Len(t) \in Nat /\ DOMAIN t = 1..Len(t)
  BY <1>5, LenProperties
<1>7. LET u == Append(t, <<role, r>>)
      IN  /\ Len(u) = Len(t) + 1 /\ DOMAIN u = 1..(Len(t) + 1)
          /\ \A i \in 1..Len(t) : u[i] = t[i]
          /\ u[Len(t) + 1] = <<role, r>> /\ u # <<>>
  <2> DEFINE u == Append(t, <<role, r>>)
  <2>1. u \in Seq(Entries) /\ Len(u) = Len(t) + 1
    BY <1>5, AppendProperties
  <2>2. (\A i \in 1..Len(t) : u[i] = t[i]) /\ u[Len(t) + 1] = <<role, r>>
    BY <1>5, <1>6, AppendProperties
  <2> HIDE DEF u
  <2>3. DOMAIN u = 1..(Len(t) + 1)
    BY <2>1, LenProperties
  <2>4. u # <<>>
    BY <1>6, <2>1
  <2> QED BY <2>1, <2>2, <2>3, <2>4 DEF u
<1> QED BY <1>2, <1>4, <1>5, <1>6, <1>7 DEF t

\* The answers of the other runs, and what stands before them, are left alone.
LEMMA AnswersKept ==
    ASSUME RunnerTypes, NEW r \in Runs, NEW role \in {"user", "assistant"}, Says(r, role),
           session' = session, NEW o \in Runs, o # r \/ role # "assistant"
    PROVE  /\ Answers(o)' = Answers(o)
           /\ \A i \in Answers(o) : i > 1 =>
                 transcript'[session[o]][i - 1] = transcript[session[o]][i - 1]
<1>0. session[o] \in Sessions
  BY DEF RunnerTypes
<1>1. CASE session[o] # session[r]
  BY <1>0, <1>1, SaysAppends DEF Answers
<1>2. CASE session[o] = session[r]
  <2> DEFINE t == transcript[session[r]]  u == transcript'[session[r]]
             n == Len(t)
  <2>1. /\ n \in Nat /\ DOMAIN t = 1..n /\ DOMAIN u = 1..(n + 1)
        /\ \A i \in 1..n : u[i] = t[i]
        /\ u[n + 1] = <<role, r>>
    BY SaysAppends
  <2>2. Answers(o) = {i \in DOMAIN t : t[i] = <<"assistant", o>>}
        /\ Answers(o)' = {i \in DOMAIN u : u[i] = <<"assistant", o>>}
    BY <1>2 DEF Answers
  <2>3. <<role, r>> # <<"assistant", o>>
    OBVIOUS
  <2> HIDE DEF t, u, n
  <2>4. Answers(o)' = Answers(o)
    BY <2>1, <2>2, <2>3
  <2>5. \A i \in Answers(o) : i > 1 => u[i - 1] = t[i - 1]
    BY <2>1, <2>2
  <2> QED BY <1>2, <2>4, <2>5 DEF t, u
<1> QED BY <1>1, <1>2

\* What the steps of a run that only move it on do: its place and its outcome.
Moved(r) ==
    /\ UNCHANGED <<session, over, activeRuns, transcript>>
    /\ \E p \in Phases, o \in {"none", "ok", "aborted", "error"} :
          /\ phase' = [phase EXCEPT ![r] = p] /\ outcome' = [outcome EXCEPT ![r] = o]
          /\ o = "ok" => p \in {"leave", "done"}
          /\ p \in Waiting <=> phase[r] \in Waiting
          /\ p \in Prompted => phase[r] \in Prompted
          /\ outcome[r] = "ok" => o = "ok"

\* All steps between the prompt and the answer are of this kind.
LEMMA MovesOn ==
    ASSUME RunnerInv, NEW r \in Runs,
           \/ SubmitRun(r) \/ CopyProfiles(r) \/ PickProfile(r) \/ NextTurn(r)
           \/ ModelAnswers(r) \/ TransientError(r) \/ PermanentError(r) \/ BackoffEnds(r)
           \/ RunTools(r)
    PROVE  Moved(r)
<1>0. /\ phase \in [Runs -> Phases] /\ outcome \in [Runs -> {"none", "ok", "aborted", "error"}]
      /\ phase[r] \notin {"leave", "done"} => outcome[r] # "ok"
      /\ phase' = phase => phase' = [phase EXCEPT ![r] = phase[r]]
      /\ outcome' = outcome => outcome' = [outcome EXCEPT ![r] = outcome[r]]
  BY DEF RunnerInv, RunnerTypes, TableInv
<1> USE DEF Moved, Phases, Prompted, Waiting, GoOn, Conclude
<1>1. CASE SubmitRun(r)
  BY <1>0, <1>1 DEF SubmitRun
<1>2. CASE CopyProfiles(r)
  BY <1>0, <1>2 DEF CopyProfiles
<1>3. CASE PickProfile(r)
  BY <1>0, <1>3 DEF PickProfile
<1>4. CASE NextTurn(r)
  BY <1>0, <1>4 DEF NextTurn
<1>5. CASE ModelAnswers(r)
  BY <1>0, <1>5 DEF ModelAnswers
<1>6. CASE TransientError(r)
  BY <1>0, <1>6 DEF TransientError
<1>7. CASE PermanentError(r)
  BY <1>0, <1>7 DEF PermanentError
<1>8. CASE BackoffEnds(r)
  BY <1>0, <1>8 DEF BackoffEnds
<1>9. CASE RunTools(r)
  BY <1>0, <1>9 DEF RunTools
<1> QED BY <1>1, <1>2, <1>3, <1>4, <1>5, <1>6, <1>7, <1>8, <1>9

\* What a step of the runner can be.
LEMMA RunnerStepIs ==
    ASSUME RunnerInv, [RunnerNext]_runnerVars
    PROVE  \/ \E r \in Runs : \/ Moved(r) \/ StartRun(r) \/ BeginRun(r) \/ SaveAnswer(r)
                              \/ Leave(r) \/ ExpireRun(r)
           \/ \E s \in Sessions : Abort(s) \/ ClearSession(s)
           \/ UNCHANGED <<session, phase, over, outcome, activeRuns, transcript>>
<1>1. CASE PassMinute \/ UNCHANGED runnerVars
  BY <1>1 DEF PassMinute, runnerVars, runVars
<1> QED BY <1>1, MovesOn DEF RunnerNext, RunStep

\* Every step keeps the types.
LEMMA RunnerTypeStep == RunnerInv /\ [RunnerNext]_runnerVars => RunnerTypes'
<1> SUFFICES ASSUME RunnerInv, [RunnerNext]_runnerVars PROVE RunnerTypes'
  OBVIOUS
<1>0. RunnerTypes
  BY DEF RunnerInv
<1>1. ASSUME NEW r \in Runs, Moved(r) \/ StartRun(r) \/ Leave(r) \/ ExpireRun(r)
      PROVE  RunnerTypes'
  <2>1. CASE Moved(r)
    BY <1>0, <2>1 DEF RunnerTypes, Moved
  <2>2. CASE StartRun(r)
    BY <1>0, <2>2 DEF RunnerTypes, StartRun, GoOn, Phases
  <2>3. CASE Leave(r)
    BY <1>0, <2>3 DEF RunnerTypes, Leave, GoOn, Phases
  <2>4. CASE ExpireRun(r)
    BY <1>0, <2>4 DEF RunnerTypes, ExpireRun
  <2> QED BY <1>1, <2>1, <2>2, <2>3, <2>4
<1>2. ASSUME NEW r \in Runs, BeginRun(r) \/ SaveAnswer(r) PROVE RunnerTypes'
  <2>1. transcript' \in [Sessions -> Seq(Entries)]
    BY <1>0, <1>2, SaysAppends DEF BeginRun, SaveAnswer, PromptFails, RunnerTypes
  <2> QED BY <1>0, <1>2, <2>1 DEF RunnerTypes, BeginRun, PromptFails, SaveAnswer,
          Conclude, GoOn, Phases, Prompted
<1>3. ASSUME NEW s \in Sessions, Abort(s) \/ ClearSession(s) PROVE RunnerTypes'
  <2>1. CASE Abort(s)
    <3>1. activeRuns[s] \in Runs
      BY <1>0, <2>1 DEF RunnerTypes, Abort
    <3> QED BY <1>0, <2>1, <3>1 DEF RunnerTypes, Abort
  <2>2. CASE ClearSession(s)
    <3>1. <<>> \in Seq(Entries)
      BY EmptySeq
    <3>2. transcript' \in [Sessions -> Seq(Entries)]
      BY <1>0, <2>2, <3>1 DEF RunnerTypes, ClearSession
    <3> QED BY <1>0, <2>2, <3>2 DEF RunnerTypes, ClearSession, runVars
  <2> QED BY <1>3, <2>1, <2>2
<1>4. CASE UNCHANGED <<session, phase, over, outcome, activeRuns, transcript>>
  BY <1>0, <1>4 DEF RunnerTypes
<1> QED BY <1>1, <1>2, <1>3, <1>4, RunnerStepIs

\* The lane and the table of active runs.
LEMMA TableStep ==
    RunnerInv /\ [RunnerNext]_runnerVars => LaneInv' /\ TableInv' /\ AbortReachesTheRun'
<1> SUFFICES ASSUME RunnerInv, [RunnerNext]_runnerVars
             PROVE  LaneInv' /\ TableInv' /\ AbortReachesTheRun'
  OBVIOUS
<1>0. RunnerTypes /\ LaneInv /\ TableInv /\ AbortReachesTheRun
  BY DEF RunnerInv
<1> USE RunnerAssumption
<1>1. ASSUME NEW r \in Runs, UNCHANGED <<session, over, activeRuns>>,
             \A o \in Runs \ {r} : phase'[o] = phase[o] /\ outcome'[o] = outcome[o],
             InLane(r)' <=> InLane(r), outcome'[r] = "ok" => phase'[r] \in {"leave", "done"}
      PROVE  LaneInv' /\ TableInv' /\ AbortReachesTheRun'
  <2>1. \A o \in Runs : InLane(o)' <=> InLane(o)
    BY <1>1 DEF InLane
  <2>2. \A o \in Runs : outcome'[o] = "ok" => phase'[o] \in {"leave", "done"}
    BY <1>0, <1>1 DEF TableInv
  <2>3. LaneInv' /\ TableInv'
    BY <1>0, <1>1, <2>1, <2>2 DEF LaneInv, TableInv
  <2>4. AbortReachesTheRun'
    <3>1. \A s \in Sessions : activeRuns[s] # NoRun => InLane(activeRuns[s])'
      BY <1>0, <1>1, <2>1 DEF AbortReachesTheRun, RunnerTypes
    <3> QED BY <1>0, <1>1, <2>1, <3>1 DEF AbortReachesTheRun, InLane
  <2> QED BY <2>3, <2>4
<1>2. ASSUME NEW r \in Runs, Moved(r) \/ BeginRun(r) \/ SaveAnswer(r)
      PROVE  LaneInv' /\ TableInv' /\ AbortReachesTheRun'
  <2>1. /\ UNCHANGED <<session, over, activeRuns>>
        /\ \A o \in Runs \ {r} : phase'[o] = phase[o] /\ outcome'[o] = outcome[o]
        /\ InLane(r)' <=> InLane(r)
    BY <1>0, <1>2 DEF Moved, BeginRun, SaveAnswer, PromptFails, Conclude, GoOn, InLane,
       Waiting, RunnerTypes
  <2>2. outcome'[r] = "ok" => phase'[r] \in {"leave", "done"}
    BY <1>0, <1>2 DEF Moved, BeginRun, SaveAnswer, PromptFails, Conclude, GoOn,
       RunnerTypes, TableInv
  <2> QED BY <1>1, <2>1, <2>2
<1>3. ASSUME NEW r \in Runs, StartRun(r)
      PROVE  LaneInv' /\ TableInv' /\ AbortReachesTheRun'
  <2>1. /\ UNCHANGED <<session, over, outcome>> /\ session[r] \in Sessions
        /\ \A o \in Runs \ {r} : phase'[o] = phase[o]
        /\ phase[r] = "queued" /\ phase'[r] = "begin"
        /\ \A s \in Sessions : activeRuns'[s] = IF s = session[r] THEN r ELSE activeRuns[s]
        /\ \A o \in Runs : session[o] = session[r] => ~InLane(o)
    BY <1>0, <1>3 DEF StartRun, GoOn, RunnerTypes
  <2>2. InLane(r)' /\ \A o \in Runs \ {r} : InLane(o)' <=> InLane(o)
    BY <2>1 DEF InLane, Waiting
  <2>3. LaneInv'
    BY <1>0, <2>1, <2>2 DEF LaneInv
  <2>4. TableInv'
    BY <1>0, <2>1 DEF TableInv
  <2>5. \A o \in Runs : InLane(o)' /\ o \notin over' => activeRuns'[session'[o]] = o
    BY <1>0, <2>1, <2>2 DEF AbortReachesTheRun, RunnerTypes
  <2>6. \A s \in Sessions : activeRuns'[s] # NoRun => phase'[activeRuns'[s]] \notin Waiting
    <3> SUFFICES ASSUME NEW s \in Sessions, activeRuns'[s] # NoRun
                 PROVE  phase'[activeRuns'[s]] \notin Waiting
      OBVIOUS
    <3>1. CASE s = session[r]
      BY <2>1, <3>1 DEF Waiting
    <3>2. CASE s # session[r]
      <4>1. /\ activeRuns'[s] = activeRuns[s] /\ activeRuns[s] \in Runs \ {r}
            /\ phase[activeRuns[s]] \notin Waiting
        BY <1>0, <2>1, <3>2 DEF RunnerTypes, TableInv, AbortReachesTheRun, InLane
      <4> QED BY <2>1, <4>1
    <3> QED BY <3>1, <3>2
  <2>7. AbortReachesTheRun'
    BY <2>5, <2>6 DEF AbortReachesTheRun, InLane
  <2> QED BY <2>3, <2>4, <2>7
<1>4. ASSUME NEW r \in Runs, Leave(r)
      PROVE  LaneInv' /\ TableInv' /\ AbortReachesTheRun'
  <2>1. /\ UNCHANGED <<session, over, outcome>> /\ session[r] \in Sessions
        /\ \A o \in Runs \ {r} : phase'[o] = phase[o]
        /\ phase[r] = "leave" /\ phase'[r] = "done"
        /\ \A s \in Sessions : activeRuns'[s] = IF s = session[r] THEN NoRun ELSE activeRuns[s]
    BY <1>0, <1>4 DEF Leave, GoOn, RunnerTypes
  <2>2. InLane(r) /\ ~InLane(r)' /\ \A o \in Runs \ {r} : InLane(o)' <=> InLane(o)
    BY <2>1 DEF InLane, Waiting
  <2>3. LaneInv'
    BY <1>0, <2>1, <2>2 DEF LaneInv
  <2>4. TableInv'
    BY <1>0, <2>1 DEF TableInv
  <2>5. \A o \in Runs : InLane(o)' /\ o \notin over => activeRuns'[session[o]] = o
    <3> SUFFICES ASSUME NEW o \in Runs, InLane(o)', o \notin over
                 PROVE  activeRuns'[session[o]] = o
      OBVIOUS
    <3>1. o # r /\ InLane(o) /\ session[o] \in Sessions
      BY <1>0, <2>2 DEF RunnerTypes
    <3>2. session[o] # session[r]
      BY <1>0, <2>2, <3>1 DEF LaneInv
    <3>3. activeRuns[session[o]] = o
      BY <1>0, <3>1 DEF AbortReachesTheRun
    <3> QED BY <2>1, <3>1, <3>2, <3>3
  <2>6. \A s \in Sessions : activeRuns'[s] # NoRun => phase'[activeRuns'[s]] \notin Waiting
    <3> SUFFICES ASSUME NEW s \in Sessions, activeRuns'[s] # NoRun
                 PROVE  phase'[activeRuns'[s]] \notin Waiting
      OBVIOUS
    <3>1. /\ s # session[r] /\ activeRuns'[s] = activeRuns[s] /\ activeRuns[s] \in Runs
          /\ session[activeRuns[s]] = s /\ phase[activeRuns[s]] \notin Waiting
      BY <1>0, <2>1 DEF RunnerTypes, TableInv, AbortReachesTheRun, InLane
    <3> QED BY <2>1, <3>1
  <2>7. AbortReachesTheRun'
    BY <2>1, <2>5, <2>6 DEF AbortReachesTheRun, InLane
  <2> QED BY <2>3, <2>4, <2>7
<1>5. ASSUME NEW s \in Sessions, Abort(s)
      PROVE  LaneInv' /\ TableInv' /\ AbortReachesTheRun'
  <2>1. /\ UNCHANGED <<session, phase, outcome>>
        /\ over' = over \cup {activeRuns[s]}
        /\ \A z \in Sessions : activeRuns'[z] = IF z = s THEN NoRun ELSE activeRuns[z]
    BY <1>0, <1>5 DEF Abort, RunnerTypes
  <2>2. LaneInv' /\ TableInv'
    BY <1>0, <2>1 DEF LaneInv, TableInv, InLane
  <2>3. AbortReachesTheRun'
    BY <1>0, <2>1 DEF AbortReachesTheRun, InLane, RunnerTypes
  <2> QED BY <2>2, <2>3
<1>6. ASSUME UNCHANGED <<session, phase, outcome, activeRuns>>, over \subseteq over'
      PROVE  LaneInv' /\ TableInv' /\ AbortReachesTheRun'
  BY <1>0, <1>6 DEF LaneInv, TableInv, AbortReachesTheRun, InLane
<1>7. ASSUME NEW r \in Runs, ExpireRun(r) PROVE LaneInv' /\ TableInv' /\ AbortReachesTheRun'
  BY <1>6, <1>7 DEF ExpireRun
<1>8. ASSUME NEW s \in Sessions, ClearSession(s)
      PROVE  LaneInv' /\ TableInv' /\ AbortReachesTheRun'
  BY <1>6, <1>8 DEF ClearSession, runVars
<1> QED BY <1>2, <1>3, <1>4, <1>5, <1>6, <1>7, <1>8, RunnerStepIs

\* The transcripts.
LEMMA TranscriptStep ==
    RunnerInv /\ [RunnerNext]_runnerVars => PromptInv' /\ TranscriptIsHonest'
<1> SUFFICES ASSUME RunnerInv, [RunnerNext]_runnerVars PROVE PromptInv' /\ TranscriptIsHonest'
  OBVIOUS
<1>0. RunnerTypes /\ LaneInv /\ TableInv /\ PromptInv /\ TranscriptIsHonest
  BY DEF RunnerInv
<1>1. ASSUME UNCHANGED <<session, transcript>>,
             \A r \in Runs : /\ phase'[r] \in Prompted => phase[r] \in Prompted
                             /\ outcome[r] = "ok" => outcome'[r] = "ok"
      PROVE  PromptInv' /\ TranscriptIsHonest'
  <2>1. PromptInv'
    BY <1>0, <1>1 DEF PromptInv
  <2>2. \A r \in Runs : Answers(r)' = Answers(r)
    BY <1>1 DEF Answers
  <2>3. TranscriptIsHonest'
    BY <1>0, <1>1, <2>2 DEF TranscriptIsHonest
  <2> QED BY <2>1, <2>3
<1>2. ASSUME NEW r \in Runs, Moved(r) PROVE PromptInv' /\ TranscriptIsHonest'
  BY <1>0, <1>1, <1>2 DEF Moved, RunnerTypes
<1>3. ASSUME NEW r \in Runs, StartRun(r) \/ Leave(r) \/ ExpireRun(r)
      PROVE  PromptInv' /\ TranscriptIsHonest'
  BY <1>0, <1>1, <1>3 DEF StartRun, Leave, ExpireRun, GoOn, Prompted, RunnerTypes
<1>4. ASSUME NEW s \in Sessions, Abort(s) PROVE PromptInv' /\ TranscriptIsHonest'
  BY <1>1, <1>4 DEF Abort
<1>5. ASSUME NEW s \in Sessions, ClearSession(s) PROVE PromptInv' /\ TranscriptIsHonest'
  <2>1. /\ UNCHANGED <<session, phase, outcome>>
        /\ \A z \in Sessions : transcript'[z] = IF z = s THEN <<>> ELSE transcript[z]
    BY <1>0, <1>5 DEF ClearSession, runVars, RunnerTypes
  <2>2. \A r \in Runs : session[r] \in Sessions
    BY <1>0 DEF RunnerTypes
  <2>3. PromptInv'
    BY <1>0, <2>1, <2>2 DEF PromptInv
  <2>4. \A r \in Runs : Answers(r)' \subseteq Answers(r)
                        /\ (Answers(r)' # {} => transcript'[session[r]] = transcript[session[r]])
    BY <2>1, <2>2 DEF Answers
  <2>5. TranscriptIsHonest'
    BY <1>0, <2>1, <2>2, <2>4 DEF TranscriptIsHonest
  <2> QED BY <2>3, <2>5
<1>6. ASSUME NEW r \in Runs, BeginRun(r), Says(r, "user"), GoOn(r, "profiles"),
             UNCHANGED outcome
      PROVE  PromptInv' /\ TranscriptIsHonest'
  <2> DEFINE t == transcript[session[r]]
  <2>1. /\ session' = session /\ phase[r] = "begin"
        /\ \A o \in Runs \ {r} : phase'[o] = phase[o]
        /\ \A o \in Runs : session[o] \in Sessions
    BY <1>0, <1>6 DEF BeginRun, GoOn, RunnerTypes
  <2>2. /\ \A s \in Sessions : s # session[r] => transcript'[s] = transcript[s]
        /\ Len(t) \in Nat /\ DOMAIN t = 1..Len(t)
        /\ Len(transcript'[session[r]]) = Len(t) + 1
        /\ DOMAIN transcript'[session[r]] = 1..(Len(t) + 1)
        /\ \A i \in 1..Len(t) : transcript'[session[r]][i] = t[i]
        /\ transcript'[session[r]][Len(t) + 1] = <<"user", r>>
    BY <1>0, <1>6, SaysAppends
  <2>3. PromptInv'
    <3> SUFFICES ASSUME NEW o \in Runs, phase'[o] \in Prompted, transcript'[session[o]] # <<>>
                 PROVE  transcript'[session[o]][Len(transcript'[session[o]])] = <<"user", o>>
      BY <2>1 DEF PromptInv
    <3>1. CASE session[o] # session[r]
      BY <1>0, <2>1, <2>2, <3>1 DEF PromptInv
    <3>2. CASE session[o] = session[r]
      <4>1. o = r
        BY <1>0, <2>1, <3>2 DEF LaneInv, InLane, Waiting, Prompted
      <4> QED BY <2>2, <4>1
    <3> QED BY <3>1, <3>2
  <2>4. \A o \in Runs : Answers(o)' = Answers(o)
    BY <1>0, <1>6, <2>1, AnswersKept
  <2>5. \A o \in Runs : \A i \in Answers(o) : i > 1 =>
            transcript'[session[o]][i - 1] = transcript[session[o]][i - 1]
    BY <1>0, <1>6, <2>1, AnswersKept
  <2>6. TranscriptIsHonest'
    BY <1>0, <1>6, <2>1, <2>4, <2>5 DEF TranscriptIsHonest
  <2> QED BY <2>3, <2>6
<1>7. ASSUME NEW r \in Runs, BeginRun(r), UNCHANGED transcript
      PROVE  PromptInv' /\ TranscriptIsHonest'
  <2>1. /\ UNCHANGED session
        /\ \A o \in Runs \ {r} : phase'[o] = phase[o] /\ outcome'[o] = outcome[o]
        /\ phase[r] = "begin"
    BY <1>0, <1>7 DEF BeginRun, Conclude, PromptFails, GoOn, RunnerTypes
  <2>2. phase'[r] \notin Prompted
    <3>1. ~Says(r, "user")
      <4> SUFFICES ASSUME Says(r, "user") PROVE FALSE
        OBVIOUS
      <4>1. Len(transcript'[session[r]]) = Len(transcript[session[r]]) + 1
            /\ Len(transcript[session[r]]) \in Nat
        BY <1>0, SaysAppends
      <4> QED BY <1>7, <4>1
    <3> QED BY <1>0, <1>7, <3>1 DEF BeginRun, Conclude, PromptFails, GoOn, RunnerTypes, Prompted
  <2>3. outcome[r] # "ok"
    <3>1. outcome[r] = "ok" => phase[r] \in {"leave", "done"}
      BY <1>0 DEF TableInv
    <3> QED BY <2>1, <3>1
  <2> QED BY <1>1, <1>7, <2>1, <2>2, <2>3
<1>8. ASSUME NEW r \in Runs, SaveAnswer(r), UNCHANGED transcript, Conclude(r, "error")
      PROVE  PromptInv' /\ TranscriptIsHonest'
  <2>1. /\ UNCHANGED session
        /\ \A o \in Runs \ {r} : phase'[o] = phase[o] /\ outcome'[o] = outcome[o]
        /\ phase[r] = "answer" /\ phase'[r] = "leave"
    BY <1>0, <1>8 DEF SaveAnswer, Conclude, GoOn, RunnerTypes
  <2>2. outcome[r] # "ok" /\ phase'[r] \notin Prompted
    <3>1. outcome[r] = "ok" => phase[r] \in {"leave", "done"}
      BY <1>0 DEF TableInv
    <3> QED BY <2>1, <3>1 DEF Prompted
  <2> QED BY <1>1, <1>8, <2>1, <2>2
<1>9. ASSUME NEW r \in Runs, SaveAnswer(r), Says(r, "assistant"), Conclude(r, "ok")
      PROVE  PromptInv' /\ TranscriptIsHonest'
  <2> DEFINE t == transcript[session[r]]
  <2>1. /\ session' = session /\ phase[r] = "answer" /\ phase'[r] = "leave"
        /\ \A o \in Runs \ {r} : phase'[o] = phase[o] /\ outcome'[o] = outcome[o]
        /\ \A o \in Runs : session[o] \in Sessions
        /\ outcome'[r] = "ok"
    BY <1>0, <1>9 DEF SaveAnswer, Conclude, GoOn, RunnerTypes
  <2>2. /\ \A s \in Sessions : s # session[r] => transcript'[s] = transcript[s]
        /\ Len(t) \in Nat /\ DOMAIN t = 1..Len(t)
        /\ Len(transcript'[session[r]]) = Len(t) + 1
        /\ DOMAIN transcript'[session[r]] = 1..(Len(t) + 1)
        /\ \A i \in 1..Len(t) : transcript'[session[r]][i] = t[i]
        /\ transcript'[session[r]][Len(t) + 1] = <<"assistant", r>>
    BY <1>0, <1>9, SaysAppends
  <2>3. PromptInv'
    <3> SUFFICES ASSUME NEW o \in Runs, phase'[o] \in Prompted, transcript'[session[o]] # <<>>
                 PROVE  transcript'[session[o]][Len(transcript'[session[o]])] = <<"user", o>>
      BY <2>1 DEF PromptInv
    <3>1. o # r /\ phase[o] \in Prompted
      BY <2>1 DEF Prompted
    <3>2. session[o] # session[r]
      BY <1>0, <2>1, <3>1 DEF LaneInv, InLane, Waiting, Prompted
    <3> QED BY <1>0, <2>1, <2>2, <3>1, <3>2 DEF PromptInv
  <2>4. Answers(r) = {}
    BY <1>0, <2>1 DEF TranscriptIsHonest, TableInv
  <2>5. Answers(r)' = {Len(t) + 1}
    <3>1. Answers(r)' = {i \in 1..(Len(t) + 1) :
                            transcript'[session[r]][i] = <<"assistant", r>>}
      BY <2>1, <2>2 DEF Answers
    <3>2. \A i \in 1..Len(t) : transcript'[session[r]][i] # <<"assistant", r>>
      BY <2>2, <2>4 DEF Answers
    <3> HIDE DEF t
    <3> QED BY <2>2, <3>1, <3>2
  <2>6. \A o \in Runs \ {r} : Answers(o)' = Answers(o)
    BY <1>0, <1>9, <2>1, AnswersKept
  <2>7. \A o \in Runs \ {r} : \A i \in Answers(o) : i > 1 =>
            transcript'[session[o]][i - 1] = transcript[session[o]][i - 1]
    BY <1>0, <1>9, <2>1, AnswersKept
  <2>8. Len(t) + 1 > 1 => transcript'[session[r]][Len(t)] = <<"user", r>>
    <3> SUFFICES ASSUME Len(t) + 1 > 1
                 PROVE  transcript'[session[r]][Len(t)] = <<"user", r>>
      OBVIOUS
    <3>1. t # <<>> /\ Len(t) \in 1..Len(t)
      BY <2>2
    <3> QED BY <1>0, <2>1, <2>2, <3>1 DEF PromptInv, Prompted
  <2>9. TranscriptIsHonest'
    <3> SUFFICES ASSUME NEW o \in Runs, NEW i \in Answers(o)'
                 PROVE  /\ i > 1 => transcript'[session[o]][i - 1] = <<"user", o>>
                        /\ outcome'[o] = "ok" /\ \A j \in Answers(o)' : i = j
      BY <2>1 DEF TranscriptIsHonest
    <3>1. CASE o = r
      BY <2>1, <2>2, <2>5, <2>8, <3>1
    <3>2. CASE o # r
      BY <1>0, <2>1, <2>6, <2>7, <3>2 DEF TranscriptIsHonest
    <3> QED BY <3>1, <3>2
  <2> QED BY <2>3, <2>9
<1>10. CASE UNCHANGED <<session, phase, over, outcome, activeRuns, transcript>>
  BY <1>1, <1>10
<1>11. ASSUME NEW r \in Runs, BeginRun(r) PROVE PromptInv' /\ TranscriptIsHonest'
  BY <1>6, <1>7, <1>11 DEF BeginRun, PromptFails
<1>12. ASSUME NEW r \in Runs, SaveAnswer(r) PROVE PromptInv' /\ TranscriptIsHonest'
  BY <1>8, <1>9, <1>12 DEF SaveAnswer
<1> QED BY <1>2, <1>3, <1>4, <1>5, <1>10, <1>11, <1>12, RunnerStepIs

-----------------------------------------------------------------------------
\* However many runs share sessions, profiles and the table of active runs, the
\* transcript pairs every answer with its prompt, and an abort of a session
\* reaches the run that executes in it and none that has ended.
THEOREM RunsAreHonestHolds == RunnerSpec => []RunsAreHonest
<1>1. RunnerInit => RunnerInv
  BY RunnerInitInv
<1>2. RunnerInv /\ [RunnerNext]_runnerVars => RunnerInv'
  BY RunnerTypeStep, TableStep, TranscriptStep DEF RunnerInv
<1>3. RunnerInv => RunsAreHonest
  BY DEF RunnerInv, RunsAreHonest
<1> QED BY <1>1, <1>2, <1>3, PTL DEF RunnerSpec

-----------------------------------------------------------------------------
\* The counters, and what they need: only a call that may be made once more
\* is waited for.
CountsInv ==
    /\ turn \in [Runs -> 0..MaxTurns] /\ attempt \in [Runs -> 0..MaxAttempts]
    /\ \A r \in Runs : phase[r] = "backoff" => attempt[r] < MaxAttempts
    /\ failures \in [Profiles -> Nat] /\ cooldown \in [Profiles -> Nat]
    /\ minute \in 1..MaxClock

\* A success clears the failures of a profile, an error counts one more.
LEMMA ProfilesStep ==
    ASSUME CountsInv, NEW p, Succeeded(p) \/ Failed(p) \/ UNCHANGED profileVars
    PROVE  failures' \in [Profiles -> Nat] /\ cooldown' \in [Profiles -> Nat]
<1> USE DEF CountsInv
<1>1. CASE UNCHANGED profileVars
  BY <1>1 DEF profileVars
<1>2. CASE Succeeded(p)
  BY <1>2 DEF Succeeded
<1>3. CASE Failed(p)
  <2>0. p \in Profiles => failures[p] + 1 \in Nat
    OBVIOUS
  <2>1. failures' \in [Profiles -> Nat]
    BY <1>3, <2>0 DEF Failed
  <2>2. p \in Profiles => minute + failures'[p] \in Nat
    BY <2>1
  <2>3. cooldown' = [cooldown EXCEPT ![p] = minute + failures'[p]]
    BY <1>3 DEF Failed
  <2> QED BY <2>1, <2>2, <2>3
<1> QED BY <1>1, <1>2, <1>3

\* Every step keeps the counters within their bounds.
LEMMA CountsStep ==
    ASSUME RunnerTypes, CountsInv, [RunnerNext]_runnerVars
    PROVE  CountsInv'
<1>0. phase \in [Runs -> Phases]
  BY DEF RunnerTypes
\* Most steps do not touch a counter, and let nothing back off.
<1>1. ASSUME UNCHANGED <<turn, attempt, minute>>,
             failures' \in [Profiles -> Nat], cooldown' \in [Profiles -> Nat],
             \A o \in Runs : phase'[o] = "backoff" => phase[o] = "backoff"
      PROVE  CountsInv'
  BY <1>1 DEF CountsInv
<1>2. ASSUME NEW r \in Runs, SubmitRun(r) \/ StartRun(r) \/ BeginRun(r) \/ CopyProfiles(r)
             \/ RunTools(r) \/ SaveAnswer(r) \/ Leave(r) \/ ExpireRun(r)
      PROVE  CountsInv'
  <2>1. UNCHANGED <<turn, attempt, minute, profileVars>>
    BY <1>2 DEF SubmitRun, StartRun, BeginRun, CopyProfiles, RunTools, SaveAnswer, Leave, ExpireRun
  <2>2. \A o \in Runs : phase'[o] = "backoff" => phase[o] = "backoff"
    BY <1>0, <1>2 DEF SubmitRun, StartRun, BeginRun, PromptFails, CopyProfiles, RunTools, SaveAnswer,
       Leave, ExpireRun, Conclude, GoOn
  <2> QED BY <1>1, <2>1, <2>2 DEF CountsInv, profileVars
<1>3. ASSUME NEW r \in Runs, PickProfile(r) PROVE CountsInv'
  <2>1. turn' \in [Runs -> 0..MaxTurns]
    BY <1>3, RunnerAssumption DEF PickProfile, CountsInv
  <2>2. \A o \in Runs : phase'[o] = "backoff" => phase[o] = "backoff"
    BY <1>0, <1>3 DEF PickProfile, Conclude, GoOn
  <2>3. UNCHANGED <<attempt, minute, profileVars>>
    BY <1>3 DEF PickProfile
  <2> QED BY <2>1, <2>2, <2>3 DEF CountsInv, profileVars
<1>4. ASSUME NEW r \in Runs, NextTurn(r) PROVE CountsInv'
  <2>1. turn[r] \in 0..MaxTurns /\ phase[r] = "turn"
    BY <1>4 DEF CountsInv, NextTurn
  <2>2. failures' \in [Profiles -> Nat] /\ cooldown' \in [Profiles -> Nat] /\ minute' = minute
    BY <1>4, ProfilesStep DEF NextTurn
  <2>3. \A o \in Runs : phase'[o] = "backoff" => o # r /\ phase[o] = "backoff"
    BY <1>0, <1>4 DEF NextTurn, Conclude, GoOn
  <2>4. CASE r \in over \/ turn[r] = MaxTurns
    BY <1>1, <1>4, <2>2, <2>3, <2>4 DEF NextTurn
  <2>5. CASE ~(r \in over \/ turn[r] = MaxTurns)
    <3>1. /\ turn' = [turn EXCEPT ![r] = @ + 1] /\ attempt' = [attempt EXCEPT ![r] = 1]
          /\ turn[r] + 1 \in 0..MaxTurns /\ 1 \in 0..MaxAttempts
      BY <1>4, <2>1, <2>5, RunnerAssumption DEF NextTurn
    <3>2. turn' \in [Runs -> 0..MaxTurns] /\ attempt' \in [Runs -> 0..MaxAttempts]
          /\ \A o \in Runs : o # r => attempt'[o] = attempt[o]
      BY <3>1 DEF CountsInv
    <3> QED BY <2>2, <2>3, <3>2 DEF CountsInv
  <2> QED BY <2>4, <2>5
<1>5. ASSUME NEW r \in Runs, ModelAnswers(r) \/ PermanentError(r) PROVE CountsInv'
  <2>1. failures' \in [Profiles -> Nat] /\ cooldown' \in [Profiles -> Nat]
        /\ UNCHANGED <<turn, attempt, minute>>
    BY <1>5, ProfilesStep DEF ModelAnswers, PermanentError
  <2>2. \A o \in Runs : phase'[o] = "backoff" => phase[o] = "backoff"
    BY <1>0, <1>5 DEF ModelAnswers, PermanentError, Conclude, GoOn
  <2> QED BY <1>1, <2>1, <2>2
<1>6. ASSUME NEW r \in Runs, TransientError(r) PROVE CountsInv'
  <2>1. failures' \in [Profiles -> Nat] /\ cooldown' \in [Profiles -> Nat]
        /\ UNCHANGED <<turn, attempt, minute>>
    BY <1>6, ProfilesStep DEF TransientError
  <2>2. \A o \in Runs : phase'[o] = "backoff" =>
            phase[o] = "backoff" \/ attempt[o] < MaxAttempts
    BY <1>0, <1>6 DEF TransientError, GoOn
  <2> QED BY <2>1, <2>2 DEF CountsInv
<1>7. ASSUME NEW r \in Runs, BackoffEnds(r) PROVE CountsInv'
  <2>1. attempt[r] \in 0..MaxAttempts /\ attempt[r] < MaxAttempts
        /\ attempt' = [attempt EXCEPT ![r] = @ + 1]
    BY <1>7 DEF CountsInv, BackoffEnds
  <2>2. attempt' \in [Runs -> 0..MaxAttempts] /\ \A o \in Runs : o # r => attempt'[o] = attempt[o]
    BY <2>1, RunnerAssumption DEF CountsInv
  <2>3. \A o \in Runs : phase'[o] = "backoff" => o # r /\ phase[o] = "backoff"
    BY <1>0, <1>7 DEF BackoffEnds, GoOn
  <2>4. UNCHANGED <<turn, minute, profileVars>>
    BY <1>7 DEF BackoffEnds
  <2> QED BY <2>2, <2>3, <2>4 DEF CountsInv, profileVars
<1>8. ASSUME NEW s \in Sessions, Abort(s) \/ ClearSession(s) PROVE CountsInv'
  BY <1>8 DEF Abort, ClearSession, CountsInv, runVars, profileVars
<1>9. CASE PassMinute
  BY <1>9, RunnerAssumption DEF PassMinute, CountsInv, runVars, profileVars
<1>10. CASE UNCHANGED runnerVars
  BY <1>10 DEF CountsInv, runnerVars, runVars, profileVars
<1> QED BY <1>2, <1>3, <1>4, <1>5, <1>6, <1>7, <1>8, <1>9, <1>10 DEF RunnerNext, RunStep

\* For every number of runs, sessions and profiles and all limits, the variables
\* have values of their types: no run makes more turns, and no turn more calls,
\* than the configuration allows.  runner.go:747, 958.
THEOREM RunnerTypeCorrect == RunnerSpec => []RunnerTypeOK
<1> DEFINE Inv == RunnerInv /\ CountsInv
<1>1. RunnerInit => Inv
  <2>1. RunnerInit => CountsInv
    BY RunnerAssumption DEF RunnerInit, CountsInv
  <2> QED BY <2>1, RunnerInitInv
<1>2. RunnerInv /\ [RunnerNext]_runnerVars => RunnerInv'
  BY RunnerTypeStep, TableStep, TranscriptStep DEF RunnerInv
<1>3. Inv /\ [RunnerNext]_runnerVars => Inv'
  BY <1>2, CountsStep DEF RunnerInv
<1>4. Inv => RunnerTypeOK
  BY DEF RunnerInv, RunnerTypes, CountsInv, RunnerTypeOK, Phases, Prompted, Waiting
<1> QED BY <1>1, <1>3, <1>4, PTL DEF RunnerSpec
=============================================================================

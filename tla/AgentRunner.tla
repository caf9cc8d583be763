---------------------------- MODULE AgentRunner ----------------------------
(***************************************************************************)
(* One agent run, pkg/agent/runner.go: it is queued on the lane of its     *)
(* session, saves the prompt, tries the auth profiles in the order of      *)
(* their priority, loops over calls of the model and of tools, and saves   *)
(* the answer.  Runs share the table of running agents, through which a    *)
(* session's run is aborted, and the failure counts of the profiles.       *)
(*                                                                         *)
(* The lane is the guard of Start: CommandQueue shows that it runs one     *)
(* task at a time.  Prompts, tools and models are left out: what a call    *)
(* of the model comes to is chosen.                                        *)
(***************************************************************************)
EXTENDS Naturals, Sequences, SequencesExt

CONSTANTS
    Runs,           \* calls of RunWithContext
    Sessions,
    NumProfiles,    \* auth profiles, named 1, 2, ... by their priority
    MaxTurns,       \* AgentConfig.MaxIterations
    MaxAttempts,    \* AgentConfig.MaxRetries
    MaxClock        \* bound: minutes of time

Profiles == 1..NumProfiles
NoRun == "no run"

ASSUME RunnerAssumption ==
    /\ NoRun \notin Runs
    /\ MaxTurns \in Nat \ {0} /\ MaxAttempts \in Nat \ {0} /\ MaxClock \in Nat \ {0}

VARIABLES
    session,    \* the session of each run
    phase,      \* where it is
    over,       \* the runs whose execCtx is done
    outcome,    \* "none", "ok", "aborted" or "error"
    candidates, \* its copy of the profiles that it has still to try
    turn, attempt,
    activeRuns, \* Runner.activeRuns: per session a run, or NoRun
    failures, cooldown,  \* per profile, FailureCount and CooldownUntil, 0 if nil
    transcript, \* per session, who wrote each message: <<role, run>>
    minute      \* the time

runVars == <<session, phase, over, outcome, candidates, turn, attempt>>
profileVars == <<failures, cooldown>>
runnerVars == <<runVars, profileVars, activeRuns, transcript, minute>>

RunnerInit ==
    /\ session \in [Runs -> Sessions]
    /\ phase = [r \in Runs |-> "idle"] /\ over = {}
    /\ outcome = [r \in Runs |-> "none"]
    /\ candidates = [r \in Runs |-> <<>>]
    /\ turn = [r \in Runs |-> 0] /\ attempt = [r \in Runs |-> 0]
    /\ activeRuns = [s \in Sessions |-> NoRun]
    /\ failures = [p \in Profiles |-> 0] /\ cooldown = [p \in Profiles |-> 0]
    /\ transcript = [s \in Sessions |-> <<>>]
    /\ minute = 1

Waiting == {"idle", "queued", "done"}
InLane(r) == phase[r] \notin Waiting
GoOn(r, p) == phase' = [phase EXCEPT ![r] = p]

\* executeAgent is about to return: what is left are its deferred calls.
Conclude(r, o) == GoOn(r, "leave") /\ outcome' = [outcome EXCEPT ![r] = o]

Says(r, role) ==
    transcript' = [transcript EXCEPT ![session[r]] = Append(@, <<role, r>>)]

-----------------------------------------------------------------------------
\* RunWithContext refuses a configuration, or enqueues the run.
SubmitRun(r) ==
    /\ phase[r] = "idle"
    /\ \/ GoOn(r, "queued") /\ UNCHANGED outcome
       \/ GoOn(r, "done") /\ outcome' = [outcome EXCEPT ![r] = "error"]
    /\ UNCHANGED <<session, over, candidates, turn, attempt, profileVars, activeRuns,
                   transcript, minute>>

\* Variant: the lane runs two tasks at a time.
StartRunBeside(r) ==
    /\ phase[r] = "queued"
    /\ GoOn(r, "begin")
    /\ activeRuns' = [activeRuns EXCEPT ![session[r]] = r]
    /\ UNCHANGED <<session, over, outcome, candidates, turn, attempt, profileVars,
                   transcript, minute>>

\* The lane starts executeAgent, which makes the run one that can be aborted.
StartRun(r) ==
    /\ phase[r] = "queued"
    /\ \A o \in Runs : session[o] = session[r] => ~InLane(o)
    /\ GoOn(r, "begin")
    /\ activeRuns' = [activeRuns EXCEPT ![session[r]] = r]
    /\ UNCHANGED <<session, over, outcome, candidates, turn, attempt, profileVars,
                   transcript, minute>>

\* The history, the memories and the tools make up the prompt; it cannot be
\* loaded, built or saved.
PromptFails(r) == Conclude(r, "error") /\ UNCHANGED transcript

BeginRun(r) ==
    /\ phase[r] = "begin"
    /\ IF r \in over
       THEN Conclude(r, "aborted") /\ UNCHANGED transcript
       ELSE \/ PromptFails(r)
            \/ Says(r, "user") /\ GoOn(r, "profiles") /\ UNCHANGED outcome
    /\ UNCHANGED <<session, over, candidates, turn, attempt, profileVars, activeRuns,
                   minute>>

\* executeWithFailover copies the profiles, cooldowns included.
CopyProfiles(r) ==
    /\ phase[r] = "profiles"
    /\ candidates' = [candidates EXCEPT ![r] =
                         [p \in Profiles |-> [profile |-> p, until |-> cooldown[p]]]]
    /\ GoOn(r, "pick")
    /\ UNCHANGED <<session, over, outcome, turn, attempt, profileVars, activeRuns,
                   transcript, minute>>

Current(r) == Head(candidates[r]).profile

\* The next profile that is not cooling down, as far as the copy knows, and
\* for which there is a provider; without one the run fails.
PickProfile(r) ==
    /\ phase[r] = "pick"
    /\ \/ /\ candidates[r] = <<>>
          /\ Conclude(r, "error") /\ UNCHANGED <<candidates, turn>>
       \/ /\ candidates[r] # <<>>
          /\ candidates' = [candidates EXCEPT ![r] = Tail(@)]
          /\ UNCHANGED <<phase, outcome, turn>>
       \/ /\ candidates[r] # <<>> /\ Head(candidates[r]).until <= minute
          /\ GoOn(r, "turn") /\ turn' = [turn EXCEPT ![r] = 0]
          /\ UNCHANGED <<candidates, outcome>>
    /\ UNCHANGED <<session, over, attempt, profileVars, activeRuns, transcript, minute>>

Succeeded(p) ==
    /\ failures' = [failures EXCEPT ![p] = 0]
    /\ cooldown' = [cooldown EXCEPT ![p] = 0]
Failed(p) ==
    /\ failures' = [failures EXCEPT ![p] = @ + 1]
    /\ cooldown' = [cooldown EXCEPT ![p] = minute + failures'[p]]

\* Variant: one turn more than there are.
NextTurnLate(r) ==
    /\ phase[r] = "turn"
    /\ IF r \in over \/ turn[r] > MaxTurns
       THEN /\ Conclude(r, "aborted") /\ Succeeded(Current(r))
            /\ UNCHANGED <<turn, attempt>>
       ELSE /\ GoOn(r, "call")
            /\ turn' = [turn EXCEPT ![r] = @ + 1] /\ attempt' = [attempt EXCEPT ![r] = 1]
            /\ UNCHANGED <<outcome, profileVars>>
    /\ UNCHANGED <<session, over, candidates, activeRuns, transcript, minute>>

\* Each turn looks whether the run is cancelled or has used up its turns;
\* either counts as a success of the profile.
NextTurn(r) ==
    /\ phase[r] = "turn"
    /\ IF r \in over \/ turn[r] = MaxTurns
       THEN /\ Conclude(r, "aborted") /\ Succeeded(Current(r))
            /\ UNCHANGED <<turn, attempt>>
       ELSE /\ GoOn(r, "call")
            /\ turn' = [turn EXCEPT ![r] = @ + 1] /\ attempt' = [attempt EXCEPT ![r] = 1]
            /\ UNCHANGED <<outcome, profileVars>>
    /\ UNCHANGED <<session, over, candidates, activeRuns, transcript, minute>>

\* The model answers, or asks for tools ...
ModelAnswers(r) ==
    /\ phase[r] = "call"
    /\ \/ GoOn(r, "answer") /\ Succeeded(Current(r))
       \/ GoOn(r, "tools") /\ UNCHANGED profileVars
    /\ UNCHANGED <<session, over, outcome, candidates, turn, attempt, activeRuns,
                   transcript, minute>>

\* ... or fails in a way that may pass: the call is made again, and in the
\* end with the next profile, where the whole loop begins anew ...
TransientError(r) ==
    /\ phase[r] = "call"
    /\ IF attempt[r] < MaxAttempts
       THEN GoOn(r, "backoff") /\ UNCHANGED <<candidates, profileVars>>
       ELSE /\ GoOn(r, "pick") /\ Failed(Current(r))
            /\ candidates' = [candidates EXCEPT ![r] = Tail(@)]
    /\ UNCHANGED <<session, over, outcome, turn, attempt, activeRuns, transcript, minute>>

\* ... or for good, which a cancelled call does as well: the run fails, and
\* the profile cools down.
PermanentError(r) ==
    /\ \/ phase[r] = "call"
       \/ phase[r] = "backoff" /\ r \in over
    /\ Conclude(r, "error") /\ Failed(Current(r))
    /\ UNCHANGED <<session, over, candidates, turn, attempt, activeRuns, transcript, minute>>

BackoffEnds(r) ==
    /\ phase[r] = "backoff"
    /\ GoOn(r, "call") /\ attempt' = [attempt EXCEPT ![r] = @ + 1]
    /\ UNCHANGED <<session, over, outcome, candidates, turn, profileVars, activeRuns,
                   transcript, minute>>

\* Every tool is executed, one after the other: ToolCalls shows it returns.
RunTools(r) ==
    /\ phase[r] = "tools" /\ GoOn(r, "turn")
    /\ UNCHANGED <<session, over, outcome, candidates, turn, attempt, profileVars,
                   activeRuns, transcript, minute>>

\* The answer is saved, cancelled or not; an empty answer cannot be.
SaveAnswer(r) ==
    /\ phase[r] = "answer"
    /\ \/ Says(r, "assistant") /\ Conclude(r, "ok")
       \/ UNCHANGED transcript /\ Conclude(r, "error")
    /\ UNCHANGED <<session, over, candidates, turn, attempt, profileVars, activeRuns, minute>>

\* The deferred calls; then the lane is free.
Leave(r) ==
    /\ phase[r] = "leave" /\ GoOn(r, "done")
    /\ activeRuns' = [activeRuns EXCEPT ![session[r]] = NoRun]
    /\ UNCHANGED <<session, over, outcome, candidates, turn, attempt, profileVars,
                   transcript, minute>>

\* Abort reaches the run in the table; for one in the queue it does nothing.
Abort(s) ==
    /\ activeRuns[s] # NoRun
    /\ over' = over \cup {activeRuns[s]}
    /\ activeRuns' = [activeRuns EXCEPT ![s] = NoRun]
    /\ UNCHANGED <<session, phase, outcome, candidates, turn, attempt, profileVars,
                   transcript, minute>>

\* The timeout of the run passes, or its caller goes away.
ExpireRun(r) ==
    /\ InLane(r) /\ r \notin over /\ over' = over \cup {r}
    /\ UNCHANGED <<session, phase, outcome, candidates, turn, attempt, profileVars,
                   activeRuns, transcript, minute>>

\* /reset in the chat clears the session, on no lane, while a run may go on.
ClearSession(s) ==
    /\ transcript[s] # <<>> /\ transcript' = [transcript EXCEPT ![s] = <<>>]
    /\ UNCHANGED <<runVars, profileVars, activeRuns, minute>>

PassMinute ==
    /\ minute < MaxClock /\ minute' = minute + 1
    /\ UNCHANGED <<runVars, profileVars, activeRuns, transcript>>

RunStep(r) ==
    \/ StartRun(r) \/ BeginRun(r) \/ CopyProfiles(r) \/ PickProfile(r) \/ NextTurn(r)
    \/ ModelAnswers(r) \/ TransientError(r) \/ PermanentError(r) \/ BackoffEnds(r)
    \/ RunTools(r) \/ SaveAnswer(r) \/ Leave(r)

RunnerNext ==
    \/ \E r \in Runs : SubmitRun(r) \/ RunStep(r) \/ ExpireRun(r)
    \/ \E s \in Sessions : Abort(s) \/ ClearSession(s)
    \/ PassMinute

\* Every call that a run makes returns.
RunnerFairness == \A r \in Runs : WF_runnerVars(RunStep(r))
RunnerSpec == RunnerInit /\ [][RunnerNext]_runnerVars /\ RunnerFairness

-----------------------------------------------------------------------------
RunnerTypeOK ==
    /\ session \in [Runs -> Sessions]
    /\ phase \in [Runs -> Waiting \cup {"begin", "profiles", "pick", "turn", "call",
                                        "backoff", "tools", "answer", "leave"}]
    /\ over \subseteq Runs
    /\ outcome \in [Runs -> {"none", "ok", "aborted", "error"}]
    /\ turn \in [Runs -> 0..MaxTurns] /\ attempt \in [Runs -> 0..MaxAttempts]
    /\ activeRuns \in [Sessions -> Runs \cup {NoRun}]
    /\ failures \in [Profiles -> Nat] /\ cooldown \in [Profiles -> Nat]
    /\ minute \in 1..MaxClock

Answers(r) == {i \in DOMAIN transcript[session[r]] :
                  transcript[session[r]][i] = <<"assistant", r>>}

\* A conversation stays one: an answer stands right after the prompt it
\* answers, or first in a session that was cleared meanwhile, whatever else is
\* queued, aborted or failed over; only a run that succeeded has one.
TranscriptIsHonest == \A r \in Runs : \A i \in Answers(r) :
    /\ i > 1 => transcript[session[r]][i - 1] = <<"user", r>>
    /\ outcome[r] = "ok"
    /\ \A j \in Answers(r) : i = j

\* Whoever aborts a session hits the run that is executing, if it is not
\* aborted yet, and never a run that has ended.
AbortReachesTheRun ==
    /\ \A r \in Runs : InLane(r) /\ r \notin over => activeRuns[session[r]] = r
    /\ \A s \in Sessions : activeRuns[s] # NoRun => InLane(activeRuns[s])

\* The transcript and the table of active runs tell of each run what it did:
\* runner.go:121-170 and 201-306, with the lane of the session.
RunsAreHonest == TranscriptIsHonest /\ AbortReachesTheRun

\* A run that is queued ends, however its calls fail.
RunsAtWork == \E r \in Runs : phase[r] \notin {"idle", "done"}
RunsComeToAnEnd == RunsAtWork ~> ~RunsAtWork
=============================================================================

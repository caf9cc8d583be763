-------------------------- MODULE TelegramIngress --------------------------
(***************************************************************************)
(* Messages from Telegram, internal/telegram and internal/daemon           *)
(* (channels.go, telegram_ingress_state.go, runtime_events.go,             *)
(* telegram_approval.go): the bot handles one update after the other, in   *)
(* one goroutine.  A text that is no duplicate is dispatched, and the      *)
(* goroutine waits for the run; meanwhile the run's output is shown by     *)
(* edits of a message, and a tool of the run, or of a run that came by     *)
(* the gateway, may ask in the chat for an approval, which is answered by  *)
(* a command: another update.                                              *)
(*                                                                         *)
(* What a run does is in RuntimeFlow and AgentRunner, who may write in     *)
(* Pairing, what an approval is in Approvals.                              *)
(***************************************************************************)
EXTENDS Naturals, Sequences, SequencesExt, FiniteSets

CONSTANTS
    Texts,          \* updates with a text for the agent, and the runs they start
    Replies,        \* updates with the command /approve
    GatewayRuns,    \* runs that came by the gateway
    Buffer,         \* events that a subscriber's channel holds
    MaxRedeliveries,\* bound: updates that Telegram delivers again
    MaxLapses       \* bound: how often the entries of the cache grow too old

ChatRuns == Texts \cup GatewayRuns
Idle == "no update"

ASSUME IngressAssumption == Idle \notin Texts \cup Replies /\ Buffer \in Nat

VARIABLES
    inbox,      \* Bot.updates
    unsent,     \* updates that are not written yet
    running,    \* Bot.running
    update,     \* the one that is handled, or Idle
    stage,      \* where its handling is
    cacheEntries,    \* messageDedupeCache: per text "none", "fresh" or "old"
    run,        \* per run "none", "busy" or "over"
    approval,   \* per run "none", "asked", "answered" or "lapsed"
    stream,     \* telegramRuntimeStream: "none", "open", "stopped", "flush", "done"
    events,     \* events in the channel of its subscription
    dirty,      \* it has text that it has not shown
    editing,    \* its call of EditMessage has not returned
    shown,      \* per text what the chat shows: "nothing", "part" or "answer"
    dispatches, lapses, \* history: per text, runs and entries that grew too old
    redeliveries

updateVars == <<inbox, unsent, running, update, stage>>
cacheVars == <<cacheEntries, lapses>>
chatRunVars == <<run, approval, dispatches>>
streamVars == <<stream, events, dirty, editing, shown>>
ingressVars == <<updateVars, cacheVars, chatRunVars, streamVars, redeliveries>>

IngressInit ==
    /\ inbox = <<>> /\ unsent = Texts \cup Replies /\ running = TRUE
    /\ update = Idle /\ stage = "idle"
    /\ cacheEntries = [t \in Texts |-> "none"] /\ lapses = [t \in Texts |-> 0]
    /\ run = [r \in ChatRuns |-> "none"] /\ approval = [r \in ChatRuns |-> "none"]
    /\ dispatches = [t \in Texts |-> 0]
    /\ stream = "none" /\ events = 0 /\ dirty = FALSE /\ editing = FALSE
    /\ shown = [t \in Texts |-> "nothing"]
    /\ redeliveries = 0

-----------------------------------------------------------------------------
\* The users, and the Telegram server.

Write(u) ==
    /\ u \in unsent /\ unsent' = unsent \ {u} /\ inbox' = Append(inbox, u)
    /\ UNCHANGED <<running, update, stage, cacheVars, chatRunVars, streamVars, redeliveries>>

Redeliver(t) ==
    /\ t \in Texts \ unsent /\ redeliveries < MaxRedeliveries
    /\ redeliveries' = redeliveries + 1 /\ inbox' = Append(inbox, t)
    /\ UNCHANGED <<unsent, running, update, stage, cacheVars, chatRunVars, streamVars>>

StopBot ==
    /\ running /\ running' = FALSE
    /\ UNCHANGED <<inbox, unsent, update, stage, cacheVars, chatRunVars, streamVars,
                   redeliveries>>

-----------------------------------------------------------------------------
\* processUpdates, and the handlers it calls.

\* A stopped bot drops the update that it takes, and its loop ends.
TakeUpdate ==
    /\ stage = "idle" /\ inbox # <<>>
    /\ inbox' = Tail(inbox)
    /\ IF ~running THEN stage' = "ended" /\ UNCHANGED update
       ELSE /\ update' = Head(inbox)
            /\ stage' = IF Head(inbox) \in Replies THEN "command" ELSE "message"
    /\ UNCHANGED <<unsent, running, cacheVars, chatRunVars, streamVars, redeliveries>>

HandledNow == stage' = "idle" /\ update' = Idle

\* /approve <id>: a request with this ID waits for its answer, or there is none.
HandleApprove ==
    /\ stage = "command" /\ HandledNow
    /\ \/ UNCHANGED approval
       \/ \E r \in ChatRuns : /\ approval[r] = "asked"
                              /\ approval' = [approval EXCEPT ![r] = "answered"]
    /\ UNCHANGED <<inbox, unsent, running, cacheVars, run, dispatches, streamVars,
                   redeliveries>>

\* A peer who is not allowed is told so.
TurnAway ==
    /\ stage = "message" /\ HandledNow
    /\ UNCHANGED <<inbox, unsent, running, cacheVars, chatRunVars, streamVars, redeliveries>>

\* Variant: the cache is never told.
CheckDuplicateUnmarked ==
    /\ stage = "message"
    /\ IF cacheEntries[update] = "fresh"
       THEN HandledNow
       ELSE stage' = "open" /\ UNCHANGED update
    /\ UNCHANGED <<inbox, unsent, running, cacheVars, chatRunVars, streamVars, redeliveries>>

\* IsDuplicate, then Mark: before the run, which may fail.
CheckDuplicate ==
    /\ stage = "message"
    /\ IF cacheEntries[update] = "fresh"
       THEN HandledNow /\ UNCHANGED cacheEntries
       ELSE /\ cacheEntries' = [cacheEntries EXCEPT ![update] = "fresh"]
            /\ stage' = "open" /\ UNCHANGED update
    /\ UNCHANGED <<inbox, unsent, running, lapses, chatRunVars, streamVars, redeliveries>>

\* startStream: none if it is off or its first message cannot be sent.
StartStream ==
    /\ stage = "open" /\ stage' = "dispatch"
    /\ stream' \in {"none", "open"} /\ events' = 0 /\ dirty' = FALSE
    /\ shown' = [shown EXCEPT ![update] = "nothing"]
    /\ UNCHANGED <<inbox, unsent, running, update, cacheVars, chatRunVars, editing,
                   redeliveries>>

DispatchText ==
    /\ stage = "dispatch" /\ stage' = "wait"
    /\ run' = [run EXCEPT ![update] = "busy"]
    /\ approval' = [approval EXCEPT ![update] = "none"]
    /\ dispatches' = [dispatches EXCEPT ![update] = @ + 1]
    /\ UNCHANGED <<inbox, unsent, running, update, cacheVars, streamVars, redeliveries>>

\* The run's result or error: the stream is told to stop, if there is one.
RunIsOver ==
    /\ stage = "wait" /\ run[update] = "over"
    /\ stage' = "answer"
    /\ stream' = IF stream = "open" THEN "stopped" ELSE stream
    /\ UNCHANGED <<inbox, unsent, running, update, cacheVars, chatRunVars, events, dirty,
                   editing, shown, redeliveries>>

\* Variant: the answer does not wait for the stream.
AnswerAtOnce ==
    /\ stage = "answer"
    /\ stage' = "idle" /\ shown' = [shown EXCEPT ![update] = "answer"]
    /\ UNCHANGED <<inbox, unsent, running, update, stream, cacheVars, chatRunVars, events,
                   dirty, editing, redeliveries>>

\* finishStream waits for the goroutine of the stream before its own edit.
Answer ==
    /\ stage = "answer" /\ stream \in {"none", "done"}
    /\ HandledNow /\ stream' = "none"
    /\ shown' \in {shown, [shown EXCEPT ![update] = "answer"]}
    /\ UNCHANGED <<inbox, unsent, running, cacheVars, chatRunVars, events, dirty, editing,
                   redeliveries>>

LoopStep ==
    \/ TakeUpdate \/ HandleApprove \/ TurnAway \/ CheckDuplicate \/ StartStream
    \/ DispatchText \/ RunIsOver \/ Answer

-----------------------------------------------------------------------------
\* The goroutine of the stream: the texts of update, which it is opened for.

\* It may still take an event after it is told to stop.
TakeEvent ==
    /\ stream \in {"open", "stopped"} /\ ~editing /\ events > 0
    /\ events' = events - 1 /\ dirty' = TRUE /\ editing' \in BOOLEAN
    /\ UNCHANGED <<updateVars, cacheVars, chatRunVars, stream, shown, redeliveries>>

TickerFires ==
    /\ stream = "open" /\ ~editing /\ dirty /\ editing' = TRUE
    /\ UNCHANGED <<updateVars, cacheVars, chatRunVars, stream, events, dirty, shown,
                   redeliveries>>

\* The edit arrives, or fails and is tried again with more text.
EditReturns ==
    /\ editing /\ editing' = FALSE
    /\ \/ UNCHANGED <<shown, dirty>>
       \/ dirty' = FALSE /\ shown' = [shown EXCEPT ![update] = "part"]
    /\ UNCHANGED <<updateVars, cacheVars, chatRunVars, stream, events, redeliveries>>

LastFlush ==
    /\ stream = "stopped" /\ ~editing /\ stream' = "flush" /\ editing' = dirty
    /\ UNCHANGED <<updateVars, cacheVars, chatRunVars, events, dirty, shown, redeliveries>>

CloseDone ==
    /\ stream = "flush" /\ ~editing /\ stream' = "done"
    /\ UNCHANGED <<updateVars, cacheVars, chatRunVars, events, dirty, editing, shown,
                   redeliveries>>

StreamStep == TakeEvent \/ EditReturns \/ LastFlush \/ CloseDone

-----------------------------------------------------------------------------
\* The runs.

BeginGatewayRun(r) ==
    /\ r \in GatewayRuns /\ run[r] = "none" /\ run' = [run EXCEPT ![r] = "busy"]
    /\ UNCHANGED <<updateVars, cacheVars, approval, dispatches, streamVars, redeliveries>>

\* Publish: lost if nobody subscribes or the channel is full.
Publish(r) ==
    /\ run[r] = "busy" /\ r = update /\ stream = "open" /\ events < Buffer
    /\ events' = events + 1
    /\ UNCHANGED <<updateVars, cacheVars, chatRunVars, stream, dirty, editing, shown,
                   redeliveries>>

AskApproval(r) ==
    /\ run[r] = "busy" /\ approval[r] = "none"
    /\ approval' = [approval EXCEPT ![r] = "asked"]
    /\ UNCHANGED <<updateVars, cacheVars, run, dispatches, streamVars, redeliveries>>

\* Variant: a request waits until somebody answers it.
LapseApprovalNever(r) == FALSE /\ UNCHANGED ingressVars

\* Its timeout passes.
LapseApproval(r) ==
    /\ approval[r] = "asked" /\ approval' = [approval EXCEPT ![r] = "lapsed"]
    /\ UNCHANGED <<updateVars, cacheVars, run, dispatches, streamVars, redeliveries>>

EndRun(r) ==
    /\ run[r] = "busy" /\ approval[r] # "asked" /\ run' = [run EXCEPT ![r] = "over"]
    /\ UNCHANGED <<updateVars, cacheVars, approval, dispatches, streamVars, redeliveries>>

\* The entry of a text grows older than the time to live, or is cleaned up.
EntryAges(t) ==
    /\ \/ /\ cacheEntries[t] = "fresh" /\ lapses[t] < MaxLapses
          /\ cacheEntries' = [cacheEntries EXCEPT ![t] = "old"]
          /\ lapses' = [lapses EXCEPT ![t] = @ + 1]
       \/ /\ cacheEntries[t] = "old" /\ cacheEntries' = [cacheEntries EXCEPT ![t] = "none"]
          /\ UNCHANGED lapses
    /\ UNCHANGED <<updateVars, chatRunVars, streamVars, redeliveries>>

IngressNext ==
    \/ \E u \in Texts \cup Replies : Write(u)
    \/ \E t \in Texts : Redeliver(t) \/ EntryAges(t)
    \/ StopBot \/ LoopStep \/ StreamStep \/ TickerFires
    \/ \E r \in ChatRuns : \/ BeginGatewayRun(r) \/ Publish(r) \/ AskApproval(r)
                           \/ LapseApproval(r) \/ EndRun(r)

\* The goroutines run, calls of Telegram return, and a run ends: see AgentRunner.
IngressFairness ==
    /\ WF_ingressVars(LoopStep) /\ WF_ingressVars(StreamStep)
    /\ \A r \in ChatRuns : WF_ingressVars(LapseApproval(r)) /\ WF_ingressVars(EndRun(r))

IngressSpec == IngressInit /\ [][IngressNext]_ingressVars /\ IngressFairness

-----------------------------------------------------------------------------
IngressTypeOK ==
    /\ inbox \in Seq(Texts \cup Replies) /\ unsent \subseteq Texts \cup Replies
    /\ update \in Texts \cup Replies \cup {Idle}
    /\ stage \in {"idle", "ended", "command", "message", "open", "dispatch", "wait", "answer"}
    /\ cacheEntries \in [Texts -> {"none", "fresh", "old"}]
    /\ run \in [ChatRuns -> {"none", "busy", "over"}]
    /\ approval \in [ChatRuns -> {"none", "asked", "answered", "lapsed"}]
    /\ stream \in {"none", "open", "stopped", "flush", "done"}
    /\ events \in 0..Buffer /\ shown \in [Texts -> {"nothing", "part", "answer"}]

\* Telegram may deliver a message again: it is run once more only if the
\* entry of the run before has grown too old.
RunsOncePerLapse == \A t \in Texts : dispatches[t] <= 1 + lapses[t]

\* The answer stays: no edit of the stream, late or failed before, puts a part
\* of it in its place.
AnswerStays == [][\A t \in Texts : shown[t] = "answer" => shown'[t] # "part"]_ingressVars

\* No text, and no approval that nobody answers, keeps the bot from its updates.
BotWaits == stage = "wait"
BotGoesOn == BotWaits ~> ~BotWaits

=============================================================================

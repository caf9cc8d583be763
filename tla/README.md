# Formal models of ranya

ranya is a daemon that runs AI agents: messages come in from Telegram, webhooks,
a WebSocket gateway and cron jobs, wait in the lanes of a command queue, are
handled by an agent runner that calls models and tools, and are answered on the
channel they came from. This directory holds TLA+ models of its core logic, the
TLC instances that check them, and TLAPS proofs of what matters most.

`PROJECT.json` lists the components, runs, mutants, findings, hazards and
theorems; its `map` names the source lines every definition stands for.

## 1. The system

### 1.1 Components

| Component | State it keeps | Operations | What is hard about it |
|---|---|---|---|
| command queue `pkg/commandqueue` | per lane a queue, a running count, active IDs, a generation; a global semaphore; a cache of replies | Enqueue, processLane, executeTask, ClearLane, ResetLane, SetConcurrency, Close | three kinds of goroutine, two critical sections per call, a semaphore shared by lanes |
| session store `pkg/session` | a JSONL file per session, a map of mutexes | create, append, load, replace, delete, repair; the archiver and the cleanup, which prunes and deletes | a mutex deleted while held, load-then-write without it, crashes |
| cron service `pkg/cron` | job table, one timer handle per job, a file | add, update, remove, run, stop; timers, executeJob | the mutex is given up during a run, timers nobody can cancel, saved run marks |
| orchestrator `pkg/orchestrator` | agent instances, limits, a file per instance | spawn, run in parallel, stop, shut down | check then act on limits, a run that ends after its instance was stopped |
| planner `pkg/planner` | plan graph and step states | execute | parallel steps, join strategies, retries, cancellation |
| agent runner `pkg/agent` | active runs, failures and cooldowns of profiles, the transcript | run, abort, failover, tool loop | abort against start and end, failover in the middle of a run |
| daemon runtime flow `internal/daemon` | lanes of sessions, request IDs, the Telegram ingress with its caches and streams | route, plan, dispatch, review, reset | repetitions, a cache under two kinds of ID, a bot that waits for itself |
| daemon lifecycle `internal/daemon`, `internal/cli` | which parts are open, the PID file | start, stop, kill | order of stop, a part that fails or hangs |
| tool executor `pkg/toolexecutor` | tools, gates, sandboxes | execute, retry, register | checks in order, timeouts, handlers that live on |
| tool approvals and allowlist `pkg/toolexecutor` | pending approvals, the allowlist and its file | request, answer, time out, add, save | the answer races the timeout, saves overlap |
| node manager `pkg/node` | nodes, invocations in flight, lanes per node | register, beat, invoke, respond | late answers, tasks nested in one lane |
| gateway server `pkg/gateway` | clients, in-flight requests, cached responses, event numbers | connect, request, broadcast, stop | goroutine per request, keys, Stop at any time |
| routing service `pkg/routing` | routes, a shared priority queue, a file | add, remove, resolve, deliver, load, save | nested fallbacks, concurrent resolves, edits while it loads and stops |
| webhook server `pkg/webhook` | requests it knows of, windows per address | receive, limit, handle, notify, stop | handlers that outlive their timeout and Stop |
| pairing manager `pkg/pairing` | pending requests, allowlist, two files | ensure, approve, reject, refresh | two processes share the files |
| workspace `pkg/workspace` | cached files, debounce timers, the daemon's agents and their prompts | load, reload, close | bursts of events, stale cache, two files that change one list |
| memory `pkg/memory` | four SQLite tables, flags | sync, search | partial failure, rows that outlive their file |
| browser tools `pkg/browser` | profiles, contexts, Chrome processes | ensure, use, stop, reload | a Chrome that dies, a profile that goes during a call |
| subagents, plugins, channels, hooks, moderation, core tools, sandbox, configuration, logging and metrics | little or external | | see section 6 |

### 1.2 How they interact

- A channel (Telegram, webhook, gateway, cron) calls `channelRegistry.Dispatch`;
  the daemon's router enqueues a task on the lane of the session with
  `EnqueueWithContext` and blocks for its reply. A task may enqueue on another
  lane and wait, and so holds a slot of the global semaphore while it waits for
  another. Every enqueue carries a request ID, under which the reply is cached.
- The task runs the agent runner, which loads the session (shared files), calls
  a provider, executes tools (which may block for an approval by a person, who
  answers on a channel), and appends messages.
- Archiver and cleanup work on the session files on their own tickers, the memory
  sync on the event loop's and on that of every search.
- The node manager and the gateway's methods use the lane `main` for every change
  of the registry, and a lane per node for invocations.
- The CLI is another process; it shares the pairing files and the PID file with
  the daemon. Chrome, SQLite, providers and Telegram are external.

A component is modelled with what it needs to know of the others: a guard that
says what a lane guarantees (`AgentRunner`, `RuntimeFlow`, `Nodes`), a chosen outcome
where another component decides, and the properties of that component's module as the
justification. The guards on lanes rest on `LaneOfOneIsSerial`, a theorem about
`CommandQueue`: a lane whose concurrency is one runs one task at a time.

## 2. Modules

| Module | Models | Checked by | Proved in |
|---|---|---|---|
| `LaneService` | what the queue promises: lines, limits, one answer | as a refinement target | `CommandQueueProofs` |
| `CommandQueue` | `pkg/commandqueue`, goroutine by goroutine | `MCCommandQueue` | `CommandQueueProofs` |
| `ToolCalls` | `Execute` and `ExecuteWithRetry` of `pkg/toolexecutor`, with sandboxes | `MCTools` | `ToolCallsProofs` |
| `Approvals` | the approval of a tool call and the allowlist, `pkg/toolexecutor` | `MCTools` | `ToolCallsProofs` |
| `SessionStore` | `pkg/session` with the archiver, the pruning and crashes | `MCMessages` | `SessionProofs` |
| `AgentRunner` | `pkg/agent/runner.go`, the session reset | `MCMessages` | `AgentRunnerProofs` |
| `TelegramIngress` | `internal/telegram` and the Telegram channel of `internal/daemon` | `MCMessages` | `MessagesProofs` |
| `RuntimeFlow` | router and pipeline of `internal/daemon` | `MCMessages` | `MessagesProofs` |
| `Gateway` | `pkg/gateway` | `MCMessages` | `GatewayProofs` |
| `Webhook` | `pkg/webhook` | `MCMessages` | `MessagesProofs` |
| `Memory` | `pkg/memory` | `MCMessages` | `MessagesProofs` |
| `Orchestration` | `pkg/orchestrator`: spawns, joins, instances and their files; the steps the daemon dispatches | `MCServices` | `ServicesProofs` |
| `PlanExecution` | the plan executor of `pkg/planner` | `MCServices` | `ServicesProofs` |
| `Nodes` | `pkg/node` and its gateway methods | `MCServices` | `ServicesProofs` |
| `Routing` | `pkg/routing` | `MCServices` | `ServicesProofs` |
| `Lifecycle` | New, Start, Wait and Stop of the daemon, `ranya start` and `stop` | `MCServices` | `ServicesProofs` |
| `Cron` | `pkg/cron` with timers, failing saves and restarts | `MCResources` | `ResourcesProofs` |
| `Pairing` | `pkg/pairing` in several processes | `MCResources` | `ResourcesProofs` |
| `Workspace` | `pkg/workspace` and the daemon's reload | `MCResources` | `ResourcesProofs` |
| `Browser` | `pkg/browser` | `MCResources` | `ResourcesProofs` |

`MCTools`, `MCMessages`, `MCServices` and `MCResources` put components side by
side: the variable `part` says which component a behaviour is of, the others stay
as they start. That adds up their state spaces instead of multiplying them, and one
run asks the same kind of question of all of them. It is sound for these
properties because the components of one MC module share no variable; that each
composition implements every one of its components is a theorem, too (4.3).

### 2.1 CommandQueue and LaneService

An element of `Calls` is one call of `EnqueueWithContext` and the record it
creates. `pc` is where the calling goroutine is, `exec` where the goroutine of
`executeTask` is; `processLane` goroutines are counted (`spawned`) until they
take the lane's mutex (`processing`), which they hold for their whole loop. One
action is the code between two points at which another goroutine can be seen.

| Code | Actions |
|---|---|
| `EnqueueWithContext` | `Lookup`, `ReadGeneration`, `AppendRecord`, `SpawnProcessLane`, `ReceiveResult`, `CacheReply` |
| `processLane` | `BeginProcessLane`, `StartHead`, `RejectStaleHead`, `EndProcessLane` |
| `executeTask` | `TaskReturns`, `UpdateLane`, `SendResult`, `SpawnNext`, `ReleaseSlot` |
| `ClearLane`, `ResetLane`, `SetConcurrency`, `Close` | `ClearLane`, `ResetLane`, `SetConcurrency`, `CloseBegins`, `CloseReturns` |
| `dedupCache` | `Lookup` (Get), `CacheReply` (Set), `Expire` (the ttl) |

A slot taken for a stale record is not given back by `RejectStaleHead`, as in
the code: `slots` then holds the token of that record (`Refused`) for ever. Two
variables record what the request cache did: `lapsed`, the requests whose entry has
expired, and `beside`, which calls of its request a call found on their way when it
looked into the cache in vain.

`LaneService` says the same without goroutines. The refinement maps a call to
`waiting`, `running`, `finished` or `answered`; the caller's steps, the lane
processors' bookkeeping and the semaphore are stuttering steps.

### 2.2 Tools: ToolCalls and Approvals

A tool call (`ToolCalls`) is a place per call (`pc`), the attempt it is at and, per
attempt, the definition looked up, the handler's goroutine (`run`) and the
`outcome`. A handler's goroutine lives on when its attempt is over. `Finish` is the
return of `Execute` together with what `ExecuteWithRetry` makes of it; `Retry` and
`GiveUp` are the cases of its `select`, `TakeResult` and `TimeOut` those of the one in
`Execute`. A `select` with two ready cases takes either. The approval is one step
with any verdict (`Approve`, `Deny`); `Approvals` is what happens in it. What is
retried is told by markers in an error's text, which may be part of a name, a
parameter, a path or a cause: `Refuse` and `SandboxFails` end with an error that is
final or `"transient"`.

In `Approvals`, `manager` is the goroutine in `ApprovalManager.RequestApproval`,
`handler` the one in `ChatApprovalHandler.RequestApproval`, `user` a goroutine in
`ResolveApproval`. The response channel holds one response; a user who looked the
request up keeps the channel, and may send to it after the handler has gone.
`Add` excludes those who save, and `OpenFile` and `WriteFile` are the truncation and
the end of the write, with the read lock held between them.

### 2.3 The way of a message

`SessionStore`: every process does one job: append a message, archive the session, or
prune or delete it or its archive, as the cleanup does. Each job is the list of
`SessionManager` operations it makes (`todo`); `archiveSession`'s list depends on what
it loaded. Files are inodes under names, so an append through a descriptor of a file
that was deleted or replaced is possible and lost, as on disk. `Crash` empties memory
and leaves files, `.tmp` files included. A write is one step: torn lines are not
modelled.

`AgentRunner`: a run is queued (`SubmitRun`), starts alone in its session's lane
(`StartRun`), saves the prompt (`BeginRun`), tries the profiles by priority
(`PickProfile`, with `Current` as the order and `Failed` and `Succeeded` as the
cooldowns), loops over calls of the model (`NextTurn`, `ModelAnswers`, `RunTools`,
with `TransientError` and `BackoffEnds` for the retries and `PermanentError` for the
failover) and saves the answer (`SaveAnswer`). `Abort` looks into the table of active
runs; a run whose context ended (`over`) still returns through `Leave`.
`ClearSession` is a reset, which comes at any time.

`TelegramIngress`: the bot's goroutine (`stage`) takes one update after the other
(`TakeUpdate`) from what Telegram holds (`Write`, `Redeliver`). A text passes
`CheckDuplicate`, opens a stream, is dispatched and waited for. The stream has a
goroutine of its own (`TakeEvent`, `TickerFires`, `EditReturns`, `LastFlush`), which
`Answer` stops and waits for. `HandleApprove` is the command that answers an approval,
which `AskApproval` asked for and `LapseApproval` gives up.

`RuntimeFlow`: a message waits for the lane of its session (`RouteMessage`,
`TakeMessage`), is planned in one or two steps, each an enqueue under the ID
`StepId` (`CallStep`, `StepReturns`), which the queue answers from its cache if it
knows it; `CallCritic` enqueues under the ID of the whole request. `ForgetReply` is
the cache's expiry. A repeated message (two elements of `Messages` with one
`request`) repeats all of it.

`Gateway`: a client is connected (`link`), challenged and authenticated; a request has
a goroutine (`requestStage`): `HandleMessage` with the limit, or `HandleRPC` over HTTP,
`GetCachedResponse`, `MarkInFlight` or a wait, `RunHandler`, `CacheResponse`, `Unmark`,
`Reply`. The cache and the marks are looked at under different locks, so these are
different steps. A broadcast takes the broadcaster's lock, numbers an event and writes
it to one client after the other (`WriteEvent`). Stop is `BeginStop`,
`WaitForRequests`, `CloseClients`, `ShutdownHTTP`.

`Webhook`: `TrackPost`, `CheckLimit`, `VerifyPost`, then the handler in its goroutine,
its result or the timeout, `Untrack` and the two notices. `Drain` and `EndShutdown` are
Stop with and without its timeout.

`Memory`: a sync (`StartSync`, refused to whom finds one running) walks the files,
reads each (`ReadMemoryFile`) and indexes it in one transaction (`IndexFile`), which
commits all or nothing; rows are kept in the four tables of the schema, with the row
identifiers that SQLite gives, and nothing cascades. A search matches chunks
and joins them with their files in separate statements.

### 2.4 Services

A request of `Orchestration` is a parallel one (`"all"`, `"first"`, `"any"`), a
captain's chair (`"chair"`, one spawn after the other), or a step of the daemon's
pipeline (`"step"`, which takes an instance without asking for leave and runs without
a timeout). A spawn walks
through `Spawner.Spawn`: `MaySpawn` or `Refuse`, `Create`, `MarkRunning`,
`RunReturns`, `MarkEnded`. The check of the limit and the marking are separate
critical sections, as in the code. `inst` is the table in memory, `file` the file of
each instance, written in place: a failing save or a crash may leave it `"torn"`.
`Recover` is what a restarted daemon makes of the files. `StopInstance` and
`Shutdown` cancel a context of the instance in which nothing runs, so that they
change the status only.

In `PlanExecution`, `Before[n]` is what the first n levels of the topological sort
hold. A level's goroutines (`at`) run on after a join that does not wait for them,
while `execution` goes on to the next level. Any dependency relation is an initial
state, the circular ones too. The parallel executor, the captain's chair and the plan
executor are called by tests only; what the daemon uses of the two packages are the
instance table and the steps.

`Nodes`: whatever changes the registry is a task of lane `main` (`StartTask`,
`RunTask`), enqueued by a caller of the manager or by a method of the gateway
(`EnqueueCall`); the methods in `TwoTasks` enqueue a second task from within the first.
An invocation waits for the lane of its node (`StartInvocation`, `Invoke`), then for a
response (`HandleResponse`, `TakeResponse`) or its timeout (`InvocationExpires`,
`GiveUp`). Nodes start as they were saved (`SavedNodes`), and the monitor
(`CheckHeartbeats`) may take copies of them and judge one after the other
(`MissHeartbeat`, `MarkNodeOffline`): both belong to `NodeManager.Start`, which the
daemon does not call, so that neither has to happen.

`Routing`: a call of `ResolveRoute` finds the best bound routes (`RankRoutes`), then
clears, fills and empties the one priority queue (`ClearQueue`, `EnqueueRoute`,
`DequeueRoute`), each under its own lock, so that two calls interleave. A delivery is a
stack of `frames`: the handler of a route, then its fallbacks, then the default. Routes
are added, removed, enabled and ranked at any time, also before `Start` and after
`Stop`, as the gateway is up before the service. `StartRouting` reads the file and
`LoadRoute` adds one route after the other as `AddRoute` would. A loop (`ListForSave`)
and `StopRouting` make a list of the routes, which `SaveRoutes` writes; `shared` are the
routes in it that are the table's own, as the list is one of pointers.

`Lifecycle`: a process constructs the parts (`Made`), starts others (`Started`), waits
and stops (`Stopped`), each part a step.
`StartFails` is a part that does not start, `CrashDaemon` a process that dies; a part
that hangs in Stop is a step that is not taken. `StopCommand`,
`SeeStopped` and `KillDaemon` are `ranya stop`. The PID file is written by the command
(`WritePidFile`) and, if `DefaultDataDir`, by the LifecycleManager's start; the
LifecycleManager's stop removes it, and so does the command when `Stop` has returned
(`RemovePidFile`), before the process is gone (`Leave`).

### 2.5 Resources

`Cron`: `s.mu` is held by every operation from beginning to end, so each is one action,
except `executeJob`, which is `Execute` or `Skip` and, after the payload,
`FinishRun` or `FinishLastRun`. `timer` is the timer the service has a handle
to, `loose` those whose handle was overwritten: `scheduleJobLocked` does not
stop the timer it replaces. Saving may fail; `Restart` loads what was saved.
A cron expression is evaluated by a library and behaves as an anchored interval.

`Pairing`: a process (`Managers`) has a copy of the two files and the time it last
looked. A call (`BeginCall`) reads again what is newer (`Read`), drops the requests that
are too old (`Sweep`) and changes its copy (`Decide`); each of the three may have to
write, and each write of a file is a step of its own (`WriteFile`, `WriteFails`), as is
noting the time of it (`NoteTime`). `Look` is a call that only asks who is allowed: it
may come at any moment of another process's call, and writes only to drop a request that
is too old. `NewProcess` reads all anew. `ideal` is what the same calls come to one
after the other in one process.

`Workspace`: `Edit`, `Replace` (an atomic save) and `Chmod` raise events, unless the
workspace's path is one that the watcher ignores (`hidden`); `DebounceEvent` arms the
timer of the file for the newest event, `TimerFires` starts the callback, `ProcessEvent`
reads the file, brings the cache up to date and calls the daemon. `Reload` is what the
daemon makes of it: AGENTS.md replaces the `agents` of the configuration, SOUL.md the
`prompt` of the agent `default` among them, whatever parses to nothing changes nothing
(`Blank`). The bootstrap reads and applies the two files once (`ReadBootstrap`,
`ApplyBootstrap`). `muffled` are the files with a change on its way that an event of
attributes, or of the inode that was replaced, came after, which takes its place;
`replaced` says that the agents were replaced after SOUL.md was applied.

`Browser`: a call takes the context of its profile (`GetProfile`), makes sure of a
browser (`EnsureBrowser`: keep it, heal it or spawn one; `ConnectCDP`), gives the mutex
up and uses the session. `ChromeDies`, `RemoveProfile`, `ShutdownProfile` and
`ShutdownBrowsers` come between any two steps. `Shutdown` and a reload exclude each
other by the lock of the profiles (`shutting`, `reload`), but a reload that was on its
way when `Shutdown` came goes on after it. `ConnectCDP` may fail with a Chrome there,
which then nobody stops. `overtaken` are the profiles that a call made sure of with a
context they no longer had.

## 3. Runs

| Run | Module | Shows | States |
|---|---|---|---|
| `queue_safety` | `MCCommandQueue` | the promises of the queue in every interleaving of three calls on two lanes, two of them with one request ID, with one operation (clear, reset, resize or close) at any point; it implements `LaneService` | 1,464,000 |
| `queue_liveness` | `MCCommandQueue` | with as many slots as calls, every queued call is answered and `Close` returns, with a task that enqueues on the other lane | 122,000 |
| `tools` | `MCTools` | one call with three attempts and three changes of the registry: gates, repetitions, cancellation, return; two requests for an approval, two users and two answers, late or never, with failing saves, a crash and a restart: the first answer decides, "always" is kept, every request ends | 389,000 |
| `messages` | `MCMessages` | what a message passes: sessions, runs, the chat, the flow, the gateway, webhooks, the memory index | 661,000 |
| `services` | `MCServices` | agents, plans, nodes, routes and the daemon's life | 966,000 |
| `resources` | `MCResources` | cron jobs, pairing files, workspace files, browsers | 5,334,000 |
| `queue_lostwakeup` | `MCCommandQueue` | violation: with the slots used up, a lane that was turned away is never looked at again | |
| `session_serialized` | `MCMessages` | violation: a deletion lets two writers in | |
| `gateway_idempotency` | `MCMessages` | violation: two requests with one key both run | |
| `memory_reindex` | `MCMessages` | violation: a changed file is not indexed again | |
| `node_register` | `MCServices` | violation: `node.register` waits for its own lane | |
| `daemon_webhook` | `MCServices` | violation: with webhooks enabled the daemon never comes up | |

Every property of a passing run has a mutant in `PROJECT.json`: a form of a mapped
definition with a plausible bug (`HasSlotOffByOne`, `CheckDuplicateUnmarked`,
`UntrackAndNotify`), with which TLC finds the property violated.

### 3.1 Bounds

- Queue: three calls are the fewest with two in one lane (order, limit) and one
  in another (shared slots, shared request). Two slots make the semaphore the
  limit; three take it out of play. Concurrency is one and two, as for `main` and
  more than one for `cron`. One operation meets every state of the calls. Nobody
  in the repository sets a concurrency below one.
- Tools: calls share only the registry and the sandboxes, so one call and three
  changes of the registry stand for many calls; three attempts are the default. Two
  requests, for one tool or two, are enough for the answer to one to decide the other
  and for two saves to overlap; two answers are enough to contend for one request.
  `OneOrder` names the requests, tools and users in one of the ways that are the same
  but for the names.
- Sessions: three processes are the fewest in which a deletion splits two writers.
  One session suffices because sessions share nothing. Two old messages and a
  limit of one make every pruning drop something; one crash comes at any point.
- Runs: two, of one session or of two, with two profiles, two attempts, one turn of
  tools and a clock of two. Runs of one session meet in the lane and the transcript,
  those of two at the profiles, so that there (`RunsPart`) only one of them is cancelled
  and no session is cleared; time passes between the calls of the models.
- Chat: one text that is delivered twice, one approval command, one run that came by
  the gateway, a buffer of one event. A second text could only wait behind the first.
- Flow: two messages, which are the same request or two, on one lane or two, with
  plans of one or two steps, with or without a critic, and one forgotten reply
  (`FlowPart`: of a first step).
- Gateway: one client and two requests, over the socket or over HTTP, with one key or
  none, a limit of one, two events. Requests meet at the key and the limit, events at
  Stop, and are two parts (`GatewayPart`).
- Webhook: two requests of one address with a limit of one, one new minute. Memory: two
  files, two changes, one search, one crash; five row identifiers are more than two
  changes can use.
- Agents: requests share the table and the limit only, and two spawns of one request
  share them as two requests would. Two spawns are enough for one to be first, or to
  fail while the other runs; the chair has four stages, two of which show the
  hand-over. One failing save, one operation and one crash meet at every point.
- Plans: three steps give a level of two with a step before or after it, chains,
  circles and independent steps, with one retry.
- Nodes: one node, registered, online and allowed at the start, with or without a
  timeout behind it (`NodesPart` makes `i1` the first invocation), two invocations, one
  caller of manager and methods, one silence. Nodes share lane `main` only, which a
  second invocation and the caller use.
- Routes: two, with two priorities, two calls and two changes; calls meet in the queue
  (`ResolvePart`), deliveries follow fallbacks (`DeliverPart`).
- Daemon: two processes, which may be alive at once, two calls of `ranya stop`, the data
  directory of the default configuration.
- Cron: one job, as jobs share only the file. Three operations allow a job to be added,
  changed and then removed, run or stopped; a clock of three lets a second failure wait
  for the second backoff. One failing save and one restart, and at most four of these
  five (`CronPart`).
- Pairing: two processes, two peers, one pending request allowed, three calls, one write
  that fails: enough for one process to overwrite or overlook what the other did.
- Workspace: the two files that the daemon applies, three changes or two and one of
  attributes (`WorkspacePart`), one version that parses to nothing and one of AGENTS.md
  without a default agent.
- Browser: one profile, as profiles share nothing; two contexts, two Chromes, one that
  dies, and three calls: one that takes the context the profile loses, one that takes
  its new one, and one that comes while the first is late.

### 3.2 Properties

- Queue. `AnsweredOnce`, `HonestReplies`, `NoLostCaller` relate a call's channel, its
  place in the queue and its execution; `CountersAgree` relates two counters of a lane
  (`RunningIsActive`) and the global slots (`SlotsBoundTasks`) to what executes: no slot
  is taken but those of executing tasks and those lost to stale records. `RerunsOverlap`
  says when the request cache lets a task run again: only beside a call that was on its
  way, or after the entry expired. `ImplementsService` is the refinement of
  `LaneService`; `EveryCallAnswered` and `CloseTerminates` are liveness.
- Tools. `RunsAreGated` and `FirstAnswerDecides` say that what runs was allowed, by its
  own approval, as it is; `AlwaysIsKept` relates what a user was told to memory and
  file; `RerunsFollowFailures` and `CancelEndsRetries` bound what a call does twice.
- Sessions. `AcknowledgedIsDurable` and `OnlyDeletionSplitsWriters` say what the store's
  unsynchronised jobs may and may not break.
- Runs. `RunsAreHonest`: a transcript stays a conversation under aborts, failovers and
  resets (`TranscriptIsHonest`), and whoever aborts a session hits the run that executes
  (`AbortReachesTheRun`).
- Chat. `RunsOncePerLapse` bounds what a redelivered update does; `AnswerStays` relates
  the stream's last edit to the final answer.
- Flow. `FlowIsHonest`: a step runs again only if the queue forgot its result, and a
  caller gets what the last step of its own request came to.
- Gateway. `RequestsAreOrderly`: handlers of one key never run together, a waiter waits
  for somebody, and limits count what is in hand, also after a disconnect.
  `EventsAreInOrder`: no client receives an event with a smaller number after a greater.
- Webhook. `EventsFollowAnswers` relates notices, answers, windows and Stop. Memory.
  `IndexIsWhole` relates the four tables to one version.
- Services. `AgentsAreHonest` relates the table, the file and the goroutine of an
  instance, and what a join reports to what became of every spawn; `PlansAreHonest` the
  levels to the transitive dependencies and the outcome to the steps.
  `InvocationsAreHonest` relates responses, timeouts and the state of a node;
  `RoutesAreSound` the fallbacks of all routes, the file that Stop leaves, and what a
  call selects. `StopsInOrder` relates the queue to what brings it calls.
- Resources. `RunsAreAlone`, `EnabledHasOneTrigger`, `RemovalsAndBackoffHold` and
  `StopQuiets` say when a cron job runs, does not run and runs once; a recurring job is
  never run at the moment its last run ended (`Pause`), as one of kind `at` is.
  `SerialCallsAgree` compares two processes with one; `CacheFollowsDisk` relates events,
  cache and what the daemon has applied; `CrashesAreHealed` a call's session to the
  Chrome there is.
- `CallsAndRequestsEnd` and the two `WhatBeginsEnds` are liveness: each component
  defines what of it is at work (`RunsAtWork`, `BotWaits`, `NodesAtWork`, ...), and what
  is at work comes to rest. `WhatBeginsEnds` of `MCServices` also says how far the
  daemon is when `ranya stop` ends: gone, or with nothing left to close but memory and
  sessions, unless another was started beside it (`StopEndsDaemon`). For each part of
  `MCMessages`, and for the agents, plans, nodes and routes of `MCServices`, a mutant
  that stops its progress was seen to break them.

`ToolsTypeOK` and `MessagesTypeOK` are the type invariants of what these runs compose.
History variables (`excused`, `overlap`, `touched`, `replanned`, `late`, `removed`,
`disturbed`, `ideal`, `alone`, `charged`, `lapsed`, `beside`, `lapses`, `forgets`,
`fresh`, `muffled`, `replaced`, `overtaken`) only record what happened, so that a
property can name the cases in which the code gives up a guarantee.

### 3.3 Fairness

Nobody is assumed to make a call, answer an approval, delete a file or stop the
daemon. What is fair is what the Go runtime, a timer or a deadline carries on:

- Queue (`FairSpec`): weak fairness of each goroutine that exists. The Go
  scheduler runs every runnable goroutine and its mutex hands over to waiters
  that starve; a lane's mutex is held for finite loops only. Tasks are assumed to
  return.
- Tools: the call and its timeout; the two goroutines of a request, one of which waits
  for a result or its timeout; announcing a request in a chat ends, as HTTP requests do.
  Handlers may run for ever.
- Sessions: each process once it has begun. A mutex that is let go is not taken for
  ever, as each job has finitely many operations. Runs: every call that a run makes
  is assumed to return; the lane is as `CommandQueue` shows.
- Chat and flow: the goroutines, calls of Telegram, the expiry of an approval; a run
  ends (`AgentRunner`), a queued call is answered (`CommandQueue`).
- Gateway: handlers return, writes have deadlines, Stop is a sequence of steps with
  timeouts, and a closed connection ends its reader. Webhook: the server's own steps and
  timeouts, not the handlers. Memory: the sync and the searches.
- Agents and plans: each goroutine and timer; a runner whose context is done returns,
  and so does the function that runs a plan's step. Nothing is said of a step of the
  pipeline while its run goes on, as it has no timer (`RunsStep`). What is said of plans
  exempts `"any"`, which waits for a success.
- Nodes: lane tasks and timeouts; no node has to answer, and the monitor need not run.
  Routing: handlers return. Daemon: its start and the command that asked it to stop;
  Stop itself may wait for the queue for ever, and is killed.
- `MCResources` states safety only: timers, processes and files owe nothing.

### 3.4 Disagreements with the documentation

Six runs end in a violation, each quoted in `PROJECT.json` under `findings`: the
lost wakeup of the global limit, the broken serialization of a session's writes after
a deletion, a handler that runs twice under one idempotency key, a changed memory file
that is never indexed again, a gateway method that waits for its own lane, and a
daemon that stays in `Start` with the webhook server.

Behaviour that the models have or that was met while modelling, and that no run is
about:

- two concurrent calls with one request ID both execute (`queue.go:154`), although
  the comment at `queue.go:150` speaks of idempotency (`RerunsOverlap` bounds it to
  calls that overlap); a slot is lost with a stale record (`queue.go:281`), and in no
  other way (`SlotsReturnWithoutResets`);
- a cron job of kind `at` is armed again for the moment that has passed, and runs on
  until it is disabled or removed (`service.go:591`); a job is marked as running for
  ever after a crash; a run that ends after `Stop` arms a timer;
- two calls with one sandbox key start two sandboxes, one of which nobody stops
  (`sandbox_integration.go:39`); an answer is accepted for a request that has timed out;
- parallel spawns pass the limit together (`spawner.go:71`); a plan succeeds with a step
  whose retries are exhausted unless the strategy is `"abort"`;
- a session cleared while a pruning is at work is back with its old messages; the
  cleanup prunes and deletes archived sessions as well (`cleanup.go:101`);
- a tool error is retried if its text has a marker such as "timeout", "eof" or "500" in
  it, so that a refusal of a tool, parameter or path of such a name is
  (`executor.go:1078`);
- the steps of the pipeline run without a timeout (`runtime_pipeline.go:283`), and
  nothing in `Stop` stops the sandboxes;
- the daemon never calls `NodeManager.Start` (`node/manager.go:60`): nodes are neither
  loaded nor saved, and one that falls silent stays online;
- the critic is answered from the cache under the ID of the whole request, so that its
  verdict on a later step is the one on the first (`runtime_pipeline.go:604`);
- overlapping calls of `ResolveRoute` may take each other's route
  (`routing/service.go:347`); a route that is edited while the service stops, or later,
  may not be in the file (`service.go:150`), and one that is added before its start
  keeps the saved one of that ID out (`service.go:117`);
- the command that resets a conversation resets the private session when it is sent
  in a group (`channels.go:308`);
- a client that connects while `Stop` begins is not closed (`gateway/server.go:294`);
- two `ranya start` at once both start a daemon (`start.go:31`);
- `ranya stop`, which says that it waits for the daemon to shut down (`stop.go:19`),
  reports success when the LifecycleManager has removed the PID file (`daemon.go:1145`,
  `stop.go:40`): memory, sessions, tracing and audit log are still to be closed, and a
  daemon that hangs there is not killed. One that is started meanwhile loses its PID
  file to the one that leaves (`RemovePidFile`);
- `cron.Stop` does not wait for a job that runs, and a webhook handler may outlive the
  server's `Stop`: both may call a queue that is closed;
- a change of attributes within the delay of a write replaces it, and so may the event
  of the inode that an atomic save replaces: the workspace's cache stays old
  (`watcher.go:151`); in a workspace under a directory whose name begins with a dot,
  such as the default `~/.ranya/workspace`, nothing is watched at all
  (`watcher.go:262`);
- a reload of AGENTS.md drops the prompt that SOUL.md gave the default agent, until
  SOUL.md changes (`daemon.go:1328`);
- a browser call that comes late takes any Chrome at its profile's port for its own: it
  may connect a context that was removed, so that the one that replaced it works with a
  session of a Chrome that is gone (`process.go:182`); a Chrome that no session connects
  to is never stopped (`profile.go:91`), and a reload that is on its way at `Shutdown`
  makes contexts again (`context.go:320`);
- a memory file that is deleted between its reading and `os.Stat` makes the sync panic
  (`memory/manager.go:652`), and so does a browser call whose profile is stopped after
  the call made sure of it (`profile.go:163`).

## 4. Proofs

Every safety invariant and every action property that a run checks is a theorem, for
every value of the constants that the named assumptions allow. The refinement of
`LaneService` is a theorem, too. Most theorems speak of the specification of one
component (`Spec`, `GatewaySpec`, `CronSpec`, ...), without the restrictions by which an
MC module keeps its state space small (`RunsPart`, `NodesPart`, `WorkspacePart` and the
like): they say more than the runs. That the compositions which TLC checks implement
each of these specifications, with its fairness, are theorems of their own
(`PartsAreComponents`, `MessagesAreComponents`, `ServicesAreComponents`,
`ResourcesAreComponents`), from which `ToolsTypeOK` and `MessagesTypeOK`, the types of
what `MCTools` and `MCMessages` compose, follow.

### 4.1 Assumptions

The assumptions say what a constant is, not how the program behaves: that a set which
the code counts is finite (`CallsAssumption`, `GatewayAssumption`, `NodesAssumption`,
`PlanAssumption`, `RoutingAssumption`, `OrchestrationAssumption`, `KeysAssumption`),
that the value for "nothing" is none of the things (`RunnerAssumption`,
`IngressAssumption`, `ApprovalAssumption`), that limits and bounds are numbers
(`BoundsAssumption`, `RunnerAssumption`, whose limits `runner.go:740` and `952` make
positive, `WebhookAssumption`, `BrowserAssumption`, `CronBoundsAssumption`), that the
messages a session starts with are different (`OldAssumption`) and that calls, tools and
lanes fit each other (`LanesAssumption`, `CallAssumption`). `ScheduleAssumption` says
what the parser of schedules lets through: intervals that are positive and times after
the start of the clock, `LifecycleAssumption` that what is configured is so or not. TLC
evaluates all of them.

### 4.2 Inductive invariants

`IngressTypeOK` is inductive as it stands, no other property is. What each proof adds,
and why:

| Module | Theorems about | Inductive invariant | What the property does not say by itself |
|---|---|---|---|
| `CommandQueueProofs` | `AnsweredOnce`, `HonestReplies`, `NoLostCaller`, `CountersAgree` | `IInv` | The stages of caller and task, the number of sends and the result fit each other (`RecordInv`); a queue holds calls of its own lane, none twice, each not started, not answered and waited for (`QueueInv`). Otherwise a record might be taken twice and answered twice. |
| | `ImplementsService` | `RefInv` | What a caller was given fits where it is, the cache holds what some caller was given (`ReplyInv`), and no reply is ahead of its task (`ReplySettled`). |
| | `RerunsOverlap` | `DedupInv` | A call that is done has its request in the cache until the entry expires, so that of two calls which found nothing there (`Missed`) one found the other on its way. |
| `ToolCallsProofs` | `RunsAreGated`, `RerunsFollowFailures`, `CancelEndsRetries` | `IInv` | No handler has run in an attempt whose definition is still to be looked up (`PlaceInv`); the gates lie behind a handler that starts (`GateInv`); every attempt before the current one ended so that another might follow (`PastInv`). |
| | `FirstAnswerDecides`, `AlwaysIsKept` | `ApprovalInv` | Where a request stands tells what was sent to it first (`RequestInv`); a user who saves has the allowlist as it is, as `Add` waits for the lock (`UserInv`). |
| `SessionProofs` | `OnlyDeletionSplitsWriters` | `SerialInv` | The operations that a job has left are those of its kind (`JobsInv`); before a deletion begins, whoever waits for a mutex or has it, waits for or has the one in the map (`LockInv`). |
| | `AcknowledgedIsDurable` | `DurableInv` | As long as no two writers of a session are inside (`Exclusive`), a writer has the session's file open, with all it is to keep (`OpenRight`), what an archiver has read is in the archive, is yet to be written, or was dropped there by the cleanup (`Copied`), and two names have no inode in common (`InodesApart`). |
| `AgentRunnerProofs` | `RunsAreHonest` | `RunnerInv` | The lane lets one run of a session in (`LaneInv`); a run is in the table under its own session (`TableInv`); from its prompt to its answer the prompt is the session's last message, unless it was cleared (`PromptInv`). |
| | `RunnerTypeOK` | `CountsInv` | Only a call that may be made once more is waited for, so that the count of calls stays within its limit. |
| `GatewayProofs` | `RequestsAreOrderly`, `EventsAreInOrder` | `GInv` | A key is marked by a request that carries it (`MarkInv`); a request nobody has made counts for no client (`FreshInv`); who holds the broadcaster's lock writes the last number, to clients that have seen smaller ones (`EventInv`). |
| `MessagesProofs` | `FlowIsHonest` | `FlowInv` | One message of a lane is at work; the result in hand and the one in the queue's cache are of the step they are found under. |
| | `RunsOncePerLapse`, `AnswerStays` | `IngressInv` | Dispatches that were made or are about to be are no more than the times an entry of the cache grew too old, and one if it has not (`DispatchInv`); where the bot stands tells what the stream may still do (`StreamInv`). |
| | `EventsFollowAnswers` | `WebhookInv` | Where a request stands tells whether it is tracked, answered and noticed (`PostInv`); a window counts no more than the limit (`LimitInv`). |
| | `IndexIsWhole` | `MemoryInv` | A chunk that is not there has no vector for a new one to inherit (`ChunkInv`); the version a sync has read is one of the file (`ReadingInv`). |
| `ServicesProofs` | `InvocationsAreHonest` | `NodeInv` | A task has a call (`NodeCallInv`); an invocation has an answer only when it is over, and a node's lane holds one (`InvocationInv`); a node is charged with no more timeouts than it had (`ChargeInv`). |
| | `StopsInOrder` | `LifeInv` | The state of a process says which of its parts are up: all that Stop has been at are closed, and the queue is open until its turn, which comes after those that bring it calls (`StoppedParts`). |
| | `PlansAreHonest` | `PlanInv` | Every step that has started is in a level up to the current one (`StepsInv`); the levels before are over (`ExecutionInv`); what a join has seen is what its steps came to (`JoinInv`). |
| | `RoutesAreSound` | `RoutingInv` | No table in memory, in the file or on its way there has a circle, and the list that Stop saves is the table unless a route was edited since (`TablesInv`, `ListInv`, `PhaseInv`); whoever has delivered has nothing left to try (`DeliveryInv`); while a call of `ResolveRoute` is alone, the queue holds its own candidates (`QueueInv`). |
| | `AgentsAreHonest` | `AgentsInv` | Where a spawn stands says whether it has a result and what its file can be (`SpawnInv`); of every request: where its spawns can be (`FlowOf`), that each has reported once and is done (`ArrivedOf`), that a stage of the chair follows stages that went well (`StagesOf`), and its verdict in terms of spawns that are done, whose results no step changes (`VerdictOf`). |
| `ResourcesProofs` | `SerialCallsAgree` | `PairingInv` | As long as no two calls that write overlap: a manager at rest has what the files have or will read them again, wherever the call of another stands when it was asked who is allowed, and the one at work has in its copies what the calls come to (`HasWritten`). |
| | `RunsAreAlone`, `EnabledHasOneTrigger`, `RemovalsAndBackoffHold`, `StopQuiets` | `CronInv` | One goroutine executes a job that is marked as running (`RunInv`); timer, lost timers and goroutines of a job are at most one, and none without a cause (`TriggerInv`); the time for which a timer is set has the pause of schedule and backoff in it (`BackoffInv`); so has what was saved. |
| | `CrashesAreHealed` | `BrowserInv` | A context belongs to the profile it was made for (`ContextsInv`); its session is of the Chrome the profile has (`SessionInv`), and so is the one of a call past its check (`CallInv`). |
| | `CacheFollowsDisk` | `WorkspaceInv` | The last change on its way, in the events, the timer or the callback, is right about the file (`LastIsRight`), and an event of attributes that came after a change is followed by one (`ChangesComeLast`); what the cache has of a file that changed is applied (`FreshInv`). |

### 4.3 How the proofs go

A proof of `Spec => []Inv` has a lemma for the initial states, one for each action or
for a group of actions that change the same variables, and one that derives the
property. Where an invariant speaks of one of many (a job, a request, a spawn), a lemma
says that it is to be shown of the one that the step moves, and others that what was
left alone keeps it (`OneSpawn`, `OneRequest`, `LeftKeeps`). Action properties
(`CancelEndsRetries`, `AnswerStays`, `EventsAreInOrder`, `RemovalsAndBackoffHold`)
follow from the invariant in the state before the step.

Two theorems about the queue have a hypothesis that lasts: `LaneOfOneIsSerial` is about
the behaviours in which the concurrency of a lane stays one, which is so of every lane
that is made with one and that nobody resizes, and `SlotsReturnWithoutResets` about
those without a reset. In both a weaker bound (`running[l] <= 1`; nobody was refused) is
kept by every step that the hypothesis allows, and the invariant of the queue turns it
into the claim.

For a composition, a step of one component is shown to be a step of it and a stutter of
the others; initial states and fairness are conjunctions of theirs.

Two models have recursive functions: `Before[n]`, the levels of a plan, and `Reach[n]`,
the routes that n fallbacks lead to. What is said of them is proved by induction in the
form that a set of numbers which is not empty has a least one (`Least`, `Induction`,
`Recursion`). `PlansAreHonest` then needs that levels grow and that a step which is in a
circle is in none (`NoCircles`). `RoutesAreSound` needs that an edit which is accepted
closes no circle: what is reached is what walks lead to (`ReachIs`), and a circle that
is new must begin, at the route that was changed, with one of its new fallbacks and come
back to it along old ones (`NewCircle`). `AgentsAreHonest` needs that as many reports as
there are members, none twice, come from all of them (`AllArrived`).

### 4.4 What the proofs have found

- Two cases of a `CASE` overlapped, in `Phase` of `CommandQueue`, to which the
  refinement maps a call, and in `ProcessEvent` of `Workspace`. TLC takes the first;
  the language leaves the choice open. The guards are disjoint now.
- In `CrashesAreHealed` a third call was missing: a run with two calls did not see that
  a late call can connect a removed context (see 3.4). The property names that case by
  `overtaken`, and the run has three calls.
- `CacheFollowsDisk` held in the run because its changes of attributes came at rest. The
  restriction is gone from the run; the property names the case by `muffled`.
- In `Pairing`, `expired`, the peers whose last request is too old, was wrong about a
  peer that asks again: a call takes out of it whom it leaves pending.
- `EnabledHasOneTrigger` is stated with `Untriggered`, what it means for nothing to lead
  to a run; the schedules it speaks of are those of `ScheduleAssumption`.

### 4.5 What is model-checked only

Liveness (`EveryCallAnswered`, `CloseTerminates`, `CallsAndRequestsEnd`,
`WhatBeginsEnds`): fairness is stated with `ENABLED`, which the provers do not reason
about. The disagreements of 3.4, which are counterexamples.

## 5. Abstractions shared by the modules

Messages, prompts, names and files are model values or versions; formats, logging,
metrics and tracing are left out. What an external system answers (a model, Chrome,
SQLite's errors, Telegram, a signature check) is chosen among the outcomes that
the code tells apart. The code between two points at which another goroutine or
process can see or change the state is one action.

## 6. Not modelled

- Subagent coordinator: the daemon calls its `Initialize` and `Close` only; no run is
  ever registered.
- Plugin runtime: activation cannot succeed over `net/rpc`, as `ActivateArgs` carries an
  interface that nothing registers with gob; the rest is discovery and manifests.
- Hooks, moderation, configuration, core tools, sandboxes, provider clients, MCP
  transports, the Telegram client with its media and streaming helpers, logging,
  metrics: pure functions or I/O.
- Of modelled components: `RepairSession`; the planner's, the reflector's and the
  reviewer's prompts; registration of agent configurations and shared contexts; the
  gateway's SSE and agent stream endpoints and its limit per minute; statistics of
  routes and nodes; webhook registration; chunking and ranking in the memory; tabs, page
  actions and attach-only profiles of the browser; policy evaluation, which is one
  verdict in `ToolCalls`.

## 7. Plan

1. Proofs: stronger statements where a history variable still exempts a case
   (`SerialCallsAgree` for writing calls on different files, `EnabledHasOneTrigger` for
   a job that was run by hand).
2. `AgentRunner` on top of `LaneService` instead of a guard, which the refinement and
   `LaneOfOneIsSerial` justify now.
3. Policy evaluation, route patterns and the chunking of memory files as operators
   against reference definitions.

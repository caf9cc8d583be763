----------------------------- MODULE Lifecycle -----------------------------
(***************************************************************************)
(* The life of the daemon: the commands start and stop of the CLI          *)
(* (internal/cli), what New, Start, Wait and Stop of internal/daemon make  *)
(* of the parts, the channel registry (pkg/channels) and the hooks.        *)
(*                                                                         *)
(* A part is open once it is made or started and until it is closed.  The  *)
(* parts have modules of their own; here the order matters in which they   *)
(* come and go, and which calls of theirs return.                          *)
(***************************************************************************)
EXTENDS Naturals, Sequences, SequencesExt

CONSTANTS
    Processes,       \* the child of each "ranya start"
    WebhookEnabled,  \* config.Webhook.Enabled
    DefaultDataDir,  \* config.DataDir is ~/.ranya: LifecycleManager has the CLI's file
    MaxStops         \* bound: calls of "ranya stop"

ASSUME LifecycleAssumption == WebhookEnabled \in BOOLEAN /\ DefaultDataDir \in BOOLEAN

NoProcess == "none"

\* What initializeCoreModules and initializeServices make, and what Start starts.
Made == <<"queue", "sessions", "memory", "mcp", "browser", "plugins", "orchestrator",
          "subagents">>
Started == <<"lifecycle", "workspace", "gateway">>
           \o (IF WebhookEnabled THEN <<"webhook">> ELSE <<>>)
           \o <<"cron", "routing", "channels", "telegram", "archiver", "loop">>
\* Variants: the queue, or the manager of the PID file, is stopped first.
StoppedQueueFirst ==
    <<"queue", "channels", "telegram", "webhook", "gateway", "cron", "routing",
      "workspace", "archiver", "browser", "plugins", "mcp", "orchestrator", "subagents",
      "loop", "lifecycle", "memory", "sessions">>
StoppedFileFirst ==
    <<"lifecycle", "channels", "telegram", "webhook", "gateway", "cron", "queue",
      "routing", "workspace", "archiver", "browser", "plugins", "mcp", "orchestrator",
      "subagents", "loop", "memory", "sessions">>

\* What Stop stops, and in which order.
Stopped == <<"channels", "telegram", "webhook", "gateway", "cron", "queue", "routing",
             "workspace", "archiver", "browser", "plugins", "mcp", "orchestrator",
             "subagents", "loop", "lifecycle", "memory", "sessions">>
\* What brings calls to the queue.
Intake == {"channels", "telegram", "webhook", "gateway", "cron"}
\* What makes Start give up when it fails; the others are logged.
Needed == {"lifecycle", "gateway", "cron", "routing", "channels", "telegram"}

VARIABLES
    state,     \* per process: where it is
    commandStep,        \* the next part of Started or Stopped
    open,      \* the parts that are open
    pidFile,   \* the process in ~/.ranya/ranya.pid, or NoProcess
    stopper,   \* "ranya stop": "idle", "asked" or "waiting"
    asked,     \* the process it sent SIGTERM to, or NoProcess
    beside,    \* history: the processes that another was alive with
    stops

lifecycleVars == <<state, commandStep, open, pidFile, stopper, asked, beside, stops>>

LifecycleInit ==
    /\ state = [p \in Processes |-> "none"]
    /\ commandStep = [p \in Processes |-> 1]
    /\ open = [p \in Processes |-> {}]
    /\ pidFile = NoProcess
    /\ stopper = "idle" /\ asked = NoProcess /\ beside = {} /\ stops = 0

Become(p, s) == state' = [state EXCEPT ![p] = s]
Alive(p) == state[p] \notin {"none", "exited"}
\* isRunning: the file names a process, and that one exists.
IsRunning == pidFile # NoProcess /\ Alive(pidFile)

\* The process is gone, and with it what it had open.
Exits(p) == Become(p, "exited") /\ open' = [open EXCEPT ![p] = {}]

-----------------------------------------------------------------------------
\* runStart: unless a daemon is running the process is forked; the parent goes.
StartCommand(p) ==
    /\ state[p] = "none" /\ ~IsRunning
    /\ Become(p, "new")
    /\ LET others == {q \in Processes : Alive(q)}
       IN  beside' = IF others = {} THEN beside ELSE beside \cup others \cup {p}
    /\ UNCHANGED <<commandStep, open, pidFile, stopper, asked, stops>>

\* New makes the parts in order, and has to return them all.
Construct(p) ==
    /\ state[p] = "new"
    /\ \/ Become(p, "made") /\ open' = [open EXCEPT ![p] = ToSet(Made)]
       \/ Exits(p)
    /\ UNCHANGED <<commandStep, pidFile, stopper, asked, beside, stops>>

\* daemonize in the child.
WritePidFile(p) ==
    /\ state[p] = "made"
    /\ \/ Become(p, "starting") /\ pidFile' = p /\ UNCHANGED open
       \/ Exits(p) /\ UNCHANGED pidFile
    /\ UNCHANGED <<commandStep, stopper, asked, beside, stops>>

Part(p) == Started[commandStep[p]]

\* Daemon.Start starts one part after the other.  The webhook server's Start
\* serves: it returns when it cannot listen, or once its server is shut down.
StartPart(p) ==
    /\ state[p] = "starting" /\ commandStep[p] <= Len(Started)
    /\ Part(p) = "webhook" => "webhook" \notin open[p]
    /\ open' = [open EXCEPT ![p] = @ \cup {Part(p)}]
    /\ commandStep' = [commandStep EXCEPT ![p] = IF Part(p) = "webhook" THEN @ ELSE @ + 1]
    /\ pidFile' = IF Part(p) = "lifecycle" /\ DefaultDataDir THEN p ELSE pidFile
    /\ UNCHANGED <<state, stopper, asked, beside, stops>>

\* A part that is needed fails: Start returns the error and the process exits.
StartFails(p) ==
    /\ state[p] = "starting" /\ commandStep[p] <= Len(Started)
    /\ Part(p) \notin open[p]
    /\ IF Part(p) \in Needed THEN Exits(p) /\ UNCHANGED commandStep
       ELSE commandStep' = [commandStep EXCEPT ![p] = @ + 1] /\ UNCHANGED <<state, open>>
    /\ UNCHANGED <<pidFile, stopper, asked, beside, stops>>

\* All is started and the startup hooks have run: Wait listens for signals.
BeginWait(p) ==
    /\ state[p] = "starting" /\ commandStep[p] > Len(Started)
    /\ Become(p, "waiting")
    /\ UNCHANGED <<commandStep, open, pidFile, stopper, asked, beside, stops>>

-----------------------------------------------------------------------------
Ending == {"stopping", "stopped", "leaving"}

\* runStop reads the file and sends SIGTERM.  Only Wait catches it.
StopCommand ==
    /\ stopper = "idle" /\ stops < MaxStops
    /\ IsRunning
    /\ asked' = pidFile /\ stopper' = "waiting" /\ stops' = stops + 1
    /\ CASE state[pidFile] = "waiting" ->
              Become(pidFile, "stopping") /\ commandStep' = [commandStep EXCEPT ![pidFile] = 1]
              /\ UNCHANGED open
         [] state[pidFile] \in Ending -> UNCHANGED <<state, commandStep, open>>
         [] OTHER -> Exits(pidFile) /\ UNCHANGED commandStep
    /\ UNCHANGED <<pidFile, beside>>

\* It looks until the file names no process that is there, and removes it; at the
\* timeout it has nothing to kill then, and leaves the file.
SeeStopped ==
    /\ stopper = "waiting" /\ ~IsRunning
    /\ stopper' = "idle" /\ asked' = NoProcess /\ pidFile' \in {NoProcess, pidFile}
    /\ UNCHANGED <<state, commandStep, open, beside, stops>>

\* After the timeout it kills the process that is in the file by now.
KillDaemon ==
    /\ stopper = "waiting" /\ IsRunning
    /\ Exits(pidFile)
    /\ stopper' = "idle" /\ asked' = NoProcess /\ pidFile' = NoProcess
    /\ UNCHANGED <<commandStep, beside, stops>>

-----------------------------------------------------------------------------
\* Daemon.Stop goes on when a part fails to stop.  LifecycleManager removes its
\* file, whosever it is.
StopPart(p) ==
    /\ state[p] = "stopping" /\ commandStep[p] <= Len(Stopped)
    /\ open' = [open EXCEPT ![p] = @ \ {Stopped[commandStep[p]]}]
    /\ commandStep' = [commandStep EXCEPT ![p] = @ + 1]
    /\ pidFile' = IF Stopped[commandStep[p]] = "lifecycle" /\ DefaultDataDir THEN NoProcess
                  ELSE pidFile
    /\ UNCHANGED <<state, stopper, asked, beside, stops>>

EndStop(p) ==
    /\ state[p] = "stopping" /\ commandStep[p] > Len(Stopped)
    /\ Become(p, "stopped")
    /\ UNCHANGED <<commandStep, open, pidFile, stopper, asked, beside, stops>>

\* runStart removes the file of the CLI, whosever it is, and returns.
RemovePidFile(p) ==
    /\ state[p] = "stopped" /\ Become(p, "leaving") /\ pidFile' = NoProcess
    /\ UNCHANGED <<commandStep, open, stopper, asked, beside, stops>>

Leave(p) ==
    /\ state[p] = "leaving" /\ Exits(p)
    /\ UNCHANGED <<commandStep, pidFile, stopper, asked, beside, stops>>

\* The process dies of something else.
CrashDaemon(p) ==
    /\ Alive(p) /\ stops = 0
    /\ Exits(p)
    /\ UNCHANGED <<commandStep, pidFile, stopper, asked, beside, stops>>

-----------------------------------------------------------------------------
Starting(p) == Construct(p) \/ WritePidFile(p) \/ StartPart(p) \/ StartFails(p)
               \/ BeginWait(p)

LifecycleNext ==
    \/ \E p \in Processes : \/ StartCommand(p) \/ Starting(p) \/ CrashDaemon(p)
                            \/ StopPart(p) \/ EndStop(p)
                            \/ RemovePidFile(p) \/ Leave(p)
    \/ StopCommand \/ SeeStopped \/ KillDaemon

\* Stop may wait for the queue for ever: its steps are not fair.  The command
\* that asked for it goes on.
LifecycleFairness ==
    /\ \A p \in Processes : WF_lifecycleVars(Starting(p))
                          /\ WF_lifecycleVars(RemovePidFile(p) \/ Leave(p))
    /\ WF_lifecycleVars(SeeStopped \/ KillDaemon)

LifecycleSpec == LifecycleInit /\ [][LifecycleNext]_lifecycleVars /\ LifecycleFairness

-----------------------------------------------------------------------------
\* Stop closes all that New made and Start started, whatever of it failed, and
\* closes the queue when nothing is left that would bring it a call.
StopsInOrder ==
    \A p \in Processes :
        /\ state[p] \in {"stopped", "leaving"} => open[p] = {}
        /\ state[p] = "waiting" \/ state[p] \in Ending =>
              ("queue" \in open[p] \/ open[p] \cap Intake = {})

\* "ranya stop" ends, also when Stop hangs, and by then the daemon it was about is
\* gone or has closed all but what comes after its PID file.  Only a daemon that
\* another was started beside may be left behind with more.
StopAtWork == stopper # "idle"
StopEndsDaemon ==
    [][asked # NoProcess /\ asked' # asked =>
           open'[asked] \subseteq {"memory", "sessions"} \/ asked \in beside]_lifecycleVars
StopCommandEnds == StopEndsDaemon /\ (StopAtWork ~> ~StopAtWork)

\* daemon.go:903, "Start starts the daemon service", and 1002, "Daemon started
\* successfully - all core modules active": a daemon that is started comes to
\* listen for signals, or goes.
DaemonStarting == \E p \in Processes : state[p] = "starting"
DaemonStarts == DaemonStarting ~> ~DaemonStarting

=============================================================================

----------------------------- MODULE Workspace -----------------------------
(***************************************************************************)
(* The workspace, pkg/workspace: the manager loads the files into a cache, *)
(* watches them, waits for each to come to rest and then brings the cache  *)
(* up to date.  The daemon takes AGENTS.md and SOUL.md into its            *)
(* configuration (handleWorkspaceReload and applyWorkspaceBootstrap of     *)
(* internal/daemon): the first replaces the list of agents, the second the *)
(* prompt of the agent "default" in that list.                             *)
(*                                                                         *)
(* A version stands for the content of a file, 0 for its absence.  The     *)
(* events are those of fsnotify, in the order of what happened.  A file's  *)
(* timer runs for longer than the callback of its last event.              *)
(***************************************************************************)
EXTENDS Naturals, Sequences

CONSTANTS
    Files,        \* files of the workspace
    AgentsFile,   \* AGENTS.md
    SoulFile,     \* SOUL.md
    Blank,        \* versions that parse to no agent, or to no prompt
    DefaultIn,    \* versions of AGENTS.md that have an agent "default"; 0 for
                  \* the agents that the daemon was configured with
    MaxEdits,     \* bound: changes made to the files
    MaxChmods     \* bound: changes made to their attributes

ASSUME FilesAssumption ==
    AgentsFile \in Files /\ SoulFile \in Files /\ AgentsFile # SoulFile

NoEvent == "none"

VARIABLES
    disk,       \* the version of each file
    edits, chmods,
    manager,    \* "new", "loading", "ready", "closing" or "closed"
    toLoad,     \* the files that Init has still to load
    hidden,     \* whether the workspace's path has a component with a dot in front
    watching,   \* whether fsnotify reports
    raised,     \* the events that the watcher's loop has still to read
    timers,     \* debounceTimers: per file the event to come
    callback,   \* per file the event whose callback waits for the manager
    cache,      \* WorkspaceCache
    agents,     \* the version of AGENTS.md that config.Agents is of, 0 for none
    prompt,     \* the version of SOUL.md in the default agent, 0 for the list's own
    boot,       \* applyWorkspaceBootstrap is at "agents", "soul" or "done"
    bootHas,    \* whether it has read that file
    bootRead,   \* what it read
    fresh,      \* history: the files changed since all was up
    muffled,    \* history: the files with a change on its way that a change of
                \* attributes, or the end of the file it replaced, came after
    replaced    \* history: the agents were replaced after SOUL.md was applied

agentVars == <<agents, prompt, replaced>>
bootVars == <<boot, bootHas, bootRead>>
historyVars == <<fresh, muffled>>
watchVars == <<raised, timers, callback>>
workspaceVars == <<disk, edits, chmods, manager, toLoad, hidden, watching, watchVars, cache,
                   agentVars, bootVars, historyVars>>

WorkspaceInit ==
    /\ disk \in [Files -> {0, 1}] /\ edits = 1 /\ chmods = 0
    /\ manager = "new" /\ toLoad = Files /\ hidden \in BOOLEAN /\ watching = FALSE
    /\ raised = <<>>
    /\ timers = [f \in Files |-> NoEvent] /\ callback = [f \in Files |-> NoEvent]
    /\ cache = [f \in Files |-> 0] /\ agents = 0 /\ prompt = 0 /\ replaced = FALSE
    /\ boot = "agents" /\ bootHas = FALSE /\ bootRead = 0
    /\ fresh = {} /\ muffled = {}

Up == manager = "ready" /\ boot = "done"
Report(f, e) == raised' = IF watching THEN Append(raised, <<f, e>>) ELSE raised

\* A change of the file, not only of its attributes, is on its way.
IsChange(e) == e \notin {NoEvent, "chmod"}
Changing(f) ==
    \/ IsChange(timers[f]) \/ IsChange(callback[f])
    \/ \E i \in 1..Len(raised) : raised[i][1] = f /\ IsChange(raised[i][2])

-----------------------------------------------------------------------------
\* What others do to the files.
Edit(f) ==
    /\ edits < MaxEdits /\ edits' = edits + 1
    /\ \/ disk' = [disk EXCEPT ![f] = edits + 1]
          /\ Report(f, IF disk[f] = 0 THEN "create" ELSE "write")
       \/ disk[f] # 0 /\ disk' = [disk EXCEPT ![f] = 0] /\ Report(f, "remove")
    /\ fresh' = IF Up THEN fresh \cup {f} ELSE fresh
    /\ muffled' = muffled \ {f}
    /\ UNCHANGED <<chmods, manager, toLoad, hidden, watching, timers, callback, cache,
                   agentVars, bootVars>>

\* Another file is renamed to this one, as an atomic save does.  If the inode it
\* replaces was watched by itself, that ends with an event of its own.
Replace(f) ==
    /\ disk[f] # 0 /\ edits < MaxEdits /\ edits' = edits + 1
    /\ disk' = [disk EXCEPT ![f] = edits + 1]
    /\ \/ Report(f, "create") /\ muffled' = muffled \ {f}
       \/ /\ \E e \in {"chmod", "remove"} :
                 raised' = IF watching THEN Append(Append(raised, <<f, "create">>), <<f, e>>)
                           ELSE raised
          /\ muffled' = muffled \cup {f}
    /\ fresh' = IF Up THEN fresh \cup {f} ELSE fresh
    /\ UNCHANGED <<chmods, manager, toLoad, hidden, watching, timers, callback, cache,
                   agentVars, bootVars>>

Chmod(f) ==
    /\ disk[f] # 0 /\ chmods < MaxChmods /\ chmods' = chmods + 1
    /\ Report(f, "chmod")
    /\ muffled' = IF Changing(f) THEN muffled \cup {f} ELSE muffled
    /\ UNCHANGED <<disk, edits, manager, toLoad, hidden, watching, timers, callback, cache,
                   agentVars, bootVars, fresh>>

-----------------------------------------------------------------------------
\* Init, with the manager's lock held: it loads what it finds, then watches,
\* unless shouldIgnore says that all of the workspace's path is to be ignored.
LoadFile(f) ==
    /\ manager \in {"new", "loading"} /\ f \in toLoad
    /\ manager' = "loading" /\ toLoad' = toLoad \ {f}
    /\ cache' = [cache EXCEPT ![f] = disk[f]]
    /\ UNCHANGED <<disk, edits, chmods, hidden, watching, watchVars, agentVars, bootVars,
                   historyVars>>

StartWatcher ==
    /\ manager = "loading" /\ toLoad = {}
    /\ watching' = ~hidden /\ manager' = "ready"
    /\ UNCHANGED <<disk, edits, chmods, toLoad, hidden, watchVars, cache, agentVars, bootVars,
                   historyVars>>

\* handleWorkspaceReload: the agents of AGENTS.md replace all that there are, and
\* with them what SOUL.md made of their prompts; files that parse to nothing, and
\* all other files, change nothing.
Reload(f, version) ==
    LET parsed == version \notin Blank
        replaces == f = AgentsFile /\ parsed
        prompts == f = SoulFile /\ parsed
    IN  /\ agents' = IF replaces THEN version ELSE agents
        /\ prompt' = IF replaces THEN 0
                     ELSE IF prompts /\ agents \in DefaultIn THEN version ELSE prompt
        /\ replaced' = (replaces \/ (replaced /\ ~prompts))

\* applyWorkspaceBootstrap: AGENTS.md first, then SOUL.md, each as the cache has
\* it; the manager's lock is not held between reading and applying it.
BootFile == IF boot = "agents" THEN AgentsFile ELSE SoulFile

ReadBootstrap ==
    /\ manager = "ready" /\ boot # "done" /\ ~bootHas
    /\ bootHas' = TRUE /\ bootRead' = cache[BootFile]
    /\ UNCHANGED <<disk, edits, chmods, manager, toLoad, hidden, watching, watchVars, cache,
                   agentVars, boot, historyVars>>

ApplyBootstrap ==
    /\ bootHas /\ bootHas' = FALSE
    /\ IF bootRead = 0 THEN UNCHANGED agentVars ELSE Reload(BootFile, bootRead)
    /\ boot' = IF boot = "agents" THEN "soul" ELSE "done"
    /\ UNCHANGED <<disk, edits, chmods, manager, toLoad, hidden, watching, watchVars, cache,
                   bootRead, historyVars>>

-----------------------------------------------------------------------------
\* Variant: the first of several events is kept.
DebounceFirst ==
    /\ raised # <<>>
    /\ LET f == Head(raised)[1]  e == Head(raised)[2] IN
          timers' = IF timers[f] = NoEvent THEN [timers EXCEPT ![f] = e] ELSE timers
    /\ raised' = Tail(raised)
    /\ UNCHANGED <<disk, edits, chmods, manager, toLoad, hidden, watching, callback, cache,
                   agentVars, bootVars, historyVars>>

\* eventLoop and debounceEvent: the last event of a file starts its timer anew.
DebounceEvent ==
    /\ raised # <<>> /\ watching
    /\ timers' = [timers EXCEPT ![Head(raised)[1]] = Head(raised)[2]]
    /\ raised' = Tail(raised)
    /\ UNCHANGED <<disk, edits, chmods, manager, toLoad, hidden, watching, callback, cache,
                   agentVars, bootVars, historyVars>>

TimerFires(f) ==
    /\ timers[f] # NoEvent /\ callback[f] = NoEvent
    /\ timers' = [timers EXCEPT ![f] = NoEvent]
    /\ callback' = IF watching THEN [callback EXCEPT ![f] = timers[f]] ELSE callback
    /\ UNCHANGED <<disk, edits, chmods, manager, toLoad, hidden, watching, raised, cache, agentVars,
                   bootVars, historyVars>>

\* processEvent: an event of an attribute is none of its cases.  Loading takes
\* the file as it is now, and fails without one; the configuration is reloaded
\* with the manager's lock held.
Brings(f, version) == cache' = [cache EXCEPT ![f] = version] /\ Reload(f, version)

HandleFileAdded(f) ==
    IF disk[f] = 0 THEN UNCHANGED <<cache, agentVars>> ELSE Brings(f, disk[f])

HandleFileChanged(f) ==
    IF disk[f] \in {0, cache[f]} THEN UNCHANGED <<cache, agentVars>> ELSE Brings(f, disk[f])

HandleFileDeleted(f) == cache' = [cache EXCEPT ![f] = 0] /\ UNCHANGED agentVars

ProcessEvent(f) ==
    /\ callback[f] # NoEvent /\ manager \in {"ready", "closed"}
    /\ callback' = [callback EXCEPT ![f] = NoEvent]
    /\ IF manager = "closed" THEN UNCHANGED <<cache, agentVars>>
       ELSE CASE callback[f] = "create" -> HandleFileAdded(f)
              [] callback[f] = "write" -> HandleFileChanged(f)
              [] callback[f] = "remove" -> HandleFileDeleted(f)
              [] OTHER -> UNCHANGED <<cache, agentVars>>
    /\ UNCHANGED <<disk, edits, chmods, manager, toLoad, hidden, watching, raised, timers, bootVars,
                   historyVars>>

\* Close stops the watcher and its timers, then clears the cache, all of it
\* with the manager's lock held.
CloseWatcher ==
    /\ manager = "ready"
    /\ manager' = "closing" /\ watching' = FALSE
    /\ timers' = [f \in Files |-> NoEvent]
    /\ UNCHANGED <<disk, edits, chmods, toLoad, hidden, raised, callback, cache, agentVars, bootVars,
                   historyVars>>

ClearCache ==
    /\ manager = "closing"
    /\ manager' = "closed" /\ cache' = [f \in Files |-> 0]
    /\ UNCHANGED <<disk, edits, chmods, toLoad, hidden, watching, watchVars, agentVars, bootVars, historyVars>>

-----------------------------------------------------------------------------
Watch == DebounceEvent \/ \E f \in Files : TimerFires(f) \/ ProcessEvent(f)

WorkspaceNext ==
    \/ \E f \in Files : Edit(f) \/ Replace(f) \/ Chmod(f) \/ LoadFile(f)
    \/ StartWatcher \/ ReadBootstrap \/ ApplyBootstrap \/ Watch \/ CloseWatcher \/ ClearCache

WorkspaceSpec == WorkspaceInit /\ [][WorkspaceNext]_workspaceVars

-----------------------------------------------------------------------------
\* Nothing is on its way for the file.
AtRest(f) ==
    /\ timers[f] = NoEvent /\ callback[f] = NoEvent
    /\ \A i \in 1..Len(raised) : raised[i][1] # f

\* The configuration has the file that is on disk, if it parses: the agents are
\* those of AGENTS.md; the default agent's prompt is that of SOUL.md, unless the
\* agents were replaced since or none of them is the default agent.
Applied(f) ==
    disk[f] \notin Blank =>
        /\ f = AgentsFile => agents = disk[f]
        /\ f = SoulFile => prompt = disk[f] \/ replaced \/ agents \notin DefaultIn

\* manager.go, "hot-reload": in a workspace that is watched, a file that was
\* changed after the daemon was up, and for which nothing is on its way, is in the
\* cache as it is on disk, and applied to the configuration unless it was removed;
\* after Close nothing is in the cache.
\* Left out is a file whose change was muffled: the event of its attributes, or of
\* the file it replaced, took the place of the change in debounce.
CacheFollowsDisk ==
    /\ manager = "ready" /\ ~hidden =>
           \A f \in fresh \ muffled : AtRest(f) =>
               cache[f] = disk[f] /\ (disk[f] # 0 => Applied(f))
    /\ manager = "closed" => \A f \in Files : cache[f] = 0
=============================================================================

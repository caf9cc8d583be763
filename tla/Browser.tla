------------------------------ MODULE Browser ------------------------------
(***************************************************************************)
(* The browser tools, pkg/browser: a profile has at most one context, the  *)
(* context starts a Chrome when a call needs one and starts another when   *)
(* its Chrome is gone.  The profiles follow the configuration file; a      *)
(* profile that is removed has its browser stopped.                        *)
(*                                                                         *)
(* Chrome and the Rod library are external: a launch succeeds or fails, a  *)
(* profile's directory and port have one Chrome at most, and a connection  *)
(* is made as long as there is one.  Pages are those of their session.     *)
(***************************************************************************)
EXTENDS Naturals

CONSTANTS
    Profiles,       \* names of profiles
    BrowserCalls,   \* calls of the browser tools
    MaxContexts,    \* bound: profile contexts made
    MaxChromes,     \* bound: Chromes launched
    MaxChromeFaults \* bound: Chromes that die

ASSUME BrowserAssumption ==
    /\ Profiles # {}
    /\ {MaxContexts, MaxChromes, MaxChromeFaults} \subseteq Nat

Free == "free"
Contexts == 1..MaxContexts

VARIABLES
    configured, \* the profiles in the configuration file
    reload,     \* reloadConfig: "idle", "loaded", "working"
    shutting,   \* Shutdown: "no", "working", "done"
    loaded,     \* the profiles that loadConfig has read
    contextOf,  \* bsc.profiles: per profile its context, 0 for none
    profileOf,  \* per context its profile
    contexts,   \* contexts made so far
    available,  \* per context: isAvailable
    browser,    \* per context: the Chrome of its session, 0 for no session
    spawned,    \* per context: the process manager's isRunning
    launched,   \* per context: the Chrome that its launcher has, 0 for none
    contextLock,\* per context: the call that holds its mutex
    chrome,     \* per profile its Chrome, 0 for none
    chromes, chromeFaults,
    toolCall,   \* per call: "idle", "ensure", "connect", "use", "page", "done"
    context,    \* per call its context
    page,       \* per call the Chrome of the session it works with
    lost,       \* the calls whose Chrome died or was stopped since they checked
    panicked,   \* a call has used a session that is no more
    overtaken   \* history: the profiles that a call made sure of with a context
                \* they no longer had

configVars == <<configured, reload, shutting, loaded, contextOf, profileOf, contexts>>
contextVars == <<available, browser, spawned, launched, contextLock>>
chromeVars == <<chrome, chromes, chromeFaults>>
toolCallVars == <<toolCall, context, page, lost, panicked, overtaken>>
browserVars == <<configVars, contextVars, chromeVars, toolCallVars>>

BrowserInit ==
    /\ configured = Profiles /\ loaded = Profiles /\ reload = "working" /\ shutting = "no"
    /\ contexts = 0 /\ contextOf = [p \in Profiles |-> 0]
    /\ profileOf = [c \in Contexts |-> CHOOSE p \in Profiles : TRUE]
    /\ available = [c \in Contexts |-> FALSE] /\ browser = [c \in Contexts |-> 0]
    /\ spawned = [c \in Contexts |-> FALSE] /\ launched = [c \in Contexts |-> 0]
    /\ contextLock = [c \in Contexts |-> Free]
    /\ chrome = [p \in Profiles |-> 0] /\ chromes = 0 /\ chromeFaults = 0
    /\ toolCall = [k \in BrowserCalls |-> "idle"]
    /\ context = [k \in BrowserCalls |-> 0] /\ page = [k \in BrowserCalls |-> 0]
    /\ lost = {} /\ panicked = FALSE /\ overtaken = {}

ChromeOf(c) == chrome[profileOf[c]]
At(k, s) == toolCall' = [toolCall EXCEPT ![k] = s]
UsersOf(p) == {k \in BrowserCalls : context[k] # 0 /\ profileOf[context[k]] = p}

-----------------------------------------------------------------------------
\* The configuration file is changed; its watcher, if there is one, reloads it.
\* The contexts of the start are made like those of a reload.
EditConfig(p) ==
    /\ shutting = "no"
    /\ configured' = IF p \in configured THEN configured \ {p} ELSE configured \cup {p}
    /\ contexts < MaxContexts
    /\ UNCHANGED <<reload, shutting, loaded, contextOf, profileOf, contexts, contextVars,
                   chromeVars, toolCallVars>>

\* The timer of a change runs on when the browsers are shut down.
LoadConfig ==
    /\ reload = "idle" /\ loaded # configured
    /\ loaded' = configured /\ reload' = "loaded"
    /\ UNCHANGED <<configured, shutting, contextOf, profileOf, contexts, contextVars,
                   chromeVars, toolCallVars>>

LockProfiles ==
    /\ reload = "loaded" /\ shutting # "working" /\ reload' = "working"
    /\ UNCHANGED <<configured, shutting, loaded, contextOf, profileOf, contexts, contextVars,
                   chromeVars, toolCallVars>>

\* StopRunningBrowser, which does nothing for a browser that is not available.
StopBrowser(c) ==
    /\ contextLock[c] = Free
    /\ IF available[c]
       THEN /\ available' = [available EXCEPT ![c] = FALSE]
            /\ browser' = [browser EXCEPT ![c] = 0]
            /\ spawned' = [spawned EXCEPT ![c] = FALSE]
            /\ launched' = [launched EXCEPT ![c] = 0]
            /\ chrome' = IF spawned[c] /\ launched[c] = ChromeOf(c)
                         THEN [chrome EXCEPT ![profileOf[c]] = 0] ELSE chrome
            /\ lost' = lost \cup UsersOf(profileOf[c])
       ELSE UNCHANGED <<available, browser, spawned, launched, chrome, lost>>

RemoveProfile(p) ==
    /\ reload = "working" /\ p \notin loaded /\ contextOf[p] # 0
    /\ StopBrowser(contextOf[p])
    /\ contextOf' = [contextOf EXCEPT ![p] = 0]
    /\ UNCHANGED <<configured, reload, shutting, loaded, profileOf, contexts, contextLock,
                   chromes, chromeFaults, toolCall, context, page, panicked, overtaken>>

AddProfile(p) ==
    /\ reload = "working" /\ p \in loaded /\ contextOf[p] = 0 /\ contexts < MaxContexts
    /\ contexts' = contexts + 1
    /\ contextOf' = [contextOf EXCEPT ![p] = contexts']
    /\ profileOf' = [profileOf EXCEPT ![contexts'] = p]
    /\ UNCHANGED <<configured, reload, shutting, loaded, contextVars, chromeVars,
                   toolCallVars>>

FinishReload ==
    /\ reload = "working" /\ \A p \in Profiles : (p \in loaded) = (contextOf[p] # 0)
    /\ reload' = "idle"
    /\ UNCHANGED <<configured, shutting, loaded, contextOf, profileOf, contexts, contextVars,
                   chromeVars, toolCallVars>>

\* Shutdown takes the lock of the profiles, and leaves none; a reload that is on
\* its way then makes contexts again.
ShutdownBrowsers ==
    /\ shutting = "no" /\ reload # "working" /\ shutting' = "working"
    /\ UNCHANGED <<configured, reload, loaded, contextOf, profileOf, contexts, contextVars,
                   chromeVars, toolCallVars>>

FinishShutdown ==
    /\ shutting = "working" /\ \A p \in Profiles : contextOf[p] = 0 /\ shutting' = "done"
    /\ UNCHANGED <<configured, reload, loaded, contextOf, profileOf, contexts, contextVars,
                   chromeVars, toolCallVars>>

ShutdownProfile(p) ==
    /\ shutting = "working" /\ contextOf[p] # 0
    /\ StopBrowser(contextOf[p])
    /\ contextOf' = [contextOf EXCEPT ![p] = 0]
    /\ UNCHANGED <<configured, reload, shutting, loaded, profileOf, contexts, contextLock,
                   chromes, chromeFaults, toolCall, context, page, panicked, overtaken>>

-----------------------------------------------------------------------------
\* A Chrome dies by itself.
ChromeDies(p) ==
    /\ chrome[p] # 0 /\ chromeFaults < MaxChromeFaults
    /\ chromeFaults' = chromeFaults + 1
    /\ chrome' = [chrome EXCEPT ![p] = 0]
    /\ lost' = lost \cup UsersOf(p)
    /\ UNCHANGED <<configVars, contextVars, chromes, toolCall, context, page, panicked,
                   overtaken>>

-----------------------------------------------------------------------------
\* A tool's handler: GetProfile, unless the profiles are locked.
GetProfile(k, p) ==
    /\ toolCall[k] = "idle" /\ "working" \notin {reload, shutting}
    /\ context' = [context EXCEPT ![k] = contextOf[p]]
    /\ At(k, IF contextOf[p] = 0 THEN "done" ELSE "ensure")
    /\ UNCHANGED <<configVars, contextVars, chromeVars, page, lost, panicked, overtaken>>

\* Variant: a session is taken for a living one.
TrustSession(k, c) ==
    /\ available[c] /\ browser[c] # 0
    /\ At(k, "use") /\ lost' = lost \ {k}
    /\ UNCHANGED <<contextVars, chrome, chromes>>

\* EnsureBrowserAvailable, the context's mutex held: a healthy browser is kept.
KeepBrowser(k, c) ==
    /\ available[c] /\ browser[c] # 0 /\ ChromeOf(c) # 0
    /\ At(k, "use") /\ lost' = lost \ {k}
    /\ UNCHANGED <<contextVars, chrome, chromes>>

\* Another is launched, or the one is kept that isRunning speaks of.
SpawnChrome(k, c) ==
    /\ ~(available[c] /\ browser[c] # 0 /\ ChromeOf(c) # 0)
    /\ available' = [available EXCEPT ![c] = FALSE]
    /\ browser' = [browser EXCEPT ![c] = 0]
    /\ lost' = lost \ {k}
    /\ LET running == spawned[c] /\ ~(available[c] /\ browser[c] # 0) IN
       IF running
       THEN /\ contextLock' = [contextLock EXCEPT ![c] = k] /\ At(k, "connect")
            /\ UNCHANGED <<spawned, launched, chrome, chromes>>
       ELSE \/ /\ spawned' = [spawned EXCEPT ![c] = TRUE]
               /\ contextLock' = [contextLock EXCEPT ![c] = k] /\ At(k, "connect")
               /\ IF ChromeOf(c) = 0
                  THEN /\ chromes < MaxChromes /\ chromes' = chromes + 1
                       /\ chrome' = [chrome EXCEPT ![profileOf[c]] = chromes']
                       /\ launched' = [launched EXCEPT ![c] = chromes']
                  ELSE launched' = [launched EXCEPT ![c] = 0] /\ UNCHANGED <<chrome, chromes>>
            \/ /\ spawned' = [spawned EXCEPT ![c] = FALSE] /\ At(k, "done")
               /\ UNCHANGED <<contextLock, launched, chrome, chromes>>

EnsureBrowser(k) ==
    /\ toolCall[k] = "ensure" /\ contextLock[context[k]] = Free
    /\ KeepBrowser(k, context[k]) \/ SpawnChrome(k, context[k])
    /\ LET p == profileOf[context[k]] IN
          overtaken' = IF contextOf[p] = context[k] THEN overtaken ELSE overtaken \cup {p}
    /\ UNCHANGED <<configVars, chromeFaults, context, page, panicked>>

\* ConnectCDP waits ten seconds for the port at most.  Should it fail with a Chrome
\* there, the context has no session, and StopBrowser lets that Chrome be.
ConnectCDP(k) ==
    /\ toolCall[k] = "connect"
    /\ LET c == context[k] IN
       /\ contextLock' = [contextLock EXCEPT ![c] = Free]
       /\ \/ /\ ChromeOf(c) # 0
             /\ browser' = [browser EXCEPT ![c] = ChromeOf(c)]
             /\ available' = [available EXCEPT ![c] = TRUE]
             /\ At(k, "use")
          \/ At(k, "done") /\ UNCHANGED <<browser, available>>
    /\ UNCHANGED <<configVars, spawned, launched, chromeVars, context, page, lost, panicked,
                   overtaken>>

\* The session is read without the mutex; without one the call panics.
UseSession(k) ==
    /\ toolCall[k] = "use"
    /\ page' = [page EXCEPT ![k] = browser[context[k]]]
    /\ IF browser[context[k]] = 0
       THEN panicked' = TRUE /\ At(k, "done")
       ELSE At(k, "page") /\ UNCHANGED panicked
    /\ UNCHANGED <<configVars, contextVars, chromeVars, context, lost, overtaken>>

\* The page's operation ends, with an error when its Chrome is gone.
FinishToolCall(k) ==
    /\ toolCall[k] = "page"
    /\ At(k, "done")
    /\ UNCHANGED <<configVars, contextVars, chromeVars, context, page, lost, panicked,
                   overtaken>>

-----------------------------------------------------------------------------
ToolCallStep(k) == EnsureBrowser(k) \/ ConnectCDP(k) \/ UseSession(k) \/ FinishToolCall(k)

BrowserNext ==
    /\ ~panicked
    /\ \/ \E p \in Profiles : \/ EditConfig(p) \/ RemoveProfile(p) \/ AddProfile(p)
                              \/ ShutdownProfile(p) \/ ChromeDies(p)
       \/ LoadConfig \/ LockProfiles \/ FinishReload \/ ShutdownBrowsers \/ FinishShutdown
       \/ \E k \in BrowserCalls : ToolCallStep(k) \/ \E p \in Profiles : GetProfile(k, p)

BrowserSpec == BrowserInit /\ [][BrowserNext]_browserVars

-----------------------------------------------------------------------------
\* EnsureBrowserAvailable, "Browser crashed, need to restart": the session that a
\* call works with is of the Chrome that its profile has now, unless that Chrome
\* died or was stopped after the call had made sure of it, or a call that came
\* late made a removed context connect again: contexts of one profile share a
\* port, and CheckHealth asks for any Chrome at the port.  A context that is
\* stopped has no session for a later call to find.
CrashesAreHealed ==
    /\ \A k \in BrowserCalls :
           toolCall[k] = "page" /\ k \notin lost /\ profileOf[context[k]] \notin overtaken =>
               page[k] = chrome[profileOf[context[k]]]
    /\ \A c \in Contexts : available[c] = (browser[c] # 0)
=============================================================================

---------------------------- MODULE MCResources ----------------------------
(***************************************************************************)
(* Cron, Pairing, Workspace and Browser for TLC: components that keep      *)
(* timers, files or processes and promise nothing about what happens       *)
(* eventually.  They share nothing: a behaviour is one of one component,   *)
(* as "part" says, and the others stay as they start.                      *)
(***************************************************************************)
EXTENDS Cron, Pairing, Workspace, Browser, TLC

CONSTANTS j1, g1, g2, e1, e2, f1, f2, b1, k1, k2, k3
VARIABLE part

\* Schedules of every kind whose next run falls within the clock's bound.
Once(t) == [kind |-> "at", at |-> t, every |-> 1, anchor |-> Never]
Repeated(n, anchor) == [kind |-> "every", at |-> 0, every |-> n, anchor |-> anchor]
Invalid == [kind |-> "invalid", at |-> 0, every |-> 1, anchor |-> Never]

MCSchedules == {Once(1), Repeated(1, Never), Repeated(2, 1), Invalid}
MCBackoff == <<1, 2>>

PartInit ==
    /\ part \in {"cron", "pairing", "workspace", "browser"}
    /\ CronInit /\ PairingInit /\ WorkspaceInit /\ BrowserInit
    /\ part # "workspace" => ~hidden /\ \A f \in Files : disk[f] = 0

\* Four of three operations, a failing save and a restart.
CronPart == ops' + faults' + restarts' <= 4

\* Three changes of files, or two and one of attributes.
WorkspacePart == edits' + chmods' <= 4

PartNext ==
    /\ UNCHANGED part
    /\ \/ part = "cron" /\ CronNext /\ CronPart
          /\ UNCHANGED <<pairingVars, workspaceVars, browserVars>>
       \/ part = "pairing" /\ PairingNext
          /\ UNCHANGED <<cronVars, workspaceVars, browserVars>>
       \/ part = "workspace" /\ WorkspaceNext /\ WorkspacePart
          /\ UNCHANGED <<cronVars, pairingVars, browserVars>>
       \/ part = "browser" /\ BrowserNext
          /\ UNCHANGED <<cronVars, pairingVars, workspaceVars>>

PartSpec ==
    PartInit /\ [][PartNext]_<<part, cronVars, pairingVars, workspaceVars, browserVars>>
=============================================================================

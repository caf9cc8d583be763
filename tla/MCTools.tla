------------------------------- MODULE MCTools -------------------------------
(***************************************************************************)
(* ToolCalls and Approvals for TLC, one of them in a behaviour, as "part"  *)
(* says.  Calls are of one tool, which may be of a risky category or a     *)
(* plugin's harmless one; one call with three attempts is enough for what  *)
(* a call promises, as calls share only the tools and the sandboxes.  The  *)
(* two requests for an approval are for one tool or for two, and two users *)
(* may answer the same request or one each.                                *)
(***************************************************************************)
EXTENDS ToolCalls, Approvals, TLC

CONSTANTS t1, k1, r1, r2, x1, u1, u2
VARIABLE part

SameTool == [c \in Calls |-> t1]
SameKey == [c \in Calls |-> k1]

Risky == [plugin |-> FALSE, risky |-> TRUE, sensitive |-> FALSE,
          sandbox |-> FALSE, approval |-> FALSE]
Harmless == [plugin |-> TRUE, risky |-> FALSE, sensitive |-> FALSE,
             sandbox |-> FALSE, approval |-> FALSE]
Definitions == {Risky, Harmless}

PartInit == part \in {"calls", "approvals"} /\ Init /\ ApprovalInit

\* Of the ways to name the requests, the tools and the users, one: r1 is for x1
\* and made first, and u1 gives the first answer.
OneOrder ==
    /\ tool'[r1] \in {x1, Nothing}
    /\ tool'[r1] = Nothing => tool'[r2] = Nothing
    /\ answers' = 1 => user'[u2] = Idle

PartNext ==
    /\ UNCHANGED part
    /\ \/ part = "calls" /\ Next /\ UNCHANGED approvalVars
       \/ part = "approvals" /\ ApprovalNext /\ OneOrder /\ UNCHANGED vars

\* Calls and requests are made by others, so that nothing has to happen in the
\* part that a behaviour leaves alone.
PartSpec ==
    PartInit /\ [][PartNext]_<<part, vars, approvalVars>>
    /\ Fairness /\ ApprovalFairness

\* The variables have values of their types.
ToolsTypeOK == TypeOK /\ ApprovalTypeOK

\* Every call of a tool returns, and every request for an approval ends.
CallsAndRequestsEnd == CallsReturn /\ RequestsEnd
=============================================================================

-------------------------- MODULE ToolCallsProofs --------------------------
(***************************************************************************)
(* Safety of tool calls for every set of calls, tools and definitions and  *)
(* every number of attempts and changes of the registry.                   *)
(*                                                                         *)
(* RunsAreGated needs to know where a call stands: that an attempt past    *)
(* the approval was approved, and that no handler ran in an attempt whose  *)
(* definition is still to be looked up.  RerunsFollowFailures needs to     *)
(* know how every attempt before the current one has ended.                *)
(*                                                                         *)
(* Approvals and their invariant are in a section of their own, and so is  *)
(* the composition of both.                                                *)
(***************************************************************************)
EXTENDS MCTools, TLAPS

BeforeRun == {"idle", "execute", "approval", "sandbox", "create", "gate", "ready"}

\* Where a call stands, and which of its handlers can have been started.
PlaceInv ==
    \A c \in Calls :
        /\ pc[c] = "backoff" => attempt[c] < MaxAttempts
        /\ pc[c] \in {"approval", "sandbox", "create", "gate", "ready", "run"} =>
               def[Now(c)] \in Definition
        /\ pc[c] \in BeforeRun => run[Now(c)] = "none"
        /\ pc[c] = "run" => run[Now(c)] # "none"
        /\ \A n \in 1..MaxAttempts : attempt[c] < n => run[<<c, n>>] = "none"

\* An attempt has passed the gates that lie behind it.
GateInv ==
    \A c \in Calls :
        /\ pc[c] \in {"sandbox", "create", "gate", "ready"} =>
               (RequiresApproval(def[Now(c)]) => Now(c) \in approved)
        /\ pc[c] = "ready" => (RequiresSandbox(def[Now(c)]) => Now(c) \in gated)

\* Attempt m of call c ended so that another may follow.
GaveUp(c, m) ==
    /\ outcome[<<c, m>>] \in {"timeout", "transient"}
    /\ run[<<c, m>>] \in {"running", "ok", "failed"} => outcome[<<c, m>>] = "timeout"
    /\ outcome[<<c, m>>] = "timeout" => run[<<c, m>>] # "none"

PastInv ==
    \A c \in Calls, m \in 1..MaxAttempts :
        m < attempt[c] \/ (m = attempt[c] /\ pc[c] = "backoff") => GaveUp(c, m)

IInv == TypeOK /\ PlaceInv /\ GateInv /\ RunsAreGated /\ PastInv

-----------------------------------------------------------------------------
\* Before the first attempt all parts hold.
LEMMA InitIInv == Init => IInv
<1> SUFFICES ASSUME Init PROVE IInv
  OBVIOUS
<1>1. TypeOK
  BY CallAssumption DEF Init, TypeOK, Attempts
<1>2. PlaceInv
  BY CallAssumption DEF Init, PlaceInv, Now, Attempts
<1>3. GateInv
  BY DEF Init, GateInv
<1>4. RunsAreGated
  BY DEF Init, RunsAreGated
<1>5. PastInv
  BY DEF Init, PastInv
<1> QED BY <1>1, <1>2, <1>3, <1>4, <1>5 DEF IInv

\* An attempt is one of a call's attempts.
LEMMA NowType == ASSUME TypeOK, NEW c \in Calls PROVE Now(c) \in Attempts
BY DEF TypeOK, Now, Attempts

\* What registration makes of a definition is one.
LEMMA RegisteredType ==
    ASSUME NEW d \in Offered PROVE Registered(d) \in Definition
BY CallAssumption DEF Registered, Definition

\* The steps with which Execute returns.
Ending(c) == Refuse(c) \/ Deny(c) \/ SandboxFails(c) \/ TakeResult(c) \/ TimeOut(c)

\* An attempt that ends with an error that may pass, and whose handler has not
\* failed, ends by its timeout.
LEMMA EndingFinishes ==
    ASSUME TypeOK, PlaceInv, NEW c \in Calls, Ending(c)
    PROVE  \E r \in Outcomes :
               /\ Finish(c, r)
               /\ r \in Transient /\ run[Now(c)] \in {"running", "ok", "failed"} =>
                      r = "timeout"
               /\ r = "timeout" => run[Now(c)] # "none"
<1> USE DEF Outcomes, Transient
<1>1. CASE Refuse(c)
  BY <1>1 DEF Refuse, PlaceInv, BeforeRun
<1>2. CASE Deny(c)
  BY <1>2 DEF Deny, PlaceInv, BeforeRun
<1>3. CASE SandboxFails(c)
  BY <1>3 DEF SandboxFails, PlaceInv, BeforeRun
<1>4. CASE TakeResult(c)
  <2>1. run[Now(c)] \in {"ok", "failed", "transient"}
    BY <1>4, NowType DEF TakeResult, TypeOK, PlaceInv
  <2> QED BY <1>4, <2>1 DEF TakeResult
<1>5. CASE TimeOut(c)
  BY <1>5 DEF TimeOut, PlaceInv
<1> QED BY <1>1, <1>2, <1>3, <1>4, <1>5 DEF Ending

-----------------------------------------------------------------------------
\* Every step keeps the types.
LEMMA TypeStep == IInv /\ [Next]_vars => TypeOK'
<1> SUFFICES ASSUME IInv, [Next]_vars PROVE TypeOK'
  OBVIOUS
<1> USE CallAssumption
<1>0. TypeOK /\ PlaceInv
  BY DEF IInv
<1>1. ASSUME NEW t \in Tools, RegisterTool(t) PROVE TypeOK'
  BY <1>0, <1>1, RegisteredType DEF RegisterTool, Change, TypeOK, callVars
<1>2. ASSUME NEW t \in Tools, UnregisterTool(t) PROVE TypeOK'
  BY <1>0, <1>2 DEF UnregisterTool, Change, TypeOK, callVars
<1>3. ASSUME NEW c \in Calls, Ending(c) PROVE TypeOK'
  <2>1. Now(c) \in Attempts
    BY <1>0, NowType
  <2>2. PICK r \in Outcomes : Finish(c, r)
    BY <1>0, <1>3, EndingFinishes
  <2> QED BY <1>0, <2>1, <2>2 DEF Finish, Goto, TypeOK, callVars
<1>4. ASSUME NEW c \in Calls, Begin(c) PROVE TypeOK'
  BY <1>0, <1>4 DEF Begin, Goto, TypeOK
<1>5. ASSUME NEW c \in Calls, LookUp(c) PROVE TypeOK'
  <2>1. Now(c) \in Attempts
    BY <1>0, NowType
  <2>2. registry[ToolOf[c]] \in Definition
    BY <1>0, <1>5 DEF LookUp, TypeOK
  <2> QED BY <1>0, <1>5, <2>1, <2>2 DEF LookUp, Goto, AfterApproval, TypeOK
<1>6. ASSUME NEW c \in Calls, Approve(c) PROVE TypeOK'
  <2>1. Now(c) \in Attempts
    BY <1>0, NowType
  <2> QED BY <1>0, <1>6, <2>1 DEF Approve, Goto, AfterApproval, TypeOK
<1>7. ASSUME NEW c \in Calls, FindSandbox(c) PROVE TypeOK'
  BY <1>0, <1>7 DEF FindSandbox, Goto, TypeOK
<1>8. ASSUME NEW c \in Calls, CreateSandbox(c) PROVE TypeOK'
  <2>1. KeyOf[c] \in Keys
    BY DEF Keys
  <2> QED BY <1>0, <1>8, <2>1 DEF CreateSandbox, Goto, TypeOK
<1>9. ASSUME NEW c \in Calls, PassGate(c) PROVE TypeOK'
  <2>1. Now(c) \in Attempts
    BY <1>0, NowType
  <2> QED BY <1>0, <1>9, <2>1 DEF PassGate, Goto, TypeOK
<1>10. ASSUME NEW c \in Calls, StartHandler(c) PROVE TypeOK'
  <2>1. Now(c) \in Attempts
    BY <1>0, NowType
  <2> QED BY <1>0, <1>10, <2>1 DEF StartHandler, Goto, TypeOK
<1>11. ASSUME NEW c \in Calls, Retry(c) PROVE TypeOK'
  <2>1. attempt[c] + 1 \in 1..MaxAttempts
    BY <1>0, <1>11 DEF Retry, PlaceInv, TypeOK
  <2> QED BY <1>0, <1>11, <2>1 DEF Retry, Goto, TypeOK
<1>12. ASSUME NEW c \in Calls, GiveUp(c) \/ Expire(c) \/ Cancel(c) PROVE TypeOK'
  BY <1>0, <1>12 DEF GiveUp, Expire, Cancel, Goto, TypeOK
<1>13. ASSUME NEW a \in Attempts, HandlerReturns(a) PROVE TypeOK'
  BY <1>0, <1>13 DEF HandlerReturns, TypeOK, callVars
<1>14. CASE UNCHANGED vars
  BY <1>0, <1>14 DEF TypeOK, vars, callVars
<1> QED
  BY <1>1, <1>2, <1>3, <1>4, <1>5, <1>6, <1>7, <1>8, <1>9, <1>10, <1>11, <1>12, <1>13,
     <1>14 DEF Next, Step, Ending

-----------------------------------------------------------------------------
\* Every step keeps what a call's place says.
LEMMA PlaceStep == IInv /\ TypeOK' /\ [Next]_vars => PlaceInv'
<1> SUFFICES ASSUME IInv, TypeOK', [Next]_vars PROVE PlaceInv'
  OBVIOUS
<1> USE CallAssumption
<1>0. TypeOK /\ PlaceInv
  BY DEF IInv
<1>1. ASSUME NEW t \in Tools, RegisterTool(t) \/ UnregisterTool(t) PROVE PlaceInv'
  BY <1>0, <1>1 DEF RegisterTool, UnregisterTool, Change, PlaceInv, Now, callVars
<1>2. ASSUME NEW c \in Calls, Ending(c) PROVE PlaceInv'
  <2>1. PICK r \in Outcomes : Finish(c, r)
    BY <1>0, <1>2, EndingFinishes
  <2> QED BY <1>0, <2>1 DEF Finish, Goto, PlaceInv, Now, BeforeRun, TypeOK
<1>3. ASSUME NEW c \in Calls, Begin(c) PROVE PlaceInv'
  BY <1>0, <1>3 DEF Begin, Goto, PlaceInv, Now, BeforeRun, TypeOK
<1>4. ASSUME NEW c \in Calls, LookUp(c) PROVE PlaceInv'
  <2>1. registry[ToolOf[c]] \in Definition /\ Now(c) \in Attempts
    BY <1>0, <1>4, NowType DEF LookUp, TypeOK
  <2> QED BY <1>0, <1>4, <2>1
          DEF LookUp, Goto, AfterApproval, PlaceInv, Now, BeforeRun, TypeOK
<1>5. ASSUME NEW c \in Calls, Approve(c) PROVE PlaceInv'
  BY <1>0, <1>5 DEF Approve, Goto, AfterApproval, PlaceInv, Now, BeforeRun, TypeOK
<1>6. ASSUME NEW c \in Calls, FindSandbox(c) \/ CreateSandbox(c) \/ PassGate(c)
      PROVE  PlaceInv'
  BY <1>0, <1>6
     DEF FindSandbox, CreateSandbox, PassGate, Goto, PlaceInv, Now, BeforeRun, TypeOK
<1>7. ASSUME NEW c \in Calls, StartHandler(c) PROVE PlaceInv'
  <2>1. /\ Now(c) \in Attempts /\ run'[Now(c)] = "running"
        /\ \A a \in Attempts : a # Now(c) => run'[a] = run[a]
    BY <1>0, <1>7, NowType DEF StartHandler, TypeOK
  <2>2. \A o \in Calls \ {c} : run'[Now(o)] = run[Now(o)]
    BY <1>0, <2>1, NowType DEF Now
  <2>3. \A o \in Calls, n \in 1..MaxAttempts :
            attempt[o] < n => run'[<<o, n>>] = run[<<o, n>>]
    BY <1>0, <2>1 DEF Now, Attempts, TypeOK
  <2>4. /\ pc' = [pc EXCEPT ![c] = "run"] /\ pc[c] = "ready"
        /\ attempt' = attempt /\ def' = def
    BY <1>7 DEF StartHandler, Goto
  <2>5. /\ pc'[c] = "run" /\ \A o \in Calls \ {c} : pc'[o] = pc[o]
        /\ Now(c)' = Now(c) /\ \A o \in Calls : Now(o)' = Now(o)
    BY <1>0, <2>4 DEF Now, TypeOK
  <2>6. ASSUME NEW o \in Calls
        PROVE  /\ pc'[o] \in BeforeRun => run'[Now(o)'] = "none"
               /\ pc'[o] = "run" => run'[Now(o)'] # "none"
    <3>1. CASE o = c
      BY <2>1, <2>5, <3>1 DEF BeforeRun
    <3>2. CASE o # c
      BY <1>0, <2>2, <2>5, <3>2 DEF PlaceInv
    <3> QED BY <3>1, <3>2
  <2>7. ASSUME NEW o \in Calls
        PROVE  /\ pc'[o] = "backoff" => attempt'[o] < MaxAttempts
               /\ pc'[o] \in {"approval", "sandbox", "create", "gate", "ready", "run"} =>
                      def'[Now(o)'] \in Definition
    BY <1>0, <2>4, <2>5 DEF PlaceInv
  <2>8. \A o \in Calls, n \in 1..MaxAttempts :
            attempt'[o] < n => run'[<<o, n>>] = "none"
    BY <1>0, <2>3, <2>4 DEF PlaceInv
  <2> QED BY <2>6, <2>7, <2>8 DEF PlaceInv, Now
<1>8. ASSUME NEW c \in Calls, Retry(c) PROVE PlaceInv'
  <2>1. /\ attempt[c] \in 1..MaxAttempts /\ attempt'[c] = attempt[c] + 1
        /\ attempt'[c] \in 1..MaxAttempts /\ run' = run
        /\ pc'[c] = "execute" /\ run[<<c, attempt[c] + 1>>] = "none"
    BY <1>0, <1>8 DEF Retry, Goto, PlaceInv, TypeOK
  <2> QED BY <1>0, <1>8, <2>1 DEF Retry, Goto, PlaceInv, Now, BeforeRun, TypeOK
<1>9. ASSUME NEW c \in Calls, GiveUp(c) \/ Expire(c) \/ Cancel(c) PROVE PlaceInv'
  BY <1>0, <1>9 DEF GiveUp, Expire, Cancel, Goto, PlaceInv, Now, BeforeRun, TypeOK
<1>10. ASSUME NEW a \in Attempts, HandlerReturns(a) PROVE PlaceInv'
  BY <1>0, <1>10 DEF HandlerReturns, PlaceInv, Now, TypeOK, callVars
<1>11. CASE UNCHANGED vars
  BY <1>0, <1>11 DEF PlaceInv, Now, vars, callVars
<1> QED
  BY <1>1, <1>2, <1>3, <1>4, <1>5, <1>6, <1>7, <1>8, <1>9, <1>10, <1>11
     DEF Next, Step, Ending

-----------------------------------------------------------------------------
\* A call passes a gate only as the definition asks.
LEMMA GateStep == IInv /\ TypeOK' /\ [Next]_vars => GateInv'
<1> SUFFICES ASSUME IInv, TypeOK', [Next]_vars PROVE GateInv'
  OBVIOUS
<1> USE CallAssumption
<1>0. TypeOK /\ PlaceInv /\ GateInv
  BY DEF IInv
<1>1. ASSUME NEW t \in Tools, RegisterTool(t) \/ UnregisterTool(t) PROVE GateInv'
  BY <1>0, <1>1 DEF RegisterTool, UnregisterTool, Change, GateInv, Now, callVars
<1>2. ASSUME NEW c \in Calls, Ending(c) PROVE GateInv'
  <2>1. PICK r \in Outcomes : Finish(c, r)
    BY <1>0, <1>2, EndingFinishes
  <2> QED BY <1>0, <2>1 DEF Finish, Goto, GateInv, Now, TypeOK
<1>3. ASSUME NEW c \in Calls, Begin(c) \/ Retry(c) \/ GiveUp(c) \/ Expire(c) \/ Cancel(c)
      PROVE  GateInv'
  BY <1>0, <1>3 DEF Begin, Retry, GiveUp, Expire, Cancel, Goto, GateInv, Now, TypeOK
<1>4. ASSUME NEW c \in Calls, LookUp(c) PROVE GateInv'
  <2>1. /\ Now(c) \in Attempts /\ def'[Now(c)] = registry[ToolOf[c]]
        /\ \A o \in Calls \ {c} : def'[Now(o)] = def[Now(o)]
    BY <1>0, <1>4, NowType DEF LookUp, Now, TypeOK, Attempts
  <2> QED BY <1>0, <1>4, <2>1 DEF LookUp, Goto, AfterApproval, GateInv, Now, TypeOK
<1>5. ASSUME NEW c \in Calls, Approve(c) PROVE GateInv'
  BY <1>0, <1>5 DEF Approve, Goto, AfterApproval, GateInv, Now, TypeOK
<1>6. ASSUME NEW c \in Calls,
             FindSandbox(c) \/ CreateSandbox(c) \/ PassGate(c) \/ StartHandler(c)
      PROVE  GateInv'
  BY <1>0, <1>6
     DEF FindSandbox, CreateSandbox, PassGate, StartHandler, Goto, GateInv, Now, TypeOK
<1>7. ASSUME NEW a \in Attempts, HandlerReturns(a) PROVE GateInv'
  BY <1>0, <1>7 DEF HandlerReturns, GateInv, Now, callVars
<1>8. CASE UNCHANGED vars
  BY <1>0, <1>8 DEF GateInv, Now, vars, callVars
<1> QED
  BY <1>1, <1>2, <1>3, <1>4, <1>5, <1>6, <1>7, <1>8 DEF Next, Step, Ending

-----------------------------------------------------------------------------
\* Handlers start behind the gates.
LEMMA GatedStep == IInv /\ [Next]_vars => RunsAreGated'
<1> SUFFICES ASSUME IInv, [Next]_vars PROVE RunsAreGated'
  OBVIOUS
<1>0. TypeOK /\ PlaceInv /\ GateInv /\ RunsAreGated
  BY DEF IInv
<1>1. ASSUME NEW t \in Tools, RegisterTool(t) \/ UnregisterTool(t) PROVE RunsAreGated'
  BY <1>0, <1>1 DEF RegisterTool, UnregisterTool, Change, RunsAreGated, callVars
<1>2. ASSUME NEW c \in Calls, Ending(c) PROVE RunsAreGated'
  <2>1. PICK r \in Outcomes : Finish(c, r)
    BY <1>0, <1>2, EndingFinishes
  <2> QED BY <1>0, <2>1 DEF Finish, RunsAreGated
\* No handler has run in the attempt that looks its definition up.
<1>3. ASSUME NEW c \in Calls, LookUp(c) PROVE RunsAreGated'
  <2>1. /\ run[Now(c)] = "none" /\ run' = run
        /\ approved' = approved /\ gated' = gated
    BY <1>0, <1>3 DEF LookUp, PlaceInv, BeforeRun
  <2>2. \A a \in Attempts : a # Now(c) => def'[a] = def[a]
    BY <1>0, <1>3 DEF LookUp, TypeOK
  <2> QED BY <1>0, <2>1, <2>2 DEF RunsAreGated
<1>4. ASSUME NEW c \in Calls, Approve(c) \/ PassGate(c) PROVE RunsAreGated'
  BY <1>0, <1>4 DEF Approve, PassGate, RunsAreGated
<1>5. ASSUME NEW c \in Calls,
             \/ Begin(c) \/ FindSandbox(c) \/ CreateSandbox(c)
             \/ Retry(c) \/ GiveUp(c) \/ Expire(c) \/ Cancel(c)
      PROVE  RunsAreGated'
  BY <1>0, <1>5
     DEF Begin, FindSandbox, CreateSandbox, Retry, GiveUp, Expire, Cancel, RunsAreGated
<1>6. ASSUME NEW c \in Calls, StartHandler(c) PROVE RunsAreGated'
  <2>1. /\ RequiresApproval(def[Now(c)]) => Now(c) \in approved
        /\ RequiresSandbox(def[Now(c)]) => Now(c) \in gated
    BY <1>0, <1>6 DEF StartHandler, GateInv
  <2>2. \A a \in Attempts : a # Now(c) => run'[a] = run[a]
    BY <1>0, <1>6 DEF StartHandler, TypeOK
  <2>3. def' = def /\ approved' = approved /\ gated' = gated
    BY <1>6 DEF StartHandler
  <2> QED BY <1>0, <2>1, <2>2, <2>3 DEF RunsAreGated
<1>7. ASSUME NEW a \in Attempts, HandlerReturns(a) PROVE RunsAreGated'
  <2>1. run[a] = "running" /\ \A b \in Attempts : b # a => run'[b] = run[b]
    BY <1>0, <1>7 DEF HandlerReturns, TypeOK
  <2>2. def' = def /\ approved' = approved /\ gated' = gated
    BY <1>7 DEF HandlerReturns, callVars
  <2>3. RequiresApproval(def[a]) => a \in approved
    BY <1>0, <2>1 DEF RunsAreGated
  <2>4. RequiresSandbox(def[a]) => a \in gated
    BY <1>0, <2>1 DEF RunsAreGated
  <2> QED BY <1>0, <2>1, <2>2, <2>3, <2>4 DEF RunsAreGated
<1>8. CASE UNCHANGED vars
  BY <1>0, <1>8 DEF RunsAreGated, vars, callVars
<1> QED
  BY <1>1, <1>2, <1>3, <1>4, <1>5, <1>6, <1>7, <1>8 DEF Next, Step, Ending

-----------------------------------------------------------------------------
\* An attempt that is over stays as it ended.
LEMMA PastStep == IInv /\ TypeOK' /\ [Next]_vars => PastInv'
<1> SUFFICES ASSUME IInv, TypeOK', [Next]_vars PROVE PastInv'
  OBVIOUS
<1> USE CallAssumption
<1>0. TypeOK /\ PlaceInv /\ PastInv
  BY DEF IInv
<1>1. ASSUME NEW t \in Tools, RegisterTool(t) \/ UnregisterTool(t) PROVE PastInv'
  BY <1>0, <1>1 DEF RegisterTool, UnregisterTool, Change, PastInv, GaveUp, callVars
\* The attempt that ends is the current one of its call.
<1>2. ASSUME NEW c \in Calls, Ending(c) PROVE PastInv'
  <2>1. PICK r \in Outcomes :
            /\ Finish(c, r)
            /\ r \in Transient /\ run[Now(c)] \in {"running", "ok", "failed"} => r = "timeout"
            /\ r = "timeout" => run[Now(c)] # "none"
    BY <1>0, <1>2, EndingFinishes
  <2>2. /\ Now(c) \in Attempts /\ outcome'[Now(c)] = r
        /\ \A a \in Attempts : a # Now(c) => outcome'[a] = outcome[a]
        /\ run' = run /\ attempt' = attempt
        /\ pc'[c] = "backoff" => r \in Transient
        /\ \A o \in Calls \ {c} : pc'[o] = pc[o]
    BY <1>0, <2>1, NowType DEF Finish, Goto, TypeOK
  <2>3. ASSUME NEW o \in Calls, NEW m \in 1..MaxAttempts,
               m < attempt[o] \/ (m = attempt[o] /\ pc'[o] = "backoff")
        PROVE  GaveUp(o, m)'
    <3>1. CASE <<o, m>> = Now(c)
      <4>1. o = c /\ m = attempt[c] /\ attempt[c] \in 1..MaxAttempts
        BY <1>0, <3>1 DEF Now, TypeOK
      <4>2. r \in Transient
        BY <2>2, <2>3, <4>1
      <4> QED BY <2>1, <2>2, <3>1, <4>2 DEF GaveUp, Transient
    <3>2. CASE <<o, m>> # Now(c)
      <4>1. m < attempt[o] \/ (m = attempt[o] /\ pc[o] = "backoff")
        BY <2>2, <2>3, <3>2 DEF Now
      <4>2. GaveUp(o, m) /\ <<o, m>> \in Attempts
        BY <1>0, <4>1 DEF PastInv, Attempts
      <4> QED BY <2>2, <3>2, <4>2 DEF GaveUp
    <3> QED BY <3>1, <3>2
  <2> QED BY <2>2, <2>3 DEF PastInv
<1>3. ASSUME NEW c \in Calls,
             \/ Begin(c) \/ LookUp(c) \/ Approve(c) \/ FindSandbox(c)
             \/ CreateSandbox(c) \/ PassGate(c) \/ GiveUp(c)
      PROVE  PastInv'
  <2>1. /\ run' = run /\ attempt' = attempt /\ outcome' = outcome
        /\ \A o \in Calls : pc'[o] = "backoff" => pc[o] = "backoff"
    BY <1>0, <1>3 DEF Begin, LookUp, Approve, FindSandbox, CreateSandbox, PassGate,
                      GiveUp, Goto, AfterApproval, TypeOK
  <2> QED BY <1>0, <2>1 DEF PastInv, GaveUp
<1>4. ASSUME NEW c \in Calls, StartHandler(c) PROVE PastInv'
  <2>1. /\ Now(c) \in Attempts
        /\ \A a \in Attempts : a # Now(c) => run'[a] = run[a]
        /\ attempt' = attempt /\ outcome' = outcome
        /\ pc' = [pc EXCEPT ![c] = "run"]
    BY <1>0, <1>4, NowType DEF StartHandler, Goto, TypeOK
  <2>2. ASSUME NEW o \in Calls, NEW m \in 1..MaxAttempts,
               m < attempt[o] \/ (m = attempt[o] /\ pc'[o] = "backoff")
        PROVE  GaveUp(o, m)'
    <3>1. GaveUp(o, m) /\ <<o, m>> # Now(c) /\ <<o, m>> \in Attempts
      BY <1>0, <2>1, <2>2 DEF PastInv, Now, TypeOK, Attempts
    <3> QED BY <2>1, <3>1 DEF GaveUp
  <2> QED BY <2>1, <2>2 DEF PastInv
\* The attempt that the backoff follows has become a past one.
<1>5. ASSUME NEW c \in Calls, Retry(c) PROVE PastInv'
  <2>1. /\ attempt[c] \in 1..MaxAttempts /\ attempt'[c] = attempt[c] + 1
        /\ \A o \in Calls \ {c} : attempt'[o] = attempt[o] /\ pc'[o] = pc[o]
        /\ pc[c] = "backoff" /\ pc'[c] = "execute"
        /\ run' = run /\ outcome' = outcome
    BY <1>0, <1>5 DEF Retry, Goto, TypeOK
  <2>2. ASSUME NEW m \in 1..MaxAttempts, m < attempt'[c] PROVE GaveUp(c, m)
    BY <1>0, <2>1, <2>2 DEF PastInv
  <2>3. ASSUME NEW o \in Calls \ {c}, NEW m \in 1..MaxAttempts,
               m < attempt'[o] \/ (m = attempt'[o] /\ pc'[o] = "backoff")
        PROVE  GaveUp(o, m)
    BY <1>0, <2>1, <2>3 DEF PastInv
  <2> QED BY <2>1, <2>2, <2>3 DEF PastInv, GaveUp
<1>6. ASSUME NEW c \in Calls, Expire(c) \/ Cancel(c) PROVE PastInv'
  BY <1>0, <1>6 DEF Expire, Cancel, PastInv, GaveUp
\* A handler that runs under a past attempt was left at its timeout.
<1>7. ASSUME NEW a \in Attempts, HandlerReturns(a) PROVE PastInv'
  <2>1. /\ run[a] = "running" /\ \A b \in Attempts : b # a => run'[b] = run[b]
        /\ pc' = pc /\ attempt' = attempt /\ outcome' = outcome
    BY <1>0, <1>7 DEF HandlerReturns, callVars, TypeOK
  <2>2. ASSUME NEW o \in Calls, NEW m \in 1..MaxAttempts, GaveUp(o, m)
        PROVE  GaveUp(o, m)'
    <3>1. <<o, m>> \in Attempts /\ outcome'[<<o, m>>] = outcome[<<o, m>>]
      BY <2>1 DEF Attempts
    <3>2. CASE <<o, m>> = a
      <4>1. outcome[<<o, m>>] = "timeout" /\ run'[a] # "none"
        BY <1>0, <1>7, <2>1, <2>2, <3>2 DEF GaveUp, HandlerReturns, TypeOK
      <4> QED BY <3>1, <3>2, <4>1 DEF GaveUp
    <3>3. CASE <<o, m>> # a
      BY <2>1, <2>2, <3>1, <3>3 DEF GaveUp
    <3> QED BY <3>2, <3>3
  <2> QED BY <1>0, <2>1, <2>2 DEF PastInv
<1>8. CASE UNCHANGED vars
  BY <1>0, <1>8 DEF PastInv, GaveUp, vars, callVars
<1> QED
  BY <1>1, <1>2, <1>3, <1>4, <1>5, <1>6, <1>7, <1>8 DEF Next, Step, Ending

-----------------------------------------------------------------------------
\* The facts above hold in every state of every behaviour.
THEOREM Inductive == Spec => []IInv
<1>1. Init => IInv
  BY InitIInv
<1>2. IInv /\ [Next]_vars => IInv'
  BY TypeStep, PlaceStep, GateStep, GatedStep, PastStep DEF IInv
<1> QED BY <1>1, <1>2, PTL DEF Spec

\* Every variable has its type; above all, an attempt's number never exceeds
\* MaxAttempts.  executor.go:795-835.
THEOREM TypeCorrect == Spec => []TypeOK
<1>1. IInv => TypeOK
  BY DEF IInv
<1> QED BY <1>1, Inductive, PTL

\* Whatever becomes of the registry under a call and however often the call is
\* retried, a handler runs behind the gates that its definition asks for.
\* executor.go:519-687.
THEOREM RunsAreGatedHolds == Spec => []RunsAreGated
<1>1. IInv => RunsAreGated
  BY DEF IInv
<1> QED BY <1>1, Inductive, PTL

\* A handler runs again only after attempts whose error's text says that it may
\* pass, never after a denial or a success; a handler that ran in one of them
\* failed with that error, or was given up for its timeout and may still run.
\* executor.go:795-835, 1078-1112.
THEOREM RerunsFollowFailuresHolds == Spec => []RerunsFollowFailures
<1>1. IInv => RerunsFollowFailures
  <2> SUFFICES ASSUME IInv, NEW c \in Calls, NEW m \in 1..MaxAttempts,
                      NEW n \in 1..MaxAttempts, m < n, run[<<c, n>>] # "none"
               PROVE  GaveUp(c, m)
    BY DEF RerunsFollowFailures, GaveUp
  <2>1. attempt[c] \in 1..MaxAttempts /\ ~(attempt[c] < n)
    BY DEF IInv, TypeOK, PlaceInv
  <2>2. m < attempt[c]
    BY <2>1, CallAssumption
  <2> QED BY <2>2 DEF IInv, PastInv
<1> QED BY <1>1, Inductive, PTL

\* A call that is cancelled before it backs off starts no other attempt.
\* executor.go:823-834.
THEOREM CancelEndsRetriesHolds == Spec => CancelEndsRetries
<1> DEFINE A == \A c \in Calls : c \in cancelled /\ pc[c] # "backoff" =>
                    pc'[c] # "backoff" /\ attempt'[c] = attempt[c]
<1>1. TypeOK /\ PlaceInv /\ [Next]_vars => [A]_vars
  <2> SUFFICES ASSUME TypeOK, PlaceInv, Next PROVE A
    OBVIOUS
  <2>1. ASSUME NEW t \in Tools, RegisterTool(t) \/ UnregisterTool(t) PROVE A
    BY <2>1 DEF RegisterTool, UnregisterTool, Change, callVars
  <2>2. ASSUME NEW c \in Calls, Ending(c) PROVE A
    <3>1. PICK r \in Outcomes : Finish(c, r)
      BY <2>2, EndingFinishes
    <3> QED BY <3>1 DEF Finish, Goto, TypeOK
  <2>3. ASSUME NEW c \in Calls, LookUp(c) \/ Approve(c) \/ StartHandler(c) PROVE A
    BY <2>3 DEF LookUp, Approve, StartHandler, AfterApproval, Goto, TypeOK
  <2>4. ASSUME NEW c \in Calls,
               Begin(c) \/ FindSandbox(c) \/ CreateSandbox(c) \/ PassGate(c) PROVE A
    BY <2>4 DEF Begin, FindSandbox, CreateSandbox, PassGate, Goto, TypeOK
  <2>5. ASSUME NEW c \in Calls, Retry(c) \/ GiveUp(c) \/ Expire(c) \/ Cancel(c) PROVE A
    BY <2>5 DEF Retry, GiveUp, Expire, Cancel, Goto, TypeOK
  <2>6. ASSUME NEW a \in Attempts, HandlerReturns(a) PROVE A
    BY <2>6 DEF HandlerReturns, callVars
  <2> QED BY <2>1, <2>2, <2>3, <2>4, <2>5, <2>6 DEF Next, Step, Ending
<1>2. IInv => TypeOK /\ PlaceInv
  BY DEF IInv
<1> QED BY <1>1, <1>2, Inductive, PTL DEF Spec, CancelEndsRetries

-----------------------------------------------------------------------------
(***************************************************************************)
(* Approvals.  What decides a request is the first response put into its   *)
(* channel: until the handler has heard one, the channel holds the first   *)
(* response or none was sent.  A request that the allowlist has approved   *)
(* was never pending, so that no user can still send it a response.  The   *)
(* allowlist does not change while it is written, so that whoever writes   *)
(* writes all of it.                                                       *)
(***************************************************************************)

\* Where a request stands, and what was sent to it.
RequestInv ==
    \A r \in Requests :
        /\ manager[r] = "new" => handler[r] = "none"
        /\ manager[r] \in {"approved", "denied"} => handler[r] = manager[r]
        /\ handler[r] # "none" => up /\ tool[r] \in RiskyTools
        /\ handler[r] \in {"none", "asked"} => first[r] = "none"
        /\ handler[r] \in {"none", "asked", "forwarding", "waiting"} => answer[r] = first[r]
        /\ handler[r] = "approved" =>
               \/ first[r] \in {"once", "always"}
               \/ /\ first[r] = "none" /\ tool[r] \in allowlist
                  /\ \A u \in Users : user[u].id # r
        /\ handler[r] = "denied" => first[r] = "deny"

\* Where a user stands who answers a request.
UserInv ==
    \A u \in Users :
        /\ user[u].at = "idle" => user[u].id = Nothing
        /\ user[u].at # "idle" =>
               /\ user[u].id \in Requests /\ user[u].action \in Actions
               /\ handler[user[u].id] \notin {"none", "asked"}
        /\ user[u].at \in {"save", "write"} => tool[user[u].id] \in allowlist
        /\ user[u].at = "write" => user[u].copy = allowlist

ApprovalInv == ApprovalTypeOK /\ RequestInv /\ UserInv /\ AlwaysIsKept

\* At the start there are no requests and no entries.
LEMMA ApprovalInitInv == ApprovalInit => ApprovalInv
<1> SUFFICES ASSUME ApprovalInit PROVE ApprovalInv
  OBVIOUS
<1>1. ApprovalTypeOK
  <2>1. 0 \in 0..MaxAnswers /\ 0 \in 0..MaxCrashes
    BY ApprovalAssumption
  <2>2. user \in [Users -> [at : {"idle", "add", "save", "write", "send"},
                           id : Requests \cup {Nothing}, action : Actions \cup {"none"},
                           copy : SUBSET RiskyTools]]
    BY DEF ApprovalInit, Idle
  <2> QED BY <2>1, <2>2 DEF ApprovalInit, ApprovalTypeOK
<1>2. RequestInv
  BY DEF ApprovalInit, RequestInv
<1>3. UserInv
  BY DEF ApprovalInit, UserInv, Idle
<1>4. AlwaysIsKept
  BY ApprovalAssumption DEF ApprovalInit, AlwaysIsKept
<1> QED BY <1>1, <1>2, <1>3, <1>4 DEF ApprovalInv

\* A request whose manager or handler moves on.
LEMMA RequestStep ==
    ASSUME ApprovalInv, NEW r \in Requests,
           \/ \E t \in RiskyTools : RequestApproval(r, t)
           \/ Manage(r) \/ Handle(r) \/ EndContext(r)
    PROVE  ApprovalInv'
<1>0. ApprovalTypeOK /\ RequestInv /\ UserInv /\ AlwaysIsKept
  BY DEF ApprovalInv
<1>1. ASSUME NEW t \in RiskyTools, RequestApproval(r, t) PROVE ApprovalInv'
  <2>1. ApprovalTypeOK'
    BY <1>0, <1>1 DEF RequestApproval, ApprovalTypeOK, listVars, programVars
  <2>2. \A u \in Users : user[u].id # r
    BY <1>0, <1>1, ApprovalAssumption DEF RequestApproval, RequestInv, UserInv
  <2>3. RequestInv'
    BY <1>0, <1>1 DEF RequestApproval, RequestInv, ApprovalTypeOK, listVars, programVars
  <2>4. UserInv'
    BY <1>0, <1>1, <2>2 DEF RequestApproval, UserInv, ApprovalTypeOK, listVars, programVars
  <2>5. AlwaysIsKept'
    BY <1>0, <1>1 DEF RequestApproval, AlwaysIsKept, Writers, listVars, programVars
  <2> QED BY <2>1, <2>3, <2>4, <2>5 DEF ApprovalInv
<1>2. ASSUME Manage(r) \/ EndContext(r) PROVE ApprovalInv'
  <2>1. UNCHANGED <<tool, handler, answer, first, listVars, user, programVars>>
    BY <1>2 DEF Manage, TakeAnswer, ApprovalTimesOut, Return, EndContext
  <2>2. /\ over' \subseteq Requests
        /\ \/ manager' = manager
           \/ \E v \in {"approved", "denied", "failed", "timeout"} :
                  /\ manager' = [manager EXCEPT ![r] = v]
                  /\ v \in {"approved", "denied"} => handler[r] = v
    BY <1>0, <1>2 DEF Manage, TakeAnswer, ApprovalTimesOut, Return, EndContext, ApprovalTypeOK
  <2>3. ApprovalTypeOK'
    BY <1>0, <2>1, <2>2 DEF ApprovalTypeOK, listVars, programVars
  <2>4. RequestInv'
    BY <1>0, <2>1, <2>2 DEF RequestInv, ApprovalTypeOK, listVars, programVars
  <2>5. UserInv' /\ AlwaysIsKept'
    BY <1>0, <2>1 DEF UserInv, AlwaysIsKept, Writers, listVars, programVars
  <2> QED BY <2>3, <2>4, <2>5 DEF ApprovalInv
<1>3. ASSUME Handle(r) PROVE ApprovalInv'
  <2>1. /\ UNCHANGED <<tool, manager, over, first, listVars, user, programVars>>
        /\ handler[r] \in {"asked", "forwarding", "waiting"}
    BY <1>3 DEF Handle, Ask, Forward, Hear, Lapse, Handler
  <2>2. /\ answer' \in [Requests -> Actions \cup {"none"}]
        /\ \E h \in {"forwarding", "waiting", "approved", "denied", "failed"} :
               handler' = [handler EXCEPT ![r] = h]
    BY <1>0, <1>3 DEF Handle, Ask, Forward, Hear, Lapse, Handler, ApprovalTypeOK
  <2>3. ApprovalTypeOK'
    BY <1>0, <2>1, <2>2 DEF ApprovalTypeOK, listVars, programVars
  <2>4. RequestInv'
    <3>1. \A q \in Requests \ {r} : handler'[q] = handler[q] /\ answer'[q] = answer[q]
      BY <1>0, <1>3, <2>2 DEF Handle, Ask, Forward, Hear, Lapse, Handler, ApprovalTypeOK
    <3>2. CASE Ask(r)
      <4>1. \A u \in Users : user[u].id # r
        BY <1>0, <3>2, ApprovalAssumption DEF Ask, UserInv
      <4> QED BY <1>0, <2>1, <3>1, <3>2, <4>1 DEF Ask, Handler, RequestInv, ApprovalTypeOK,
                listVars, programVars
    <3>3. CASE Forward(r) \/ Lapse(r)
      BY <1>0, <2>1, <3>1, <3>3 DEF Forward, Lapse, Handler, RequestInv, ApprovalTypeOK,
        listVars, programVars
    <3>4. CASE Hear(r)
      BY <1>0, <2>1, <3>1, <3>4 DEF Hear, Handler, RequestInv, ApprovalTypeOK, Actions,
        listVars, programVars
    <3> QED BY <1>3, <3>2, <3>3, <3>4 DEF Handle
  <2>5. UserInv'
    BY <1>0, <2>1, <2>2 DEF UserInv, ApprovalTypeOK, listVars, programVars
  <2>6. AlwaysIsKept'
    BY <1>0, <2>1 DEF AlwaysIsKept, Writers, listVars, programVars
  <2> QED BY <2>3, <2>4, <2>5, <2>6 DEF ApprovalInv
<1> QED BY <1>1, <1>2, <1>3

\* A user who answers.
LEMMA AnswerStepKeeps ==
    ASSUME ApprovalInv, NEW u \in Users, AnswerStep(u)
    PROVE  ApprovalInv'
<1>0. ApprovalTypeOK /\ RequestInv /\ UserInv /\ AlwaysIsKept
  BY DEF ApprovalInv
<1>1. ASSUME NEW r \in Requests, NEW action \in Actions, Resolve(u, r, action)
      PROVE  ApprovalInv'
  <2>1. UNCHANGED <<requestVars, listVars, up, crashes>> /\ answers' \in 0..MaxAnswers
    BY <1>0, <1>1, ApprovalAssumption DEF Resolve, ApprovalTypeOK
  <2>2. PICK a \in {"add", "send"} :
            user' = [user EXCEPT ![u] = [at |-> a, id |-> r, action |-> action, copy |-> {}]]
    BY <1>1 DEF Resolve
  <2>3. handler[r] \in {"forwarding", "waiting"}
    BY <1>1 DEF Resolve, Pending
  <2>4. ApprovalTypeOK'
    BY <1>0, <2>1, <2>2 DEF ApprovalTypeOK, requestVars, listVars
  <2>5. RequestInv'
    BY <1>0, <2>1, <2>2, <2>3 DEF RequestInv, ApprovalTypeOK, requestVars, listVars
  <2>6. UserInv'
    BY <1>0, <2>1, <2>2, <2>3 DEF UserInv, ApprovalTypeOK, requestVars, listVars
  <2>7. Writers' = Writers
    BY <1>0, <1>1, <2>2 DEF Writers, Resolve, ApprovalTypeOK
  <2>8. AlwaysIsKept'
    BY <1>0, <2>1, <2>7 DEF AlwaysIsKept, listVars
  <2> QED BY <2>4, <2>5, <2>6, <2>8 DEF ApprovalInv
<1>2. CASE Add(u)
  <2>1. /\ UNCHANGED <<requestVars, disk, saved, broken, programVars>>
        /\ Writers = {} /\ user[u].at = "add" /\ user' = [user EXCEPT ![u].at = "save"]
        /\ allowlist' = allowlist \cup {tool[user[u].id]}
    BY <1>2 DEF Add, AddEntry, At
  <2>2. user[u].id \in Requests /\ tool[user[u].id] \in RiskyTools
    BY <1>0, <2>1 DEF UserInv, RequestInv
  <2>3. ApprovalTypeOK'
    BY <1>0, <2>1, <2>2 DEF ApprovalTypeOK, requestVars, programVars
  <2>4. RequestInv'
    BY <1>0, <2>1 DEF RequestInv, ApprovalTypeOK, requestVars, programVars
  <2>5. UserInv'
    BY <1>0, <2>1, <2>2 DEF UserInv, Writers, ApprovalTypeOK, requestVars, programVars
  <2>6. Writers' = Writers
    BY <1>0, <2>1 DEF Writers, ApprovalTypeOK
  <2>7. AlwaysIsKept'
    BY <1>0, <2>1, <2>6 DEF AlwaysIsKept, programVars
  <2> QED BY <2>3, <2>4, <2>5, <2>7 DEF ApprovalInv
<1>3. CASE OpenFile(u)
  <2>1. /\ UNCHANGED <<requestVars, allowlist, saved, broken, programVars>>
        /\ user[u].at = "save" /\ disk' = Nothing
        /\ user' = [user EXCEPT ![u].at = "write", ![u].copy = allowlist]
    BY <1>3 DEF OpenFile
  <2>2. ApprovalTypeOK'
    <3>1. user' \in [Users -> [at : {"idle", "add", "save", "write", "send"},
                              id : Requests \cup {Nothing}, action : Actions \cup {"none"},
                              copy : SUBSET RiskyTools]]
      <4> DEFINE rec == [at : {"idle", "add", "save", "write", "send"},
                         id : Requests \cup {Nothing}, action : Actions \cup {"none"},
                         copy : SUBSET RiskyTools]
      <4>1. user \in [Users -> rec] /\ allowlist \in SUBSET RiskyTools
        BY <1>0 DEF ApprovalTypeOK
      <4>2. \A v \in rec, a \in SUBSET RiskyTools :
                [v EXCEPT !.at = "write", !.copy = a] \in rec
        OBVIOUS
      <4>3. user' = [user EXCEPT ![u] = [user[u] EXCEPT !.at = "write", !.copy = allowlist]]
        BY <2>1
      <4>4. [user[u] EXCEPT !.at = "write", !.copy = allowlist] \in rec
        BY <4>1, <4>2
      <4> HIDE DEF rec
      <4>5. user' \in [Users -> rec]
        BY <4>1, <4>3, <4>4
      <4> QED BY <4>5 DEF rec
    <3>2. disk' \in (SUBSET RiskyTools) \cup {Nothing}
      BY <2>1
    <3> QED BY <1>0, <2>1, <3>1, <3>2 DEF ApprovalTypeOK, requestVars, programVars
  <2>3. RequestInv'
    BY <1>0, <2>1 DEF RequestInv, ApprovalTypeOK, requestVars, programVars
  <2>4. UserInv'
    BY <1>0, <2>1 DEF UserInv, ApprovalTypeOK, requestVars, programVars
  <2>5. u \in Writers'
    BY <1>0, <2>1 DEF Writers, ApprovalTypeOK
  <2>6. AlwaysIsKept'
    BY <1>0, <2>1, <2>5 DEF AlwaysIsKept, programVars
  <2> QED BY <2>2, <2>3, <2>4, <2>6 DEF ApprovalInv
<1>4. CASE WriteFile(u)
  <2>1. /\ UNCHANGED <<requestVars, allowlist, broken, programVars>>
        /\ user[u].at = "write" /\ disk' = user[u].copy
        /\ saved' = saved \cup {tool[user[u].id]}
        /\ user' = [user EXCEPT ![u].at = "send", ![u].copy = {}]
    BY <1>4 DEF WriteFile
  <2>2. user[u].copy = allowlist /\ tool[user[u].id] \in allowlist /\ up
        /\ allowlist \in SUBSET RiskyTools
    BY <1>0, <2>1 DEF UserInv, RequestInv, ApprovalTypeOK
  <2>3. ApprovalTypeOK'
    BY <1>0, <2>1, <2>2 DEF ApprovalTypeOK, requestVars, programVars
  <2>4. RequestInv'
    BY <1>0, <2>1 DEF RequestInv, ApprovalTypeOK, requestVars, programVars
  <2>5. UserInv'
    BY <1>0, <2>1 DEF UserInv, ApprovalTypeOK, requestVars, programVars
  <2>6. saved' \subseteq allowlist' /\ saved' \subseteq disk' /\ disk' # Nothing
    BY <1>0, <2>1, <2>2, ApprovalAssumption DEF AlwaysIsKept
  <2>7. AlwaysIsKept'
    BY <2>6 DEF AlwaysIsKept
  <2> QED BY <2>3, <2>4, <2>5, <2>7 DEF ApprovalInv
<1>5. CASE SaveFails(u)
  <2>1. /\ UNCHANGED <<requestVars, allowlist, disk, saved, programVars>>
        /\ broken' = (broken \/ user[u].at = "write") /\ broken' \in BOOLEAN
        /\ user' = [user EXCEPT ![u] = Idle]
    BY <1>5 DEF SaveFails
  <2>2. ApprovalTypeOK'
    BY <1>0, <2>1 DEF ApprovalTypeOK, Idle, requestVars, programVars
  <2>3. RequestInv'
    BY <1>0, <2>1, ApprovalAssumption DEF RequestInv, ApprovalTypeOK, Idle, requestVars,
        programVars
  <2>4. UserInv'
    BY <1>0, <2>1 DEF UserInv, ApprovalTypeOK, Idle, requestVars, programVars
  <2>5. AlwaysIsKept'
    <3>1. CASE user[u].at = "write"
      <4>1. broken'
        BY <2>1, <3>1
      <4> QED BY <1>0, <2>1, <4>1 DEF AlwaysIsKept, programVars
    <3>2. CASE user[u].at # "write"
      <4>1. Writers' = Writers
        BY <1>0, <2>1, <3>2 DEF Writers, ApprovalTypeOK, Idle
      <4>2. broken => broken'
        BY <2>1
      <4> QED BY <1>0, <2>1, <4>1, <4>2 DEF AlwaysIsKept, programVars
    <3> QED BY <3>1, <3>2
  <2> QED BY <2>2, <2>3, <2>4, <2>5 DEF ApprovalInv
<1>6. CASE Send(u)
  <2>1. /\ UNCHANGED <<tool, manager, over, handler, listVars, programVars>>
        /\ user[u].at = "send" /\ user' = [user EXCEPT ![u] = Idle]
    BY <1>6 DEF Send
  <2>2. PICK r \in Requests, a \in Actions : r = user[u].id /\ a = user[u].action
    BY <1>0, <2>1 DEF UserInv
  <2>3. /\ handler[r] \notin {"none", "asked"}
        /\ answer' = IF answer[r] = "none" THEN [answer EXCEPT ![r] = a] ELSE answer
        /\ first' = IF answer[r] = "none" /\ first[r] = "none"
                    THEN [first EXCEPT ![r] = a] ELSE first
    BY <1>0, <1>6, <2>1, <2>2 DEF Send, UserInv
  <2>4. ApprovalTypeOK'
    BY <1>0, <2>1, <2>3 DEF ApprovalTypeOK, Idle, listVars, programVars
  <2>5. RequestInv'
    <3>1. handler[r] = "approved" => first[r] \in {"once", "always"}
      BY <1>0, <2>2 DEF RequestInv
    <3>2. handler[r] = "denied" => first[r] = "deny"
      BY <1>0 DEF RequestInv
    <3>3. \A q \in Requests \ {r} : answer'[q] = answer[q] /\ first'[q] = first[q]
      BY <1>0, <2>3 DEF ApprovalTypeOK
    <3>4. handler[r] \in {"forwarding", "waiting"} => answer'[r] = first'[r]
      BY <1>0, <2>3 DEF RequestInv, ApprovalTypeOK
    <3>5. first[r] # "none" => first' = first
      BY <2>3
    <3>6. \A v \in Users : user'[v].id = user[v].id \/ user'[v].id = Nothing
      BY <1>0, <2>1 DEF ApprovalTypeOK, Idle
    <3>7. ASSUME NEW q \in Requests, handler[q] = "approved"
          PROVE  \/ first'[q] \in {"once", "always"}
                 \/ /\ first'[q] = "none" /\ tool[q] \in allowlist
                    /\ \A v \in Users : user'[v].id # q
      <4>1. CASE q = r
        BY <3>1, <3>5, <3>7, <4>1
      <4>2. CASE q # r
        BY <1>0, <3>3, <3>6, <3>7, <4>2, ApprovalAssumption DEF RequestInv
      <4> QED BY <4>1, <4>2
    <3> QED BY <1>0, <2>1, <2>3, <3>2, <3>3, <3>4, <3>5, <3>7
            DEF RequestInv, listVars, programVars
  <2>6. UserInv'
    BY <1>0, <2>1 DEF UserInv, ApprovalTypeOK, Idle, listVars, programVars
  <2>7. Writers' = Writers
    BY <1>0, <2>1 DEF Writers, ApprovalTypeOK, Idle
  <2>8. AlwaysIsKept'
    BY <1>0, <2>1, <2>7 DEF AlwaysIsKept, listVars, programVars
  <2> QED BY <2>4, <2>5, <2>6, <2>8 DEF ApprovalInv
<1> QED BY <1>1, <1>2, <1>3, <1>4, <1>5, <1>6 DEF AnswerStep

\* The end of the program, and its start.
LEMMA RestartStep ==
    ASSUME ApprovalInv, Crash \/ Restart
    PROVE  ApprovalInv'
<1>0. ApprovalTypeOK /\ RequestInv /\ UserInv /\ AlwaysIsKept
  BY DEF ApprovalInv
<1>1. CASE Crash
  <2>1. ApprovalTypeOK'
    <3>1. broken' \in BOOLEAN /\ crashes' \in 0..MaxCrashes
      BY <1>0, <1>1, ApprovalAssumption DEF Crash, ApprovalTypeOK
    <3> QED BY <1>0, <1>1, <3>1 DEF Crash, ApprovalTypeOK, Idle
  <2>2. RequestInv' /\ UserInv'
    BY <1>1 DEF Crash, RequestInv, UserInv, Idle
  <2>3. AlwaysIsKept'
    BY <1>0, <1>1 DEF Crash, AlwaysIsKept
  <2> QED BY <2>1, <2>2, <2>3 DEF ApprovalInv
<1>2. CASE Restart
  <2>1. \A r \in Requests : handler[r] = "none"
    BY <1>0, <1>2 DEF Restart, RequestInv
  <2>2. \A u \in Users : user[u].at = "idle"
    BY <1>0, <2>1 DEF UserInv
  <2>3. ApprovalTypeOK'
    BY <1>0, <1>2 DEF Restart, ApprovalTypeOK, requestVars
  <2>4. RequestInv' /\ UserInv'
    BY <1>0, <1>2, <2>1, <2>2 DEF Restart, RequestInv, UserInv, requestVars
  <2>5. AlwaysIsKept'
    BY <1>0, <1>2 DEF Restart, AlwaysIsKept
  <2> QED BY <2>3, <2>4, <2>5 DEF ApprovalInv
<1> QED BY <1>1, <1>2

\* The invariant holds of approvals always.
LEMMA ApprovalInductive == ApprovalSpec => []ApprovalInv
<1>1. ApprovalInv /\ [ApprovalNext]_approvalVars => ApprovalInv'
  <2> SUFFICES ASSUME ApprovalInv, [ApprovalNext]_approvalVars PROVE ApprovalInv'
    OBVIOUS
  <2>1. CASE UNCHANGED approvalVars
    BY <2>1 DEF ApprovalInv, ApprovalTypeOK, RequestInv, UserInv, AlwaysIsKept, Writers,
      approvalVars, requestVars, listVars, programVars
  <2>2. CASE ApprovalNext
    BY <2>2, RequestStep, AnswerStepKeeps, RestartStep DEF ApprovalNext
  <2> QED BY <2>1, <2>2
<1> QED BY <1>1, ApprovalInitInv, PTL DEF ApprovalSpec

\* The variables of approvals have values of their types.
THEOREM ApprovalTypeCorrect == ApprovalSpec => []ApprovalTypeOK
<1>1. ApprovalInv => ApprovalTypeOK
  BY DEF ApprovalInv
<1> QED BY <1>1, ApprovalInductive, PTL

\* The first response that a request gets decides it, whatever other users send
\* meanwhile or later, and without one only the allowlist approves it.
THEOREM FirstAnswerDecidesHolds == ApprovalSpec => []FirstAnswerDecides
<1>1. ApprovalInv => FirstAnswerDecides
  BY DEF ApprovalInv, RequestInv, FirstAnswerDecides
<1> QED BY <1>1, ApprovalInductive, PTL

\* What a user was told is always allowed is in memory and in the file, through
\* concurrent answers, failed saves and restarts; the file is cut short only
\* while it is written or after a write was cut short.
THEOREM AlwaysIsKeptHolds == ApprovalSpec => []AlwaysIsKept
<1>1. ApprovalInv => AlwaysIsKept
  BY DEF ApprovalInv
<1> QED BY <1>1, ApprovalInductive, PTL

-----------------------------------------------------------------------------
\* The composition that is model-checked is both components at once, with the
\* fairness of both: whatever is proved of either above holds of it too.
THEOREM PartsAreComponents == PartSpec => Spec /\ ApprovalSpec
<1>1. PartInit => Init /\ ApprovalInit
  BY DEF PartInit
<1>2. [PartNext]_<<part, vars, approvalVars>> => [Next]_vars /\ [ApprovalNext]_approvalVars
  BY DEF PartNext
<1> QED BY <1>1, <1>2, PTL DEF PartSpec, Spec, ApprovalSpec

\* The values of both components keep their types side by side.
THEOREM ToolsTypeCorrect == PartSpec => []ToolsTypeOK
<1>1. TypeOK /\ ApprovalTypeOK => ToolsTypeOK
  BY DEF ToolsTypeOK
<1> QED BY <1>1, PartsAreComponents, TypeCorrect, ApprovalTypeCorrect, PTL
=============================================================================

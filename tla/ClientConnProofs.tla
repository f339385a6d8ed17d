-------------------------- MODULE ClientConnProofs --------------------------
(***************************************************************************)
(* Proofs about the supervision of a plugin and the calls through it, for  *)
(* any number of calls, crashes and failures.                              *)
(***************************************************************************)
EXTENDS ClientConn, SequenceTheorems, TLAPS

-----------------------------------------------------------------------------
(* PluginService.                                                          *)

\* The process that may be running, by the progress of keepAlive and Close.
ProcInv ==
  /\ launching # 0 <=> kpc \in {"dispense", "newService"}
  /\ kpc \in {"idle", "launch"} => running = {}
  /\ kpc \in {"dispense", "newService"} => running \subseteq {launching}
  /\ kpc \in {"check", "select", "done"} => running \subseteq {client}
  /\ spc \in {"service", "kill", "done"} => kpc = "done"
  /\ spc = "done" => running = {}

PSInv == PSTypeOK /\ ProcInv

\* A fault of a call, which counts and does nothing else to the supervision.
CallFault ==
  Fault /\ UNCHANGED <<running, launches, client, launching, pluginConn, kpc,
                       serviceCh, stopCh, spc>>

\* The invariant of the supervision implies that no process is orphaned.
LEMMA NoOrphansFromInv == ASSUME PSInv PROVE NoOrphans
<1> USE DEF PSInv, PSTypeOK, ProcInv
<1>1. running = {} \/ running \subseteq {launching} \/ running \subseteq {client}
  OBVIOUS
<1>2. spc = "done" => running = {}
  OBVIOUS
<1> QED
  BY ONLY <1>1, <1>2 DEF NoOrphans

\* Before Start nothing runs.
LEMMA PSInitInv == ASSUME MaxFaultsAssumption, PSInit PROVE PSInv
<1>1. serviceCh \in BOOLEAN /\ stopCh \in BOOLEAN
  BY DEF PSInit
<1> QED
  BY <1>1 DEF PSInit, PSInv, PSTypeOK, ProcInv, MaxFaultsAssumption

\* Every step of keepAlive, of Close, and every crash preserves the invariant.
LEMMA PSStepInv ==
  ASSUME MaxFaultsAssumption, PSInv, [PSNext]_psVars \/ CallFault
  PROVE  PSInv' /\ launches <= launches'
<1> USE DEF PSInv, PSTypeOK, ProcInv, procVars, MaxFaultsAssumption
<1>1. CASE Start
  BY <1>1 DEF Start
<1>2. CASE CheckHealthy
  BY <1>2 DEF CheckHealthy
<1>3. CASE CheckFailed
  BY <1>3 DEF CheckFailed, Fault
<1>4. CASE LaunchProcess
  BY <1>4 DEF LaunchProcess
<1>5. CASE LaunchFails
  BY <1>5 DEF LaunchFails, Fault
<1>6. CASE Dispense
  BY <1>6 DEF Dispense, Launched
<1>7. CASE NewService
  BY <1>7 DEF NewService, Launched
<1>8. CASE Abort
  BY <1>8 DEF Abort, Fault
<1>9. CASE KeepAliveTick
  BY <1>9 DEF KeepAliveTick
<1>10. CASE KeepAliveStop
  BY <1>10 DEF KeepAliveStop
<1>11. CASE Close
  BY <1>11 DEF Close
<1>12. CASE CloseWaited
  BY <1>12 DEF CloseWaited
<1>13. CASE ServiceClosed
  BY <1>13 DEF ServiceClosed
<1>14. CASE CloseClient
  BY <1>14 DEF CloseClient
<1>15. ASSUME NEW p \in running, Crash(p) PROVE PSInv' /\ launches <= launches'
  BY <1>15 DEF Crash, Fault
<1>16. CASE CallFault
  BY <1>16 DEF CallFault, Fault
<1>17. CASE UNCHANGED psVars
  BY <1>17 DEF psVars
<1> QED
  BY <1>1, <1>2, <1>3, <1>4, <1>5, <1>6, <1>7, <1>8, <1>9, <1>11, <1>14, <1>15,
     <1>16, <1>17, <1>10, <1>12, <1>13 DEF PSNext, PSCall, KeepAliveStep

\* Every step of the composition is one of the supervision, or a call's fault.
LEMMA SupervisionStep == [Next]_vars => [PSNext]_psVars \/ CallFault
BY DEF Next, Supervise, PSNext, CallClose, ServiceCloseReturned, StopServers,
       Arrive, EndContext, CallStep, WaitCtx, Load, Answered, TerminalError,
       DeadlineExceeded, RefreshedByOther, Refresh, NewClient, NewClientFails,
       Dial, DialFails, GiveUp, Retry, CallFault, vars, psVars, procVars

-----------------------------------------------------------------------------
(* The inductive invariant of the connection.                              *)

\* What c.mu protects.  Without it held, only the current connection is served;
\* while refresh holds it, the connection it replaces is closed and the one it
\* makes is served, and no other call knows that one.
RefreshInv ==
  /\ mu = NoCall => serving \subseteq {cc}
  /\ \A c \in AllCalls : mu = c =>
       /\ cc \notin open
       /\ serving \subseteq IF pc[c] = "dial" THEN {held[c]} ELSE {}
  /\ \A c \in AllCalls : pc[c] = "dial" =>
       /\ held[c] \in 1..conns /\ held[c] # cc
       /\ \A d \in AllCalls : d # c => held[d] # held[c]
       /\ ~stopCh => held[c] \in serving

\* A call that is about to replace a connection has had an error on it.
FailedInv ==
  \A c \in AllCalls : pc[c] = "refresh" /\ held[c] \in open => held[c] \in failed

ServedInv == cc \in open /\ ~stopCh => cc \in serving

ConnInv ==
  /\ PSInv /\ TypeOK /\ 0 \notin open
  /\ RefreshInv /\ ServedInv /\ FailedInv

\* The connections of a longer list lead to processes, too.
LEMMA PeerGrows ==
  ASSUME NEW n \in Nat, NEW S, NEW f \in [1..n -> S], NEW x \in S
  PROVE  Append(f, x) \in [1..(n + 1) -> S]
<1>1. f \in Seq(S) /\ Len(f) = n
  OBVIOUS
<1>2. Append(f, x) \in Seq(S) /\ Len(Append(f, x)) = n + 1
  BY <1>1
<1>3. \A y \in Seq(S) : y \in [1..Len(y) -> S]
  BY LenProperties
<1> QED BY <1>2, <1>3

\* The invariant holds before Start and before any call.
LEMMA InitConnInv ==
  ASSUME MaxFaultsAssumption, CallsAssumption, Init PROVE ConnInv
<1>1. PSInv
  BY PSInitInv DEF Init
<1>2. leaked \in BOOLEAN
  BY DEF Init
<1>3. TypeOK
  BY <1>1, <1>2 DEF Init, TypeOK, PSInv, AllCalls, CallsAssumption
<1> QED
  BY <1>1, <1>3 DEF Init, ConnInv, RefreshInv, ServedInv, FailedInv, AllCalls, CallsAssumption

\* Every step of a call preserves it.
LEMMA CallConnInv ==
  ASSUME CallsAssumption, ConnInv, PSInv', launches <= launches',
         NEW c \in AllCalls,
         \/ Arrive(c) \/ CallStep(c)
         \/ \E how \in {"canceled", "deadline"} : EndContext(c, how)
  PROVE  ConnInv'
<1> USE DEF ConnInv, PSInv, TypeOK, RefreshInv, ServedInv, FailedInv, CallsAssumption,
            psVars, procVars, connVars, callVars
<1>1. CASE Arrive(c)
  BY <1>1 DEF Arrive, goto
<1>2. CASE \E how \in {"canceled", "deadline"} : EndContext(c, how)
  BY <1>2 DEF EndContext
<1>3. CASE WaitCtx(c)
  <2> USE <1>3 DEF WaitCtx
  <2>1. CASE goto(c, "load") /\ UNCHANGED <<held, ctx>>
    BY <2>1 DEF goto
  <2>2. CASE return(c, "err")
    BY <2>2 DEF return, goto
  <2> QED BY <2>1, <2>2
<1>4. CASE Load(c)
  BY <1>4 DEF Load, goto
<1>5. CASE Answered(c)
  BY <1>5 DEF Answered, return, goto
<1>6. CASE TerminalError(c)
  <2> USE <1>6 DEF TerminalError
  <2>1. CASE goto(c, "refresh") /\ UNCHANGED <<held, ctx>>
    BY <2>1 DEF goto
  <2>2. CASE return(c, "err")
    BY <2>2 DEF return, goto
  <2> QED BY <2>1, <2>2
<1>7. CASE DeadlineExceeded(c)
  BY <1>7 DEF DeadlineExceeded, return, goto
<1>8. CASE RefreshedByOther(c)
  <2> USE <1>8 DEF RefreshedByOther
  <2>1. CASE cc # 0 /\ held' = [held EXCEPT ![c] = cc] /\ goto(c, "invoke") /\ UNCHANGED ctx
    BY <2>1 DEF goto
  <2>2. ASSUME NEW l \in {"err", "nil"}, return(c, l) PROVE ConnInv'
    BY <2>2 DEF return, goto
  <2> QED BY <2>1, <2>2
<1>9. CASE Refresh(c)
  BY <1>9 DEF Refresh, goto
<1>10. CASE NewClient(c)
  <2> USE <1>10 DEF NewClient
  <2>1. pluginConn \in 1..launches /\ peer' \in [1..conns' -> 1..launches']
    BY PeerGrows DEF PSTypeOK
  <2>2. TypeOK'
    BY <2>1 DEF goto
  <2> QED BY <2>1, <2>2 DEF goto
<1>11. CASE NewClientFails(c)
  <2>0. leaked' \in BOOLEAN /\ UNCHANGED <<conns, peer, open, serving, cc, failed>>
    <3>1. leaked' \in {leaked, TRUE} /\ leaked \in BOOLEAN
      BY <1>11 DEF NewClientFails
    <3>2. leaked' \in BOOLEAN
      BY ONLY <3>1, Zenon
    <3> QED BY <1>11, <3>2 DEF NewClientFails
  <2>p. pc[c] = "try" /\ UNCHANGED <<stopCh, launches>>
    BY <1>11 DEF NewClientFails
  <2>1. CASE goto(c, "backoff") /\ UNCHANGED <<mu, held, ctx>>
    BY <2>0, <2>p, <2>1 DEF goto
  <2>2. CASE return(c, "err") /\ mu' = NoCall
    BY <2>0, <2>p, <2>2 DEF return, goto
  <2> QED BY <1>11, <2>1, <2>2 DEF NewClientFails, AttemptFailed
<1>12. CASE Dial(c)
  BY <1>12 DEF Dial, goto
<1>13. CASE DialFails(c)
  <2> USE <1>13 DEF DialFails
  <2>1. CASE goto(c, "backoff") /\ UNCHANGED <<mu, held, ctx>>
    BY <2>1 DEF goto
  <2>2. CASE return(c, "err") /\ mu' = NoCall
    BY <2>2 DEF return, goto
  <2> QED BY <2>1, <2>2 DEF AttemptFailed
<1>14. CASE GiveUp(c)
  BY <1>14 DEF GiveUp, return, goto
<1>15. CASE Retry(c)
  BY <1>15 DEF Retry, goto
<1> QED
  BY <1>1, <1>2, <1>3, <1>4, <1>5, <1>6, <1>7, <1>8, <1>9, <1>10, <1>11, <1>12, <1>13, <1>14, <1>15 DEF CallStep

\* stopCh is never opened again.
LEMMA StopStays == ASSUME PSCall, stopCh PROVE stopCh'
BY DEF PSCall, Start, KeepAliveStep, CheckHealthy, CheckFailed, LaunchProcess,
       LaunchFails, Dispense, NewService, Abort, KeepAliveTick, KeepAliveStop,
       Close, CloseWaited, CloseClient, Crash

\* Every step preserves the invariant.
LEMMA StepConnInv ==
  ASSUME MaxFaultsAssumption, CallsAssumption, ConnInv, [Next]_vars PROVE ConnInv'
<1>1. PSInv' /\ launches <= launches'
  BY SupervisionStep, PSStepInv DEF ConnInv
<1>2. ASSUME NEW c \in AllCalls,
             \/ Arrive(c) \/ CallStep(c)
             \/ \E how \in {"canceled", "deadline"} : EndContext(c, how)
      PROVE  ConnInv'
  BY <1>1, <1>2, CallConnInv
<1> USE <1>1 DEF ConnInv, PSInv, TypeOK, RefreshInv, ServedInv, FailedInv, connVars, callVars
<1>3. CASE Supervise
  <2>1. UNCHANGED <<connVars, callVars>> /\ (stopCh => stopCh')
    BY <1>3, StopStays DEF Supervise
  <2>2. peer' \in [1..conns' -> 1..launches']
    BY <2>1 DEF PSTypeOK
  <2> QED BY <2>1, <2>2
<1>4. CASE CallClose
  BY <1>4 DEF CallClose, goto, psVars, procVars, AllCalls, CallsAssumption
<1>5. CASE ServiceCloseReturned
  BY <1>5 DEF ServiceCloseReturned, ServiceClosed, procVars
<1>6. CASE StopServers
  BY <1>6 DEF StopServers, psVars, procVars
<1>7. CASE UNCHANGED vars
  BY <1>7 DEF vars, psVars, procVars
<1> QED
  BY <1>2, <1>3, <1>4, <1>5, <1>6, <1>7 DEF Next

-----------------------------------------------------------------------------
(* The theorems.                                                           *)

\* The invariant holds in every reachable state.
THEOREM ConnInvariance ==
  ASSUME MaxFaultsAssumption, CallsAssumption PROVE Spec => []ConnInv
<1>1. Init => ConnInv
  BY InitConnInv
<1>2. ConnInv /\ [Next]_vars => ConnInv'
  BY StepConnInv
<1> QED BY <1>1, <1>2, PTL DEF Spec

\* Every variable keeps its type, and c.mu is held exactly from refresh's first
\* attempt to its return, whatever fails in between.
THEOREM TypeCorrect ==
  ASSUME MaxFaultsAssumption, CallsAssumption PROVE Spec => []TypeOK
<1>1. ConnInv => TypeOK
  BY DEF ConnInv
<1> QED BY <1>1, ConnInvariance, PTL

\* Whatever fails and crashes, at most one plugin process runs, it is the one
\* supervised or being launched, and none is left when Close has returned.
THEOREM NoOrphansCorrect ==
  ASSUME MaxFaultsAssumption, CallsAssumption PROVE Spec => []NoOrphans
<1>1. ConnInv => NoOrphans
  BY NoOrphansFromInv DEF ConnInv
<1> QED BY <1>1, ConnInvariance, PTL

\* The supervision alone, without the calls, leaves no process either.
THEOREM SupervisionCorrect ==
  ASSUME MaxFaultsAssumption PROVE PSSpec => []NoOrphans
<1>1. PSInit => PSInv
  BY PSInitInv
<1>2. PSInv /\ [PSNext]_psVars => PSInv'
  BY PSStepInv
<1>3. PSInv => NoOrphans
  BY NoOrphansFromInv
<1> QED BY <1>1, <1>2, <1>3, PTL DEF PSSpec

\* The servers of a connection that newClient made are up as long as it is, and
\* no longer; those of an attempt that newClient gave up are outside of this.
THEOREM ServersCorrect ==
  ASSUME MaxFaultsAssumption, CallsAssumption PROVE Spec => []ServersMatch
<1>1. ConnInv => ServersMatch
  <2> SUFFICES ASSUME ConnInv PROVE ServersMatch
    OBVIOUS
  <2> QED
    BY DEF ConnInv, TypeOK, RefreshInv, ServedInv, ServersMatch
<1> QED BY <1>1, ConnInvariance, PTL

\* refresh closes a connection only if some call had a terminal error on it.
THEOREM ReplacementCorrect ==
  ASSUME MaxFaultsAssumption, CallsAssumption PROVE Spec => OnlyFailedReplaced
<1>1. ConnInv /\ [Next]_vars => [open \ open' \subseteq failed]_vars
  <2> SUFFICES ASSUME ConnInv, Next PROVE open \ open' \subseteq failed
    OBVIOUS
  <2>1. ASSUME NEW c \in AllCalls, Refresh(c) PROVE open \ open' \subseteq failed
    BY <2>1 DEF Refresh, ConnInv, FailedInv
  <2>2. (\A c \in AllCalls : ~Refresh(c)) => open \subseteq open'
    BY DEF Next, Supervise, CallClose, ServiceCloseReturned, StopServers, Arrive,
       EndContext, CallStep, WaitCtx, Load, Answered, TerminalError,
       DeadlineExceeded, RefreshedByOther, NewClient, NewClientFails, Dial,
       DialFails, GiveUp, Retry, connVars
  <2> QED BY <2>1, <2>2
<1> QED BY <1>1, ConnInvariance, PTL DEF Spec, OnlyFailedReplaced
=============================================================================

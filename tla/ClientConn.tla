----------------------------- MODULE ClientConn -----------------------------
(***************************************************************************)
(* net.clientConn (pkg/loop/internal/net/client.go): calls through a       *)
(* connection to the plugin that is replaced when it breaks, composed with *)
(* the supervision of the plugin process (PluginService).                  *)
(*                                                                         *)
(* A call is one Invoke or NewStream by a caller that first waits for the  *)
(* service (WaitCtx); Closer is the Service.Close of PluginService.Close.  *)
(* Connections are numbered in the order they are made, 0 is nil.  refresh *)
(* holds c.mu from its first step to its last, also while it backs off.    *)
(* newClient is the one of the Mercury factories: it serves what the       *)
(* plugin needs (the connection's deps) and asks the plugin for an id.  If *)
(* it fails after that, it returns nil deps: nobody closes what it served  *)
(* before stopCh does.                                                     *)
(***************************************************************************)
EXTENDS PluginService, Sequences

CONSTANTS
  Calls,    \* calls through the service
  Closer,   \* the call that closes the service
  NoCall

AllCalls == Calls \cup {Closer}

ASSUME CallsAssumption == NoCall \notin AllCalls /\ Closer \notin Calls

VARIABLES
  conns,    \* the number of connections made so far
  peer,     \* peer[i]: the process connection i leads to
  open,     \* the connections dialed and not closed
  serving,  \* the connections whose deps are served
  leaked,   \* servers that a failed newClient left behind are up
  cc,       \* c.cc
  mu,       \* the call that holds c.mu for writing, or NoCall
  pc,       \* pc[c]: where call c is
  held,     \* held[c]: the connection call c uses or is making
  ctx,      \* ctx[c]: its context: live, cancelled or past its deadline
  failed    \* history: the open connections that a call found broken

connVars == <<conns, peer, open, serving, leaked, cc, failed>>
callVars == <<mu, pc, held, ctx>>
vars == <<psVars, connVars, callVars>>

goto(c, l) == pc' = [pc EXCEPT ![c] = l]

\* The call is over; its local variables are gone.
return(c, l) ==
  /\ goto(c, l)
  /\ held' = [held EXCEPT ![c] = 0]
  /\ ctx' = [ctx EXCEPT ![c] = "live"]

\* The connection has been closed or its process is gone.
Broken(i) == i \notin open \/ peer[i] \notin running

-----------------------------------------------------------------------------
(* Invoke and NewStream.                                                   *)

\* A caller arrives.
Arrive(c) ==
  /\ c \in Calls
  /\ pc[c] = "idle"
  /\ goto(c, "wait")
  /\ UNCHANGED <<psVars, connVars, mu, held, ctx>>

\* The context of a call may end at any time while the call is under way.  The
\* closer's is made from stopCh, which is closed.
EndContext(c, how) ==
  /\ ctx[c] = "live"
  /\ pc[c] \notin {"idle", "ok", "err", "nil"}
  /\ c = Closer => how = "canceled"
  /\ ctx' = [ctx EXCEPT ![c] = how]
  /\ UNCHANGED <<psVars, connVars, mu, pc, held>>

WaitCtx(c) ==
  /\ pc[c] = "wait"
  /\ \/ serviceCh /\ goto(c, "load") /\ UNCHANGED <<held, ctx>>
     \/ (stopCh \/ ctx[c] # "live") /\ return(c, "err")
  /\ UNCHANGED <<psVars, connVars, mu>>

\* Service.Close, once keepAlive is gone.
CallClose ==
  /\ spc = "service"
  /\ pc[Closer] = "idle"
  /\ goto(Closer, "load")
  /\ UNCHANGED <<psVars, connVars, mu, held, ctx>>

\* c.cc is read under the lock.
Load(c) ==
  /\ pc[c] = "load"
  /\ mu = NoCall
  /\ held' = [held EXCEPT ![c] = cc]
  /\ goto(c, IF cc = 0 THEN "refresh" ELSE "invoke")
  /\ UNCHANGED <<psVars, connVars, mu, ctx>>

\* The plugin answers, with a result or with an error of its own.
Answered(c) ==
  /\ pc[c] = "invoke"
  /\ ~Broken(held[c])
  /\ return(c, "ok")
  /\ UNCHANGED <<psVars, connVars, mu>>

\* isErrTerminal: Unavailable, or Canceled, which is also what a cancelled
\* context gives.  A plugin that lives may answer so, too, which counts as a
\* fault.  Service.Close does not reconnect.
TerminalError(c) ==
  /\ pc[c] = "invoke"
  /\ IF Broken(held[c]) \/ ctx[c] = "canceled" THEN UNCHANGED faults ELSE Fault
  /\ failed' = failed \cup ({held[c]} \cap open)
  /\ IF c = Closer THEN return(c, "err")
                   ELSE goto(c, "refresh") /\ UNCHANGED <<held, ctx>>
  /\ UNCHANGED <<running, launches, client, launching, pluginConn, kpc,
                 serviceCh, stopCh, spc, conns, peer, open, serving, leaked,
                 cc, mu>>

DeadlineExceeded(c) ==
  /\ pc[c] = "invoke"
  /\ ctx[c] = "deadline"
  /\ return(c, "err")
  /\ UNCHANGED <<psVars, connVars, mu>>

-----------------------------------------------------------------------------
(* refresh.                                                                *)

\* Another call has replaced the connection.  If that call gave up after a
\* failed dial, c.cc is nil: this call returns context.Cause(ctx), nil while
\* its context is alive.
RefreshedByOther(c) ==
  /\ pc[c] = "refresh"
  /\ mu = NoCall
  /\ cc # held[c]
  /\ \/ /\ cc # 0
        /\ held' = [held EXCEPT ![c] = cc]
        /\ goto(c, "invoke")
        /\ UNCHANGED ctx
     \/ cc = 0 /\ return(c, IF ctx[c] = "live" THEN "nil" ELSE "err")
  /\ UNCHANGED <<psVars, connVars, mu>>

\* Mutants of Refresh: the comparison with orig is missing; the deps are not
\* closed.
RefreshAlways(c) ==
  /\ pc[c] = "refresh"
  /\ mu = NoCall
  /\ mu' = c
  /\ open' = open \ {cc}
  /\ failed' = failed \ {cc}
  /\ serving' = serving \ {cc}
  /\ goto(c, "try")
  /\ UNCHANGED <<psVars, conns, peer, leaked, cc, held, ctx>>
RefreshKeepDeps(c) ==
  /\ pc[c] = "refresh"
  /\ mu = NoCall
  /\ cc = held[c]
  /\ mu' = c
  /\ open' = open \ {cc}
  /\ failed' = failed \ {cc}
  /\ goto(c, "try")
  /\ UNCHANGED <<psVars, conns, peer, serving, leaked, cc, held, ctx>>

\* This call replaces it: close it and its deps, if it is not nil.
Refresh(c) ==
  /\ pc[c] = "refresh"
  /\ mu = NoCall
  /\ cc = held[c]
  /\ mu' = c
  /\ open' = open \ {cc}
  /\ failed' = failed \ {cc}
  /\ serving' = serving \ {cc}
  /\ goto(c, "try")
  /\ UNCHANGED <<psVars, conns, peer, leaked, cc, held, ctx>>

\* newClient succeeds.
NewClient(c) ==
  /\ pc[c] = "try"
  /\ pluginConn \in running
  /\ ctx[c] = "live"
  /\ conns' = conns + 1
  /\ peer' = Append(peer, pluginConn)
  /\ serving' = serving \cup {conns'}
  /\ held' = [held EXCEPT ![c] = conns']
  /\ goto(c, "dial")
  /\ UNCHANGED <<psVars, open, leaked, cc, failed, mu, ctx>>

\* An attempt has failed: give up if the context has ended, else back off.
AttemptFailed(c) ==
  IF ctx[c] = "live"
    THEN goto(c, "backoff") /\ UNCHANGED <<mu, held, ctx>>
    ELSE return(c, "err") /\ mu' = NoCall

\* newClient fails, before it has served anything or after.  CloseAll(deps...)
\* has nothing to close: all factories return nil deps with an error, also
\* those that have served a data source and a provider by then.
NewClientFails(c) ==
  /\ pc[c] = "try"
  /\ IF pluginConn \in running /\ ctx[c] = "live" THEN Fault ELSE UNCHANGED faults
  /\ leaked' \in {leaked, TRUE}
  /\ AttemptFailed(c)
  /\ UNCHANGED <<running, launches, client, launching, pluginConn, kpc,
                 serviceCh, stopCh, spc, conns, peer, open, serving, cc, failed>>

Dial(c) ==
  /\ pc[c] = "dial"
  /\ peer[held[c]] \in running
  /\ cc' = held[c]
  /\ open' = open \cup {cc'}
  /\ mu' = NoCall
  /\ goto(c, "invoke")
  /\ UNCHANGED <<psVars, conns, peer, serving, leaked, failed, held, ctx>>

\* c.cc is set to nil and the deps are closed.
DialFails(c) ==
  /\ pc[c] = "dial"
  /\ IF peer[held[c]] \in running THEN Fault ELSE UNCHANGED faults
  /\ cc' = 0
  /\ serving' = serving \ {held[c]}
  /\ AttemptFailed(c)
  /\ UNCHANGED <<running, launches, client, launching, pluginConn, kpc,
                 serviceCh, stopCh, spc, conns, peer, open, leaked, failed>>

\* Mutant of GiveUp: the lock is not released.
GiveUpLocked(c) ==
  /\ pc[c] = "backoff"
  /\ ctx[c] # "live"
  /\ return(c, "err")
  /\ UNCHANGED <<psVars, connVars, mu>>

GiveUp(c) ==
  /\ pc[c] = "backoff"
  /\ ctx[c] # "live"
  /\ return(c, "err")
  /\ mu' = NoCall
  /\ UNCHANGED <<psVars, connVars>>

Retry(c) ==
  /\ pc[c] = "backoff"
  /\ goto(c, "try")
  /\ UNCHANGED <<psVars, connVars, mu, held, ctx>>

\* BrokerExt.Serve: every server stops once stopCh is closed.
StopServers ==
  /\ stopCh
  /\ serving # {} \/ leaked
  /\ serving' = {}
  /\ leaked' = FALSE
  /\ UNCHANGED <<psVars, conns, peer, open, cc, failed, callVars>>

-----------------------------------------------------------------------------

Init ==
  /\ PSInit
  /\ conns = 0
  /\ peer = <<>>
  /\ open = {}
  /\ serving = {}
  /\ leaked = FALSE
  /\ cc = 0
  /\ failed = {}
  /\ mu = NoCall
  /\ pc = [c \in AllCalls |-> "idle"]
  /\ held = [c \in AllCalls |-> 0]
  /\ ctx = [c \in AllCalls |-> "live"]

Returned(c) == pc[c] \in {"ok", "err", "nil"}

\* What a call does by itself once it has arrived.
CallStep(c) ==
  \/ WaitCtx(c) \/ Load(c)
  \/ Answered(c) \/ TerminalError(c) \/ DeadlineExceeded(c)
  \/ RefreshedByOther(c) \/ Refresh(c)
  \/ NewClient(c) \/ NewClientFails(c) \/ Dial(c) \/ DialFails(c)
  \/ GiveUp(c) \/ Retry(c)

\* PluginService.Close goes on when Service.Close has returned.
ServiceCloseReturned ==
  /\ Returned(Closer)
  /\ ServiceClosed
  /\ UNCHANGED <<connVars, callVars>>

Supervise == PSCall /\ UNCHANGED <<connVars, callVars>>

Next ==
  \/ Supervise
  \/ CallClose \/ ServiceCloseReturned
  \/ StopServers
  \/ \E c \in AllCalls :
       \/ Arrive(c) \/ CallStep(c)
       \/ \E how \in {"canceled", "deadline"} : EndContext(c, how)

\* What Close does by itself.
CloseStep ==
  \/ (CloseWaited \/ CloseClient) /\ UNCHANGED <<connVars, callVars>>
  \/ CallClose \/ ServiceCloseReturned
  \/ EndContext(Closer, "canceled")

\* keepAlive's select takes stopCh in the end, a server's goroutine notices it,
\* and c.mu is handed to those who wait for it.  Nobody has to start or close
\* the service, or to end the context of a call.
Fairness ==
  /\ WF_vars(KeepAliveStep /\ UNCHANGED <<connVars, callVars>>)
  /\ SF_vars(KeepAliveStop /\ UNCHANGED <<connVars, callVars>>)
  /\ WF_vars(CloseStep)
  /\ WF_vars(StopServers)
  /\ \A c \in AllCalls : SF_vars(CallStep(c))

Spec == Init /\ [][Next]_vars /\ Fairness

-----------------------------------------------------------------------------
(* Properties.                                                             *)

\* Types; and the lock is held exactly from refresh's first attempt to its return.
TypeOK ==
  /\ PSTypeOK
  /\ conns \in Nat
  /\ peer \in [1..conns -> 1..launches]
  /\ open \cup serving \cup failed \subseteq 0..conns
  /\ leaked \in BOOLEAN
  /\ cc \in 0..conns
  /\ mu \in AllCalls \cup {NoCall}
  /\ \A c \in AllCalls : mu = c <=> pc[c] \in {"try", "dial", "backoff"}
  /\ pc \in [AllCalls -> {"idle", "wait", "load", "invoke", "refresh", "try",
                          "dial", "backoff", "ok", "err", "nil"}]
  /\ held \in [AllCalls -> 0..conns]
  /\ ctx \in [AllCalls -> {"live", "canceled", "deadline"}]

\* When several calls find the same connection broken, one of them replaces it
\* and the others use the new one: no call closes a connection that no call
\* had a terminal error on (the comparison with orig in refresh).
OnlyFailedReplaced == [][open \ open' \subseteq failed]_vars

\* The servers of a connection that was made, which the plugin calls back, are
\* up exactly as long as it: those of a replaced connection and of a failed
\* dial are closed, and an open connection has its own until stopCh is closed.
\* The servers of an attempt that newClient itself gave up are not among them
\* (`leaked'): no line of refresh closes those.
ServersMatch ==
  /\ serving \subseteq {cc} \cup {held[c] : c \in {d \in AllCalls : mu = d}}
  /\ cc \in open /\ ~stopCh => cc \in serving

\* However the plugin crashes and dials fail, the calls that have arrived all
\* return as long as the plugin is supervised: keepAlive brings a process back
\* and one of the calls that wait for the lock reconnects.
CallsGetThrough ==
  [](kpc # "idle" => <>(stopCh \/ \A c \in Calls : Returned(c) \/ pc[c] = "idle"))

\* Close returns, and in the end no server is up, not even one that a failed
\* newClient left behind; unless some caller whose context stays alive holds
\* c.mu for ever: refresh does not look at stopCh, and after keepAlive has
\* stopped nobody launches the process it tries to reach.
HeldUp ==
  \E c \in Calls :
    mu = c /\ ctx[c] = "live" /\ kpc = "done" /\ pluginConn \notin running
PluginCloses ==
  \/ spc = "wait" ~> spc = "done" /\ serving = {} /\ ~leaked
  \/ <>[]HeldUp

\* refresh's comment: it returns nil only if the context expires, so a call
\* that returns without an answer has an error to return.
NilOnlyWhenExpired == \A c \in AllCalls : pc[c] # "nil"
=============================================================================

------------------------------- MODULE Kl2tpd -------------------------------
(***************************************************************************)
(* The kl2tpd daemon (cmd/kl2tpd): one dynamic tunnel, its sessions, and a *)
(* pseudowire for each, pppd or a PPP bridge.  The package l2tp is taken   *)
(* for what TunnelEvents says of its events; HandleEvent runs in the       *)
(* goroutine that reports the event, and that goroutine waits for it.      *)
(***************************************************************************)
EXTENDS Naturals, FiniteSets

CONSTANTS Sessions,
          PwType,         \* [Sessions -> {"ppp", "pppac", "eth"}]
          BridgeFailures, \* steps of newPPPBridge that may fail
          MaxSignals      \* bound on the signals received

TheTunnel == "tunnel"
Goroutines == Sessions \cup {TheTunnel}

ASSUME Kl2tpdAssumption ==
  /\ TheTunnel \notin Sessions
  /\ PwType \in [Sessions -> {"ppp", "pppac", "eth"}]
  /\ BridgeFailures \subseteq
       {"pppoe socket", "pppoe channel", "pppol2tp socket", "pppol2tp channel", "bridge"}
  /\ MaxSignals \in Nat

VARIABLES tunnel, session, detached, \* the events: see TunnelEvents
          handling,   \* event each goroutine of package l2tp has in HandleEvent
          phase,      \* run(): "setup", "loop", "exit0" or "exit1"
          created,    \* sessions NewSession has been called for
          sessionPW,  \* the tunnel's map of pseudowires: value of each session
          mapMade,    \* the map exists
          pw,         \* each pseudowire: pppd, or the bridge
          fds,        \* descriptors of the bridge that are open
          closer,     \* closeSession's goroutine for each session
          signals, sigChan, shutdown,
          ctxClose,   \* the shutdown goroutine's Context.Close
          closeChan,  \* closed once shutdown is complete
          panicked

vars == <<tunnel, session, detached, handling, phase, created, sessionPW, mapMade, pw, fds, closer,
          signals, sigChan, shutdown, ctxClose, closeChan, panicked>>
events == <<tunnel, session, detached>>
pwVars == <<sessionPW, mapMade, pw, fds, closer>>
runVars == <<phase, created, signals, sigChan, shutdown, ctxClose, closeChan>>

Source == INSTANCE TunnelEvents

Init ==
  /\ Source!Init
  /\ handling = [g \in Goroutines |-> "none"]
  /\ phase = "setup" /\ created = {}
  /\ sessionPW = [s \in Sessions |-> "absent"] /\ mapMade = FALSE
  /\ pw = [s \in Sessions |-> "none"] /\ fds = [s \in Sessions |-> {}]
  /\ closer = [s \in Sessions |-> "none"]
  /\ signals = 0 /\ sigChan = FALSE /\ shutdown = FALSE
  /\ ctxClose = "no" /\ closeChan = FALSE /\ panicked = FALSE

Alive == phase \in {"setup", "loop"} /\ ~panicked

\* A goroutine of package l2tp reports an event: HandleEvent begins.
Report(g, ev) == /\ Alive /\ handling[g] = "none"
                 /\ handling' = [handling EXCEPT ![g] = ev]
                 /\ UNCHANGED <<runVars, pwVars, panicked>>

TunnelUp == ctxClose # "done" /\ Source!TunnelUp /\ Report(TheTunnel, "TunnelUp")

TunnelDown ==
  /\ \A s \in Sessions \ detached : handling[s] = "none"
  /\ Source!TunnelDown /\ Report(TheTunnel, "TunnelDown")

\* The peer's answer reaches a session through the tunnel's goroutine, which
\* handles no message until its own HandleEvent has returned.
SessionUp(s) ==
  /\ s \in created /\ handling[TheTunnel] # "TunnelUp"
  /\ Source!SessionUp(s) /\ Report(s, "SessionUp")

SessionDown(s) == Source!SessionDown(s) /\ Report(s, "SessionDown")
-----------------------------------------------------------------------------
(* HandleEvent.                                                            *)

Handled(g) == handling' = [handling EXCEPT ![g] = "none"]

HandleTunnelUp ==
  /\ Alive /\ handling[TheTunnel] = "TunnelUp"
  /\ mapMade' = TRUE
  /\ Handled(TheTunnel)
  /\ UNCHANGED <<events, runVars, sessionPW, pw, fds, closer, panicked>>

HandleTunnelDown ==
  /\ Alive /\ handling[TheTunnel] = "TunnelDown"
  /\ mapMade' = FALSE /\ sessionPW' = [s \in Sessions |-> "absent"]
  /\ Handled(TheTunnel)
  /\ UNCHANGED <<events, runVars, pw, fds, closer, panicked>>

\* closeSession starts a goroutine, which wg counts; a second Close of one
\* session would close its closeChan twice.
closeSession(s) ==
  /\ closer' = [closer EXCEPT ![s] = "started"]
  /\ panicked' = (closer[s] # "none")

\* The pseudowire is up and stored.
PseudowireUp(s) ==
  /\ sessionPW' = [sessionPW EXCEPT ![s] = "pw"]
  /\ pw' = [pw EXCEPT ![s] = "running"]
  /\ panicked' = ~mapMade
  /\ UNCHANGED <<mapMade, closer>>

\* Mutant: a pppd that did not start is waited for all the same.
NoPseudowireWaited(s) ==
  /\ sessionPW' = [sessionPW EXCEPT ![s] = "nil"]
  /\ pw' = [pw EXCEPT ![s] = "exited"]
  /\ IF mapMade THEN closeSession(s) ELSE panicked' = TRUE /\ UNCHANGED closer
  /\ UNCHANGED mapMade

\* It is not: nil is stored and the session closed.
NoPseudowire(s) ==
  /\ sessionPW' = [sessionPW EXCEPT ![s] = "nil"]
  /\ IF mapMade THEN closeSession(s) ELSE panicked' = TRUE /\ UNCHANGED closer
  /\ UNCHANGED <<pw, mapMade>>

UpHandled(s) ==
  /\ Alive /\ handling[s] = "SessionUp"
  /\ Handled(s)
  /\ UNCHANGED <<events, runVars>>

\* instantiatePPPPseudowire: the socket and pppd, either of which may fail.
StartPppd(s) == PwType[s] = "ppp" /\ UpHandled(s) /\ PseudowireUp(s) /\ UNCHANGED fds

PppdFails(s) == PwType[s] = "ppp" /\ UpHandled(s) /\ NoPseudowire(s) /\ UNCHANGED fds

\* What newPPPBridge leaves open when it fails at a step, and when it does not.
FdsLeft(step) ==
  CASE step \in {"pppoe socket", "pppoe channel", "pppol2tp socket", "bridge"} -> {}
    [] step = "pppol2tp channel" -> {"pppol2tp"}
    [] step = "none" -> {"pppoe", "pppoe ppp", "pppol2tp", "pppol2tp ppp"}

StartBridge(s) ==
  /\ PwType[s] = "pppac"
  /\ UpHandled(s) /\ PseudowireUp(s)
  /\ fds' = [fds EXCEPT ![s] = FdsLeft("none")]

BridgeFails(s) ==
  /\ PwType[s] = "pppac"
  /\ UpHandled(s) /\ NoPseudowire(s)
  /\ \E step \in BridgeFailures : fds' = [fds EXCEPT ![s] = FdsLeft(step)]

Unsupported(s) == PwType[s] = "eth" /\ UpHandled(s) /\ NoPseudowire(s) /\ UNCHANGED fds

\* Mutant: the pseudowire is forgotten and not closed.
closePseudowireForget(s) == sessionPW' = [sessionPW EXCEPT ![s] = "absent"] /\ UNCHANGED <<pw, fds>>

\* pppd is interrupted, if it is still there; the bridge's descriptors closed.
closePseudowire(s) ==
  /\ sessionPW' = [sessionPW EXCEPT ![s] = "absent"]
  /\ pw' = [pw EXCEPT ![s] = IF PwType[s] = "pppac" THEN "closed"
                             ELSE IF @ = "running" THEN "interrupted" ELSE @]
  /\ fds' = [fds EXCEPT ![s] = {}]

HandleSessionDown(s) ==
  /\ Alive /\ handling[s] = "SessionDown"
  /\ IF sessionPW[s] = "pw" THEN closePseudowire(s) ELSE UNCHANGED <<sessionPW, pw, fds>>
  /\ Handled(s)
  /\ UNCHANGED <<events, runVars, mapMade, closer, panicked>>
-----------------------------------------------------------------------------
(* The goroutines of closeSession and of each pppd.                        *)

\* Session.Close unlinks the session, then waits for its goroutine.
CallSessionClose(s) ==
  /\ Alive /\ closer[s] = "started"
  /\ closer' = [closer EXCEPT ![s] = "closing"]
  /\ Source!Detach(s)
  /\ UNCHANGED <<handling, runVars, sessionPW, mapMade, pw, fds, panicked>>

SessionCloseReturns(s) ==
  /\ Alive /\ closer[s] = "closing"
  /\ session[s] = "down" /\ handling[s] = "none"
  /\ closer' = [closer EXCEPT ![s] = "done"]
  /\ UNCHANGED <<events, handling, runVars, sessionPW, mapMade, pw, fds, panicked>>

\* pppd exits by itself, or because it was interrupted.
PppdExits(s) ==
  /\ Alive /\ PwType[s] = "ppp" /\ pw[s] \in {"running", "interrupted"}
  /\ pw' = [pw EXCEPT ![s] = "exited"]
  /\ UNCHANGED <<events, handling, runVars, sessionPW, mapMade, fds, closer, panicked>>
-----------------------------------------------------------------------------
(* run().                                                                  *)

NewSession(s) ==
  /\ Alive /\ phase = "setup" /\ s \notin created
  /\ created' = created \cup {s}
  /\ UNCHANGED <<events, handling, pwVars, phase, signals, sigChan, shutdown, ctxClose, closeChan, panicked>>

\* A tunnel or a session cannot be made: run returns 1 and the process exits.
SetupFails ==
  /\ Alive /\ phase = "setup" /\ created # Sessions
  /\ phase' = "exit1"
  /\ UNCHANGED <<events, handling, pwVars, created, signals, sigChan, shutdown, ctxClose, closeChan, panicked>>

SetupDone ==
  /\ Alive /\ phase = "setup" /\ created = Sessions
  /\ phase' = "loop"
  /\ UNCHANGED <<events, handling, pwVars, created, signals, sigChan, shutdown, ctxClose, closeChan, panicked>>

\* SIGINT or SIGTERM; sigChan holds one.
Signal ==
  /\ Alive /\ signals < MaxSignals
  /\ signals' = signals + 1 /\ sigChan' = TRUE
  /\ UNCHANGED <<events, handling, pwVars, phase, created, shutdown, ctxClose, closeChan, panicked>>

\* The first signal starts the shutdown goroutine, others are logged.
SelectSignal ==
  /\ Alive /\ phase = "loop" /\ sigChan
  /\ sigChan' = FALSE /\ shutdown' = TRUE
  /\ ctxClose' = IF shutdown THEN ctxClose ELSE "running"
  /\ UNCHANGED <<events, handling, pwVars, phase, created, signals, closeChan, panicked>>

\* pwCompleteChan: outside shutdown, the pseudowire's session is closed.
SelectPwComplete(s) ==
  /\ Alive /\ phase = "loop" /\ pw[s] = "exited"
  /\ pw' = [pw EXCEPT ![s] = "reported"]
  /\ IF shutdown THEN UNCHANGED <<closer, panicked>> ELSE closeSession(s)
  /\ UNCHANGED <<events, handling, runVars, sessionPW, mapMade, fds>>

SelectCloseChan ==
  /\ Alive /\ phase = "loop" /\ closeChan
  /\ phase' = "exit0"
  /\ UNCHANGED <<events, handling, pwVars, created, signals, sigChan, shutdown, ctxClose, closeChan, panicked>>

\* Context.Close has torn down the tunnel and the sessions it knows of.
CtxCloseReturns ==
  /\ Alive /\ ctxClose = "running"
  /\ tunnel # "up" /\ \A s \in Sessions \ detached : session[s] # "up" /\ handling[s] = "none"
  /\ handling[TheTunnel] = "none"
  /\ ctxClose' = "done"
  /\ UNCHANGED <<events, handling, pwVars, phase, created, signals, sigChan, shutdown, closeChan, panicked>>

\* Mutant: wg is not waited for.
WgWaitReturnsEarly ==
  /\ Alive /\ ctxClose = "done" /\ ~closeChan
  /\ closeChan' = TRUE
  /\ UNCHANGED <<events, handling, pwVars, phase, created, signals, sigChan, shutdown, ctxClose, panicked>>

\* wg counts a pppd until run has its completion, and each closeSession.
WgWaitReturns ==
  /\ Alive /\ ctxClose = "done" /\ ~closeChan
  /\ \A s \in Sessions : /\ PwType[s] = "ppp" => pw[s] \notin {"running", "interrupted", "exited"}
                         /\ closer[s] \notin {"started", "closing"}
  /\ closeChan' = TRUE
  /\ UNCHANGED <<events, handling, pwVars, phase, created, signals, sigChan, shutdown, ctxClose, panicked>>
-----------------------------------------------------------------------------
HandleEvent(s) ==
  StartPppd(s) \/ PppdFails(s) \/ StartBridge(s) \/ BridgeFails(s) \/ Unsupported(s) \/ HandleSessionDown(s)

Loop == SetupDone \/ SelectSignal \/ SelectCloseChan \/ CtxCloseReturns \/ WgWaitReturns

Next ==
  \/ TunnelUp \/ TunnelDown \/ HandleTunnelUp \/ HandleTunnelDown
  \/ SetupFails \/ Signal \/ Loop
  \/ \E s \in Sessions :
       \/ SessionUp(s) \/ SessionDown(s) \/ HandleEvent(s)
       \/ CallSessionClose(s) \/ SessionCloseReturns(s) \/ PppdExits(s)
       \/ NewSession(s) \/ SelectPwComplete(s)

Spec == Init /\ [][Next]_vars

\* Goroutines run; what is being closed reports down; an interrupted pppd exits.
\* Nothing makes a tunnel or a session come up, a pppd exit, or a signal come.
Fairness ==
  /\ WF_vars(Loop) /\ WF_vars(HandleTunnelUp \/ HandleTunnelDown)
  /\ WF_vars(ctxClose = "running" /\ TunnelDown)
  /\ \A s \in Sessions :
       /\ WF_vars(HandleEvent(s)) /\ WF_vars(NewSession(s)) /\ WF_vars(SelectPwComplete(s))
       /\ WF_vars(CallSessionClose(s)) /\ WF_vars(SessionCloseReturns(s))
       /\ WF_vars((ctxClose = "running" \/ s \in detached) /\ SessionDown(s))
       /\ WF_vars(pw[s] = "interrupted" /\ PppdExits(s))

FairSpec == Spec /\ Fairness
-----------------------------------------------------------------------------
\* No panic: the tunnel's map exists whenever a session comes up, and no session
\* is closed twice, whether its pseudowire fails to start, exits, or both its
\* peer and the pseudowire end it.
NeverPanics == ~panicked

\* Once a session has been reported down and that was handled, its pseudowire
\* has been told to stop and holds no descriptor.
PseudowireEndsWithSession ==
  \A s \in Sessions :
    session[s] = "down" /\ handling[s] = "none" => pw[s] # "running" /\ fds[s] = {}

\* When run returns 0 nothing of any session is left: no pppd, no bridge, no
\* Session.Close under way.
GracefulExitLeavesNothing ==
  phase = "exit0" =>
    \A s \in Sessions : /\ pw[s] \notin {"running", "interrupted"} /\ fds[s] = {}
                        /\ closer[s] \in {"none", "done"} /\ session[s] # "up"

\* A signal taken by run leads to a graceful exit.
ShutdownCompletes == shutdown ~> phase = "exit0"

\* The handler may be called from several goroutines: two of them never write
\* the maps at once.
HandlersDontOverlap == Cardinality({g \in Goroutines : handling[g] # "none"}) <= 1
=============================================================================

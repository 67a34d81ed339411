--------------------------- MODULE DynamicTunnel ---------------------------
(***************************************************************************)
(* A dynamic tunnel with its sessions: l2tp/l2tp_dynamic_tunnel.go and the *)
(* goroutines of l2tp/l2tp_dynamic_session.go (module DynamicSession).     *)
(*                                                                         *)
(* The actors are the goroutine of the tunnel (runTunnel), one per         *)
(* session, one per session message being sent (the go statement in        *)
(* runTunnel), the goroutine that drains sendChan while the tunnel closes, *)
(* the callers of NewSession and of the two Close methods, the transport   *)
(* and the peer.  All channels are unbuffered: a transfer is one step of   *)
(* both partners, and a handler runs up to its next channel operation in   *)
(* the same step.                                                          *)
(*                                                                         *)
(* The transport is what module Transport shows of it: send() is accepted  *)
(* while it is up and then completes, with an error if the transport fails *)
(* meanwhile; failing closes recvChan; send() on a failed transport blocks *)
(* for ever, and on a closed one panics.                                   *)
(*                                                                         *)
(* A message that handleMsg ignores (wrong version, wrong TID, HELLO)      *)
(* changes nothing and has no action.  The message builders fail only for  *)
(* IDs above 65535 and the IDs they get are 16 bit, so they do not here.   *)
(***************************************************************************)
EXTENDS DynamicSession, FiniteSets, Naturals

CONSTANTS TunnelMsgs,   \* tunnel messages the peer may send, a set
          SessionMsgs,  \* session messages the peer may send, a set
          MaxRecv,      \* bound: messages received from the peer
          Closers,      \* sessions whose user may call Session.Close
          TunnelCloses, \* whether the user may call Tunnel.Close
          XportFails,   \* whether the transport may fail by itself
          CausalPeer    \* whether the peer only answers what it was sent

VARIABLES fsm,         \* state of the tunnel's FSM
          tpc,         \* where the tunnel's goroutine is
          tlast,       \* runTunnel returns after what it is doing
          todo,        \* sessions it still has to tell, or to kill
          cur,         \* <<session, event>> it is blocked on, or <<>>
          isClosing, established, dp,
          xport,       \* "up", "down" (failed) or "closed"
          tx,          \* the transport's view of each caller of send()
          closeChan,   \* closed by Tunnel.Close
          tclosed,     \* Tunnel.Close has returned
          call,        \* the user of each session: see CallType
          tunnelEv,    \* what has been reported of the tunnel
          received     \* messages received so far

tunnelVars == <<fsm, tpc, tlast, todo, cur, isClosing, established, dp, xport,
                tx, closeChan, tclosed, call, tunnelEv, received>>
vars == <<sessionVars, tunnelVars, panicked>>

TheTunnel == "tunnel"   \* the tunnel's goroutine as a caller of send()
Callers == Sessions \cup {TheTunnel}
CallType == {"idle", "inject", "open", "refused", "closing", "closed"}
SessionEvents == {"tunnelopen", "icrq", "icrp", "icrpNoSid", "iccn", "cdn"}

ASSUME TunnelAssumption ==
  /\ TheTunnel \notin Sessions
  /\ TunnelMsgs \subseteq {"sccrq", "sccrp", "sccrpNoTid", "scccn", "stopccn", "bad"}
  /\ SessionMsgs \subseteq SessionEvents \ {"tunnelopen"}

Init ==
  /\ SessionInit
  /\ fsm = "idle" /\ tpc = "start" /\ tlast = FALSE
  /\ todo = {} /\ cur = <<>>
  /\ isClosing = FALSE /\ established = FALSE /\ dp = "none"
  /\ xport = "up" /\ tx = [c \in Callers |-> "none"]
  /\ closeChan = FALSE /\ tclosed = FALSE
  /\ call = [s \in Sessions |-> "idle"]
  /\ tunnelEv = "none" /\ received = 0 /\ panicked = FALSE

TunnelTable == {
  Row("idle", {"open"}, "SendSccrq", "waitctlreply"),
  Row("waitctlreply", {"sccrp", "sccrpNoTid"}, "OnSccrp", "established"),
  Row("waitctlreply", {"stopccn"}, "OnStopccn", "dead"),
  Row("waitctlreply", {"newsession"}, "LinkSession", "waitctlreply"),
  Row("waitctlreply", {"sessionmsg"}, "nil", "waitctlreply"),
  Row("waitctlreply", {"sccrq", "scccn", "close"}, "SendStopccn", "dead"),
  Row("established", {"stopccn"}, "OnStopccn", "dead"),
  Row("established", {"newsession"}, "StartSession", "established"),
  Row("established", {"sessionmsg"}, "ForwardSessionMsg", "established"),
  Row("established", {"sccrq", "sccrp", "sccrpNoTid", "scccn", "close"}, "SendStopccn", "dead")}
-----------------------------------------------------------------------------
(* Pieces of the tunnel's handlers.                                        *)

\* The tunnel's goroutine is at l, in a process that lives.
Running(l) == ~panicked /\ tpc = l

\* Back to the select of runTunnel, or out of it.
Return(last) == /\ tpc' = IF last THEN "exit" ELSE "select"
                /\ tlast' = FALSE

\* fsmActClose up to the first kill: the lock, isClosing and the start of
\* closeAllSessions, which empties the registry and starts the drain
\* goroutine.  Returns at once when the tunnel is closing already.
beginClose(last) ==
  IF isClosing
    THEN Return(last) /\ UNCHANGED <<isClosing, todo, linked>>
    ELSE /\ isClosing' = TRUE
         /\ todo' = linked /\ linked' = {}
         /\ tpc' = "closing" /\ tlast' = last

\* dt.xport.send(m) by the tunnel's goroutine, up to the point it blocks.
xportSend(m, last) ==
  /\ tpc' = m /\ tlast' = last
  /\ tx' = [tx EXCEPT ![TheTunnel] = IF xport = "up" THEN "queued" ELSE "stuck"]
  /\ panicked' = (xport = "closed")

\* handleEvent(ev) for the events the tunnel handles without an argument.
\* fsmActOnSccrp without a tunnel ID raises "close" in state "established".
handleEvent(ev, last) ==
  LET cb == Callback(TunnelTable, fsm, ev) IN
  IF ~Handles(TunnelTable, fsm, ev)
    THEN beginClose(last) /\ UNCHANGED <<fsm, tx, panicked>>
    ELSE /\ fsm' = IF ev = "sccrpNoTid" THEN "dead" ELSE StateAfter(TunnelTable, fsm, ev)
         /\ \/ cb = "SendSccrq" /\ xportSend("sccrq", last)
            \/ cb = "OnSccrp" /\ ev = "sccrp" /\ xportSend("scccn", last)
            \/ cb = "OnSccrp" /\ ev = "sccrpNoTid" /\ xportSend("stopccn", last)
            \/ cb = "SendStopccn" /\ xportSend("stopccn", last)
            \/ cb = "OnStopccn" /\ tpc' = "pend" /\ tlast' = last /\ UNCHANGED <<tx, panicked>>
         /\ UNCHANGED <<isClosing, todo, linked>>

notHandler == <<sess, sessionEv, failed, established, dp, xport, tclosed, tunnelEv>>
-----------------------------------------------------------------------------
(* runTunnel: the event "open" and the cases of its select.                *)

Open == /\ Running("start")
        /\ handleEvent("open", FALSE)
        /\ UNCHANGED <<notHandler, cur, closeChan, call, received>>

SelectClose ==
  /\ Running("select") /\ closeChan
  /\ handleEvent("close", TRUE)
  /\ UNCHANGED <<notHandler, cur, closeChan, call, received>>

\* Mutant: runTunnel's return is missing.
SelectRecvClosedNoReturn ==
  /\ Running("select") /\ xport # "up"
  /\ beginClose(FALSE)
  /\ UNCHANGED <<notHandler, fsm, tx, panicked, cur, closeChan, call, received>>

\* recvChan is closed.
SelectRecvClosed ==
  /\ Running("select") /\ xport # "up"
  /\ beginClose(TRUE)
  /\ UNCHANGED <<notHandler, fsm, tx, panicked, cur, closeChan, call, received>>

CanReceive == xport = "up" /\ received < MaxRecv

\* handleV2Msg for a tunnel message.  "bad" fails validation or is of a type
\* with no event; either way the event is "close".  (After a failed
\* validation the code goes on to the message's own event, which finds the
\* FSM in state "dead" and the tunnel closing, and so does nothing.)
SelectTunnelMsg ==
  /\ Running("select") /\ CanReceive
  /\ \E m \in TunnelMsgs :
       /\ CausalPeer => m = "stopccn" \/ (m = "sccrp" /\ fsm = "waitctlreply")
       /\ handleEvent(IF m = "bad" THEN "close" ELSE m, FALSE)
  /\ received' = received + 1
  /\ UNCHANGED <<notHandler, cur, closeChan, call>>

\* The peer answers an ICRQ with an ICRP and may hang up at any time after it.
Expected(s, m) == /\ m = "icrp" => sess[s].fsm = "waitreply"
                  /\ m \in {"icrp", "cdn"}
                  /\ sess[s].fsm # "waittunnel"
                  /\ sess[s].msg # "icrq" \/ tx[s] = "queued"

\* handleV2Msg for a session message, fsmActForwardSessionMsg: blocked in
\* handleCtlMsg if the session is in the registry, dropped otherwise, and
\* ignored before the tunnel is established.
SelectSessionMsg ==
  /\ Running("select") /\ CanReceive
  /\ \E s \in Sessions, m \in SessionMsgs :
       /\ call[s] # "idle"
       /\ CausalPeer => Expected(s, m)
       /\ IF Handles(TunnelTable, fsm, "sessionmsg")
            THEN /\ fsm' = StateAfter(TunnelTable, fsm, "sessionmsg")
                 /\ IF Callback(TunnelTable, fsm, "sessionmsg") = "ForwardSessionMsg" /\ s \in linked
                      THEN tpc' = "forward" /\ cur' = <<s, m>>
                      ELSE UNCHANGED <<tpc, cur>>
                 /\ UNCHANGED <<tlast, todo, isClosing, linked>>
            ELSE beginClose(FALSE) /\ UNCHANGED <<fsm, cur>>
  /\ received' = received + 1
  /\ UNCHANGED <<notHandler, tx, panicked, closeChan, call>>

\* A NewSession call's event is taken, and the call returns.
SelectNewSession(s) ==
  /\ Running("select") /\ call[s] = "inject"
  /\ call' = [call EXCEPT ![s] = "open"]
  /\ tpc' = "newsession" /\ cur' = <<s, "tunnelopen">>
  /\ UNCHANGED <<notHandler, fsm, tlast, todo, isClosing, tx, panicked, linked, closeChan, received>>

\* A session's message: a goroutine of its own calls xport.send.
SelectSend(s) ==
  /\ Running("select") /\ sess[s].pc = "offer"
  /\ sess' = [sess EXCEPT ![s].pc = "await"]
  /\ tx' = [tx EXCEPT ![s] = IF xport = "up" THEN "queued" ELSE "stuck"]
  /\ panicked' = (xport = "closed")
  /\ UNCHANGED <<linked, sessionEv, failed, fsm, tpc, tlast, todo, cur, isClosing, established,
                 dp, xport, closeChan, tclosed, call, tunnelEv, received>>
-----------------------------------------------------------------------------
(* The rest of the tunnel's handlers, from one channel operation to the    *)
(* next.                                                                   *)

\* handleEvent("newsession"): link the session and, once the tunnel is
\* established, tell it to start.
LinkSession ==
  /\ Running("newsession")
  /\ IF Handles(TunnelTable, fsm, "newsession")
       THEN /\ linked' = linked \cup {cur[1]}
            /\ IF Callback(TunnelTable, fsm, "newsession") = "StartSession"
                 THEN tpc' = "forward" /\ UNCHANGED cur
                 ELSE tpc' = "select" /\ cur' = <<>>
            /\ UNCHANGED <<tlast, todo, isClosing>>
       ELSE beginClose(FALSE) /\ cur' = <<>>
  /\ UNCHANGED <<notHandler, fsm, tx, panicked, closeChan, call, received>>

\* handleCtlMsg and onTunnelUp: the session is in its select and takes it.
ForwardTaken ==
  /\ Running("forward")
  /\ LET s == cur[1] IN
       /\ sess[s].pc = "select"
       /\ handleSessionEvent(s, sess[s], cur[2])
  /\ cur' = <<>>
  /\ tpc' = "select"
  /\ UNCHANGED <<fsm, tlast, todo, isClosing, established, dp, xport, tx, closeChan,
                 tclosed, call, tunnelEv, received, panicked>>

\* fsmActSendSccrq after send(); an error closes the tunnel, which goes on
\* in its select with the FSM at "waitctlreply".
SccrqReturned(ok) ==
  /\ Running("sccrq")
  /\ IF ok THEN Return(tlast) /\ UNCHANGED <<isClosing, todo, linked>>
           ELSE beginClose(tlast)
  /\ UNCHANGED <<notHandler, fsm, cur, closeChan, call, received, panicked>>

\* fsmActOnSccrp after send(): the data plane, then the list of sessions.
ScccnReturned(ok) ==
  /\ Running("scccn")
  /\ IF ok THEN /\ dp' = "up"
                /\ todo' = linked
                /\ tpc' = "notify"
                /\ UNCHANGED <<isClosing, linked, tlast>>
           ELSE beginClose(tlast) /\ UNCHANGED dp
  /\ UNCHANGED <<sess, sessionEv, failed, established, xport, tclosed, tunnelEv,
                 fsm, cur, closeChan, call, received, panicked>>

\* ... or the data plane cannot be had, and "close" sends a StopCCN.
ScccnNoDataPlane ==
  /\ DataPlaneErrors
  /\ Running("scccn") /\ xport = "up" /\ tx[TheTunnel] = "queued"
  /\ handleEvent("close", tlast)
  /\ UNCHANGED <<notHandler, cur, closeChan, call, received>>

\* onTunnelUp for each session of the list.
NotifyTaken(s) ==
  /\ Running("notify") /\ s \in todo
  /\ sess[s].pc = "select"
  /\ handleSessionEvent(s, sess[s], "tunnelopen")
  /\ todo' = todo \ {s}
  /\ UNCHANGED <<fsm, tpc, tlast, cur, isClosing, established, dp, xport, tx, closeChan,
                 tclosed, call, tunnelEv, received, panicked>>

ReportTunnelUp ==
  /\ Running("notify") /\ todo = {}
  /\ established' = TRUE
  /\ tunnelEv' = "up"
  /\ Return(tlast)
  /\ UNCHANGED <<sessionVars, fsm, todo, cur, isClosing, dp, xport, tx, closeChan,
                 tclosed, call, received, panicked>>

\* fsmActSendStopccn after send(), whatever the outcome; fsmActOnStopccn
\* after its timeout.
StopccnReturned ==
  /\ Running("stopccn")
  /\ beginClose(tlast)
  /\ UNCHANGED <<notHandler, fsm, cur, closeChan, call, received, panicked>>

\* Mutant: the timeout does not close the tunnel.
PendTimeoutNoClose ==
  /\ Running("pend") /\ Return(tlast)
  /\ UNCHANGED <<notHandler, isClosing, todo, linked, fsm, tx, cur, closeChan, call, received,
                 panicked>>

PendTimeout ==
  /\ Running("pend")
  /\ beginClose(tlast)
  /\ UNCHANGED <<notHandler, fsm, tx, cur, closeChan, call, received, panicked>>

\* Mutant: killChan is not closed.
KillUnheard(s) ==
  /\ Running("closing") /\ cur = <<>> /\ s \in todo
  /\ todo' = todo \ {s}
  /\ linked' = linked \ {s}
  /\ cur' = <<s, "kill">>
  /\ UNCHANGED <<sess, sessionEv, failed, fsm, tpc, tlast, isClosing, established, dp, xport,
                 tx, closeChan, tclosed, call, tunnelEv, received, panicked>>

\* closeAllSessions: kill() the sessions one by one, each until its goroutine
\* has exited.
Kill(s) ==
  /\ Running("closing") /\ cur = <<>> /\ s \in todo
  /\ todo' = todo \ {s}
  /\ linked' = linked \ {s}
  /\ sess' = [sess EXCEPT ![s].killChan = TRUE]
  /\ cur' = <<s, "kill">>
  /\ UNCHANGED <<sessionEv, failed, fsm, tpc, tlast, isClosing, established, dp, xport, tx,
                 closeChan, tclosed, call, tunnelEv, received, panicked>>

\* Mutant: kill() does not wait for the session's goroutine.
KilledNoWait ==
  /\ Running("closing") /\ cur # <<>>
  /\ cur' = <<>>
  /\ UNCHANGED <<sessionVars, fsm, tpc, tlast, todo, isClosing, established, dp, xport, tx,
                 closeChan, tclosed, call, tunnelEv, received, panicked>>

Killed ==
  /\ Running("closing") /\ cur # <<>>
  /\ sess[cur[1]].pc = "exit"
  /\ cur' = <<>>
  /\ UNCHANGED <<sessionVars, fsm, tpc, tlast, todo, isClosing, established, dp, xport, tx,
                 closeChan, tclosed, call, tunnelEv, received, panicked>>

\* The drain goroutine of closeAllSessions refuses what sessions offer.
Drain(s) ==
  /\ Running("closing") /\ sess[s].pc = "offer"
  /\ SendReturned(s, FALSE)
  /\ UNCHANGED <<tunnelVars, panicked>>

\* The rest of fsmActClose, once the session goroutines and sessionTxWg are
\* done.
finishClose ==
  /\ Running("closing") /\ todo = {} /\ cur = <<>>
  /\ \A s \in Sessions : tx[s] = "none"
  /\ dp' = IF dp = "up" THEN "down" ELSE dp
  /\ xport' = "closed"
  /\ established' = FALSE
  /\ tunnelEv' = IF established THEN "down" ELSE tunnelEv
  /\ Return(tlast)
  /\ UNCHANGED <<sessionVars, fsm, todo, cur, isClosing, tx, closeChan, tclosed, call,
                 received, panicked>>
-----------------------------------------------------------------------------
(* The transport and the users.                                            *)

XportFail ==
  /\ XportFails /\ ~panicked
  /\ xport = "up" /\ xport' = "down"
  /\ UNCHANGED <<sessionVars, fsm, tpc, tlast, todo, cur, isClosing, established, dp, tx,
                 closeChan, tclosed, call, tunnelEv, received, panicked>>

\* A send() that was accepted completes: acked while the transport is up,
\* flushed with an error by down() otherwise.
TunnelSendDone ==
  /\ ~panicked /\ tx[TheTunnel] = "queued"
  /\ tx' = [tx EXCEPT ![TheTunnel] = "none"]
  /\ LET ok == xport = "up" IN SccrqReturned(ok) \/ ScccnReturned(ok) \/ StopccnReturned

SessionSendDone(s) ==
  /\ ~panicked /\ tx[s] = "queued"
  /\ tx' = [tx EXCEPT ![s] = "none"]
  /\ SendReturned(s, xport = "up")
  /\ UNCHANGED <<fsm, tpc, tlast, todo, cur, isClosing, established, dp, xport, closeChan,
                 tclosed, call, tunnelEv, received, panicked>>

userStep == ~panicked /\ UNCHANGED <<fsm, tpc, tlast, todo, cur, isClosing, established, dp,
                                    xport, tx, tunnelEv, received, panicked>>

\* NewSession up to the send on eventChan.  The goroutine of the session is
\* started before the tunnel knows of it.
NewSession(s) ==
  /\ call[s] = "idle" /\ ~isClosing
  /\ call' = [call EXCEPT ![s] = "inject"]
  /\ sess' = [sess EXCEPT ![s].pc = "select"]
  /\ UNCHANGED <<linked, sessionEv, failed, closeChan, tclosed>>
  /\ userStep

\* fsmActClose holds closingLock to its end, so the call waits for that.
NewSessionRefused(s) ==
  /\ call[s] = "idle" /\ isClosing /\ tpc # "closing"
  /\ call' = [call EXCEPT ![s] = "refused"]
  /\ UNCHANGED <<sessionVars, closeChan, tclosed>>
  /\ userStep

CloseSession(s) ==
  /\ s \in Closers /\ call[s] = "open"
  /\ call' = [call EXCEPT ![s] = "closing"]
  /\ linked' = linked \ {s}
  /\ sess' = [sess EXCEPT ![s].closeChan = TRUE]
  /\ UNCHANGED <<sessionEv, failed, closeChan, tclosed>>
  /\ userStep

CloseSessionReturns(s) ==
  /\ call[s] = "closing" /\ sess[s].pc = "exit"
  /\ call' = [call EXCEPT ![s] = "closed"]
  /\ UNCHANGED <<sessionVars, closeChan, tclosed>>
  /\ userStep

Close ==
  /\ TunnelCloses /\ ~closeChan
  /\ closeChan' = TRUE
  /\ UNCHANGED <<sessionVars, call, tclosed>>
  /\ userStep

CloseReturn ==
  /\ closeChan /\ ~tclosed /\ tpc = "exit"
  /\ tclosed' = TRUE
  /\ UNCHANGED <<sessionVars, call, closeChan>>
  /\ userStep
-----------------------------------------------------------------------------
TunnelGoroutine ==
  \/ Open \/ SelectClose \/ SelectRecvClosed \/ SelectTunnelMsg \/ SelectSessionMsg
  \/ LinkSession \/ ForwardTaken \/ ScccnNoDataPlane \/ ReportTunnelUp
  \/ PendTimeout \/ Killed \/ finishClose
  \/ \E s \in Sessions : SelectNewSession(s) \/ SelectSend(s) \/ NotifyTaken(s) \/ Kill(s)

SessionGoroutine(s) == SessionStep(s) /\ UNCHANGED <<tunnelVars, panicked>>

User(s) == NewSession(s) \/ NewSessionRefused(s) \/ CloseSession(s) \/ CloseSessionReturns(s)

Next ==
  \/ TunnelGoroutine \/ TunnelSendDone \/ XportFail \/ Close \/ CloseReturn
  \/ \E s \in Sessions : SessionGoroutine(s) \/ SessionSendDone(s) \/ Drain(s) \/ User(s)

Spec == Init /\ [][Next]_vars

\* Goroutines run, timers fire, and a send the transport accepted completes
\* (Transport!AcceptedCompletes).  Nothing is assumed of peer and users.
Fairness ==
  /\ WF_vars(TunnelGoroutine)
  /\ WF_vars(TunnelSendDone)
  /\ WF_vars(CloseReturn)
  /\ \A s \in Sessions :
       /\ WF_vars(SessionGoroutine(s))
       /\ WF_vars(SessionSendDone(s))
       /\ WF_vars(Drain(s))
       /\ WF_vars(CloseSessionReturns(s))

FairSpec == Spec /\ Fairness
-----------------------------------------------------------------------------
TypeOK ==
  /\ sess \in [Sessions -> SessionType]
  /\ linked \subseteq Sessions /\ failed \subseteq Sessions
  /\ sessionEv \in [Sessions -> {"none", "up", "down"}]
  /\ fsm \in {"idle", "waitctlreply", "established", "dead"}
  /\ tpc \in {"start", "select", "sccrq", "scccn", "stopccn", "notify", "newsession",
              "forward", "pend", "closing", "exit"}
  /\ {tlast, isClosing, established, closeChan, tclosed, panicked} \subseteq BOOLEAN
  /\ todo \subseteq Sessions
  /\ cur \in {<<>>} \cup (Sessions \X (SessionEvents \cup {"kill"}))
  /\ dp \in {"none", "up", "down"} /\ xport \in {"up", "down", "closed"}
  /\ tx \in [Callers -> {"none", "queued", "stuck"}]
  /\ call \in [Sessions -> CallType]
  /\ tunnelEv \in {"none", "up", "down"} /\ received \in 0 .. MaxRecv

\* Sessions the tunnel no longer looks after: closed by their user, or by
\* themselves in the middle of fsmActOnIcrp.
Detached == failed \cup {s \in Sessions : call[s] \in {"closing", "closed"}}

\* The events of the tunnel and its sessions come in the order that
\* TunnelEvents promises the application.
Events == INSTANCE TunnelEvents WITH tunnel <- tunnelEv, session <- sessionEv, detached <- Detached
EventsAsPromised == Events!Spec

\* When the tunnel is reported down (fsmActClose), the goroutine of every
\* session it started has exited, detached ones excepted.
SessionsGoneByTunnelDown ==
  tunnelEv = "down" =>
    \A s \in Sessions \ Detached : sess[s].fsm # "waittunnel" => sess[s].pc = "exit"

\* A session's data plane exists only inside the tunnel's (fsmActOnIcrp
\* against fsmActOnSccrp and fsmActClose), detached sessions excepted.
SessionDataPlaneInTunnels ==
  \A s \in Sessions \ Detached : sess[s].dp = "up" => dp = "up"

\* A tunnel that has been reported up does not send on the closed sendChan of
\* its transport, unless a session was detached.
EstablishedNeverPanics == panicked /\ tunnelEv # "none" => Detached # {}

\* No goroutine ever sends on the closed sendChan of the transport: after
\* fsmActClose the tunnel's goroutine only terminates.
NeverPanics == ~panicked

\* A session is reported up only on completion of the message exchange.
UpMeansExchangeComplete == \A s \in Sessions : sessionEv[s] = "up" => s \notin failed

\* No session is left in its send to a tunnel whose goroutine has exited.
NoSessionLeftSending == tpc = "exit" => \A s \in Sessions : sess[s].pc # "offer"

\* Tunnel.Close returns.
CloseReturns == closeChan ~> tclosed

\* Once the FSM is at "dead" the tunnel gives up its transport.
DeadReleasesTransport == fsm = "dead" ~> xport = "closed"

\* Session.Close returns.
SessionCloseReturns == \A s \in Sessions : call[s] = "closing" ~> call[s] = "closed"

\* NewSession returns.
NewSessionReturns == \A s \in Sessions : call[s] = "inject" ~> call[s] # "inject"
=============================================================================

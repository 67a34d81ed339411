---------------------------- MODULE Kl2tpdProofs ----------------------------
(***************************************************************************)
(* For any set of sessions, each with a pppd or a bridge, on a library     *)
(* that keeps to TunnelEvents: kl2tpd does not panic, a session's          *)
(* pseudowire ends with it, and a graceful exit leaves nothing behind.     *)
(***************************************************************************)
EXTENDS Kl2tpd, TLAPS

Kl2tpdTypes ==
  /\ tunnel \in {"none", "up", "down"}
  /\ session \in [Sessions -> {"none", "up", "down"}]
  /\ detached \subseteq Sessions
  /\ handling \in [Goroutines -> {"none", "TunnelUp", "TunnelDown", "SessionUp", "SessionDown"}]
  /\ sessionPW \in [Sessions -> {"absent", "pw", "nil"}]
  /\ mapMade \in BOOLEAN
  /\ pw \in [Sessions -> {"none", "running", "interrupted", "exited", "reported", "closed"}]
  /\ fds \in [Sessions -> SUBSET {"pppoe", "pppoe ppp", "pppol2tp", "pppol2tp ppp"}]
  /\ closer \in [Sessions -> {"none", "started", "closing", "done"}]

\* The tunnel's events: its map exists from the handling of Up to that of Down.
TunnelInv ==
  /\ handling[TheTunnel] \in {"none", "TunnelUp", "TunnelDown"}
  /\ handling[TheTunnel] = "TunnelUp" => tunnel = "up"
  /\ handling[TheTunnel] = "TunnelDown" => tunnel = "down"
  /\ tunnel = "up" => mapMade \/ handling[TheTunnel] = "TunnelUp"

\* A session's events: one that is being handled as up is up, has a map to be
\* stored in, and has neither a pseudowire nor anyone to close it yet.
SessionInv(s) ==
  /\ handling[s] \in {"none", "SessionUp", "SessionDown"}
  /\ handling[s] = "SessionUp" =>
       session[s] = "up" /\ tunnel = "up" /\ mapMade /\ closer[s] = "none" /\ pw[s] = "none"
  /\ handling[s] = "SessionDown" => session[s] = "down"
  /\ session[s] = "none" => closer[s] = "none" /\ pw[s] = "none"

\* newPPPBridge leaves a descriptor open when it cannot attach the PPPoL2TP
\* channel.  What is said of descriptors is said for when that does not happen.
NothingLeaks == "pppol2tp channel" \notin BridgeFailures

\* A pseudowire: while it runs it is in the map and its session is up, or its
\* end is being handled; the session is closed once the pseudowire is over.
PwInv(s) ==
  /\ pw[s] = "running" => sessionPW[s] = "pw" /\ (session[s] = "up" \/ handling[s] = "SessionDown")
  /\ sessionPW[s] = "pw" => pw[s] # "none"
  /\ pw[s] # "none" => PwType[s] \in {"ppp", "pppac"}
  /\ pw[s] \in {"interrupted", "exited", "reported"} => PwType[s] = "ppp"
  /\ NothingLeaks /\ fds[s] # {} => PwType[s] = "pppac" /\ pw[s] = "running"
  /\ closer[s] # "none" => pw[s] \in {"none", "reported"}
  /\ s \in detached => closer[s] \in {"closing", "done"}
  /\ closer[s] = "closing" => s \in detached
  /\ closer[s] = "done" => s \in detached /\ session[s] = "down" /\ handling[s] = "none"

\* A session after its tunnel, after Context.Close, and once wg.Wait has
\* returned.
OverInv(s) ==
  /\ (tunnel = "down" \/ ctxClose = "done") /\ s \notin detached =>
       session[s] # "up" /\ handling[s] = "none"
  /\ closeChan => /\ session[s] # "up" /\ handling[s] = "none"
                  /\ pw[s] \notin {"running", "interrupted", "exited"}
                  /\ closer[s] \in {"none", "done"}

\* Shutdown: Context.Close has ended the tunnel, wg everything else.
ExitInv ==
  /\ ctxClose = "done" => tunnel # "up" /\ handling[TheTunnel] = "none"
  /\ ctxClose # "no" => shutdown
  /\ closeChan => ctxClose = "done"
  /\ phase = "exit0" => closeChan

DInv == /\ Kl2tpdTypes /\ ~panicked /\ TunnelInv /\ ExitInv
        /\ \A s \in Sessions : SessionInv(s) /\ PwInv(s) /\ OverInv(s)

\* A step that does not concern session t.
Same(t) == /\ session'[t] = session[t] /\ handling'[t] = handling[t]
           /\ sessionPW'[t] = sessionPW[t] /\ pw'[t] = pw[t] /\ fds'[t] = fds[t]
           /\ closer'[t] = closer[t]
           /\ t \in detached' <=> t \in detached
-----------------------------------------------------------------------------
\* A daemon that starts has no tunnel, no session and no pseudowire.
LEMMA DInitInv == Init => DInv
PROOF
  <1> SUFFICES ASSUME Init
               PROVE  DInv
    OBVIOUS
  <1>1. Kl2tpdTypes
    BY DEF Init, Source!Init, Kl2tpdTypes
  <1>2. TunnelInv /\ ExitInv
    BY DEF Init, Source!Init, TunnelInv, ExitInv, Goroutines
  <1>3. ASSUME NEW s \in Sessions
        PROVE  SessionInv(s) /\ PwInv(s) /\ OverInv(s)
    BY <1>3 DEF Init, Source!Init, SessionInv, PwInv, OverInv, Goroutines
  <1> QED BY <1>1, <1>2, <1>3 DEF Init, DInv

\* A step of one session leaves what is known of the tunnel, of run and of the
\* other sessions as it was.
LEMMA OneSession ==
  ASSUME DInv, NEW s \in Sessions,
         Kl2tpdTypes', ~panicked', handling'[TheTunnel] = handling[TheTunnel],
         UNCHANGED <<tunnel, mapMade, phase, shutdown, ctxClose, closeChan>>,
         SessionInv(s)', PwInv(s)', OverInv(s)',
         \A t \in Sessions \ {s} : Same(t)
  PROVE  DInv'
PROOF
  <1>1. TunnelInv' /\ ExitInv'
    BY DEF DInv, TunnelInv, ExitInv
  <1>2. ASSUME NEW t \in Sessions, t # s
        PROVE  SessionInv(t)' /\ PwInv(t)' /\ OverInv(t)'
    <2>1. Same(t) /\ SessionInv(t) /\ PwInv(t) /\ OverInv(t)
      BY <1>2 DEF DInv
    <2>2. SessionInv(t)'
      BY <2>1 DEF SessionInv, Same
    <2>3. PwInv(t)'
      BY <2>1 DEF PwInv, Same
    <2>4. OverInv(t)'
      BY <2>1 DEF OverInv, Same
    <2> QED BY <2>2, <2>3, <2>4
  <1>3. \A t \in Sessions : (SessionInv(t) /\ PwInv(t) /\ OverInv(t))'
    BY <1>2
  <1> QED BY <1>1, <1>3 DEF DInv

\* The tunnel's events, and HandleEvent for them.
LEMMA TunnelSteps ==
  ASSUME DInv, TunnelUp \/ TunnelDown \/ HandleTunnelUp \/ HandleTunnelDown
  PROVE  DInv'
PROOF
  <1> USE Kl2tpdAssumption DEF Goroutines
  <1>1. CASE TunnelUp
    <2> USE <1>1 DEF DInv, TunnelUp, Source!TunnelUp, Report, runVars, pwVars
    <2>1. Kl2tpdTypes' /\ TunnelInv' /\ ExitInv'
      BY DEF Kl2tpdTypes, TunnelInv, ExitInv
    <2>2. ASSUME NEW s \in Sessions
          PROVE  SessionInv(s)' /\ PwInv(s)' /\ OverInv(s)'
      <3>1. Same(s) /\ SessionInv(s) /\ PwInv(s) /\ OverInv(s)
        BY <2>2, ZenonT(60) DEF Same, Kl2tpdTypes
      <3> QED BY <3>1 DEF Same, SessionInv, PwInv, OverInv
    <2> QED BY <2>1, <2>2
  <1>2. CASE TunnelDown
    <2> USE <1>2 DEF DInv, TunnelDown, Source!TunnelDown, Report, runVars, pwVars
    <2>1. Kl2tpdTypes' /\ TunnelInv' /\ ExitInv'
      BY DEF Kl2tpdTypes, TunnelInv, ExitInv
    <2>2. ASSUME NEW s \in Sessions
          PROVE  SessionInv(s)' /\ PwInv(s)' /\ OverInv(s)'
      <3>1. Same(s) /\ SessionInv(s) /\ PwInv(s) /\ OverInv(s)
        BY <2>2, ZenonT(60) DEF Same, Kl2tpdTypes
      <3>2. s \notin detached => session[s] # "up" /\ handling[s] = "none"
        BY <2>2
      <3> QED BY <3>1, <3>2, ZenonT(60) DEF Same, SessionInv, PwInv, OverInv
    <2> QED BY <2>1, <2>2
  <1>3. CASE HandleTunnelUp
    <2> USE <1>3 DEF DInv, HandleTunnelUp, Handled, runVars, events
    <2>1. Kl2tpdTypes' /\ TunnelInv' /\ ExitInv'
      BY DEF Kl2tpdTypes, TunnelInv, ExitInv
    <2>2. ASSUME NEW s \in Sessions
          PROVE  SessionInv(s)' /\ PwInv(s)' /\ OverInv(s)'
      <3>1. Same(s) /\ SessionInv(s) /\ PwInv(s) /\ OverInv(s)
        BY <2>2, ZenonT(60) DEF Same, Kl2tpdTypes
      <3> QED BY <3>1, ZenonT(60) DEF Same, SessionInv, PwInv, OverInv
    <2> QED BY <2>1, <2>2
  <1>4. CASE HandleTunnelDown
    <2> USE <1>4 DEF DInv, HandleTunnelDown, Handled, runVars, events
    <2>1. Kl2tpdTypes' /\ TunnelInv' /\ ExitInv'
      BY DEF Kl2tpdTypes, TunnelInv, ExitInv
    <2>2. ASSUME NEW s \in Sessions
          PROVE  SessionInv(s)' /\ PwInv(s)' /\ OverInv(s)'
      <3>1. /\ session'[s] = session[s] /\ handling'[s] = handling[s] /\ pw'[s] = pw[s]
            /\ fds'[s] = fds[s] /\ closer'[s] = closer[s] /\ sessionPW'[s] = "absent"
        BY <2>2, ZenonT(60) DEF Kl2tpdTypes
      <3>2. SessionInv(s) /\ PwInv(s) /\ OverInv(s) /\ tunnel = "down"
        BY <2>2 DEF TunnelInv
      <3>3. pw[s] # "running" /\ handling[s] # "SessionUp"
        BY <3>2 DEF SessionInv, PwInv, OverInv
      <3> QED BY <3>1, <3>2, <3>3, ZenonT(60) DEF SessionInv, PwInv, OverInv
    <2> QED BY <2>1, <2>2
  <1> QED BY <1>1, <1>2, <1>3, <1>4

\* A session comes up: the tunnel is up, and its map made.
LEMMA SessionUpKeeps ==
  ASSUME DInv, NEW s \in Sessions, SessionUp(s)
  PROVE  DInv'
PROOF
  <1> USE Kl2tpdAssumption DEF Goroutines
  <1>1. Kl2tpdTypes /\ SessionInv(s) /\ PwInv(s) /\ OverInv(s) /\ TunnelInv /\ ExitInv /\ ~panicked
    BY DEF DInv
  <1>2. Kl2tpdTypes'
    BY <1>1 DEF Kl2tpdTypes, SessionUp, Source!SessionUp, Source!MayReport, Report, runVars, pwVars
  <1>3. /\ session'[s] = "up" /\ handling'[s] = "SessionUp"
        /\ sessionPW'[s] = sessionPW[s] /\ pw'[s] = pw[s] /\ fds'[s] = fds[s]
        /\ closer'[s] = closer[s] /\ (s \in detached' <=> s \in detached)
    BY <1>1 DEF Kl2tpdTypes, SessionUp, Source!SessionUp, Source!MayReport, Report, runVars, pwVars
  <1>4. \A t \in Sessions \ {s} : Same(t)
    BY <1>1, ZenonT(60) DEF Kl2tpdTypes, Same, SessionUp, Source!SessionUp, Source!MayReport, Report, runVars, pwVars
  <1>5. /\ handling'[TheTunnel] = handling[TheTunnel]
        /\ UNCHANGED <<tunnel, mapMade, phase, shutdown, ctxClose, closeChan>>
    BY <1>1 DEF Kl2tpdTypes, SessionUp, Source!SessionUp, Source!MayReport, Report, runVars, pwVars
  <1>6. /\ tunnel = "up" \/ s \in detached
        /\ session[s] = "none" /\ handling[s] = "none" /\ handling[TheTunnel] # "TunnelUp" /\ ~panicked'
    BY <1>1 DEF SessionUp, Source!SessionUp, Source!MayReport, Report, runVars, pwVars
  <1>7. SessionInv(s)' /\ ~panicked'
    BY <1>1, <1>3, <1>5, <1>6 DEF SessionInv, PwInv, TunnelInv
  <1>8. PwInv(s)'
    BY <1>1, <1>3, <1>5, <1>6 DEF SessionInv, PwInv
  <1>9. OverInv(s)'
    BY <1>1, <1>3, <1>5, <1>6 DEF SessionInv, PwInv, OverInv, ExitInv
  <1> QED BY <1>2, <1>4, <1>5, <1>7, <1>8, <1>9, OneSession

\* A session goes down.
LEMMA SessionDownKeeps ==
  ASSUME DInv, NEW s \in Sessions, SessionDown(s)
  PROVE  DInv'
PROOF
  <1> USE Kl2tpdAssumption DEF Goroutines
  <1>1. Kl2tpdTypes /\ SessionInv(s) /\ PwInv(s) /\ OverInv(s) /\ TunnelInv /\ ExitInv /\ ~panicked
    BY DEF DInv
  <1>2. Kl2tpdTypes'
    BY <1>1 DEF Kl2tpdTypes, SessionDown, Source!SessionDown, Source!MayReport, Report, runVars, pwVars
  <1>3. /\ session'[s] = "down" /\ handling'[s] = "SessionDown"
        /\ sessionPW'[s] = sessionPW[s] /\ pw'[s] = pw[s] /\ fds'[s] = fds[s]
        /\ closer'[s] = closer[s] /\ (s \in detached' <=> s \in detached)
    BY <1>1 DEF Kl2tpdTypes, SessionDown, Source!SessionDown, Source!MayReport, Report, runVars, pwVars
  <1>4. \A t \in Sessions \ {s} : Same(t)
    BY <1>1, ZenonT(60) DEF Kl2tpdTypes, Same, SessionDown, Source!SessionDown, Source!MayReport, Report, runVars, pwVars
  <1>5. /\ handling'[TheTunnel] = handling[TheTunnel]
        /\ UNCHANGED <<tunnel, mapMade, phase, shutdown, ctxClose, closeChan>>
    BY <1>1 DEF Kl2tpdTypes, SessionDown, Source!SessionDown, Source!MayReport, Report, runVars, pwVars
  <1>6. /\ tunnel = "up" \/ s \in detached
        /\ session[s] = "up" /\ handling[s] = "none" /\ ~panicked'
    BY <1>1 DEF SessionDown, Source!SessionDown, Source!MayReport, Report, runVars, pwVars
  <1>7. SessionInv(s)' /\ ~panicked'
    BY <1>1, <1>3, <1>5, <1>6 DEF SessionInv, PwInv, TunnelInv
  <1>8. PwInv(s)'
    BY <1>1, <1>3, <1>5, <1>6, ZenonT(60) DEF SessionInv, PwInv
  <1>9. OverInv(s)'
    BY <1>1, <1>3, <1>5, <1>6 DEF SessionInv, PwInv, OverInv, ExitInv
  <1> QED BY <1>2, <1>4, <1>5, <1>7, <1>8, <1>9, OneSession

\* HandleEvent for a session that comes up, and gets a pppd or a bridge.
LEMMA PseudowireStarts ==
  ASSUME DInv, NEW s \in Sessions, UpHandled(s), PseudowireUp(s),
         \/ PwType[s] = "ppp" /\ UNCHANGED fds
         \/ PwType[s] = "pppac" /\ fds' = [fds EXCEPT ![s] = FdsLeft("none")]
  PROVE  DInv'
PROOF
  <1> USE Kl2tpdAssumption DEF Goroutines
  <1>1. Kl2tpdTypes /\ SessionInv(s) /\ PwInv(s) /\ OverInv(s) /\ TunnelInv /\ ExitInv /\ ~panicked
    BY DEF DInv
  <1>f. FdsLeft("none") = {"pppoe", "pppoe ppp", "pppol2tp", "pppol2tp ppp"}
    BY DEF FdsLeft
  <1>g. PICK left \in SUBSET {"pppoe", "pppoe ppp", "pppol2tp", "pppol2tp ppp"} : fds' = [fds EXCEPT ![s] = left]
    <2>1. CASE UNCHANGED fds
      <3>1. fds[s] \in SUBSET {"pppoe", "pppoe ppp", "pppol2tp", "pppol2tp ppp"} /\ fds' = [fds EXCEPT ![s] = fds[s]]
        BY <1>1, <2>1, ZenonT(60) DEF Kl2tpdTypes
      <3> QED BY <3>1
    <2>2. CASE fds' = [fds EXCEPT ![s] = FdsLeft("none")]
      <3>1. FdsLeft("none") \in SUBSET {"pppoe", "pppoe ppp", "pppol2tp", "pppol2tp ppp"}
        BY <1>f
      <3> QED BY <2>2, <3>1
    <2> QED BY <2>1, <2>2
  <1>h. fds' \in [Sessions -> SUBSET {"pppoe", "pppoe ppp", "pppol2tp", "pppol2tp ppp"}]
    BY <1>1, <1>g DEF Kl2tpdTypes
  <1>2. Kl2tpdTypes'
    BY <1>1, <1>h DEF Kl2tpdTypes, UpHandled, PseudowireUp, Handled, runVars, events
  <1>3. /\ session'[s] = session[s] /\ handling'[s] = "none"
        /\ sessionPW'[s] = "pw" /\ pw'[s] = "running" /\ fds'[s] = IF PwType[s] = "pppac" THEN FdsLeft("none") ELSE fds[s]
        /\ closer'[s] = closer[s] /\ (s \in detached' <=> s \in detached)
    BY <1>1, <1>f, ZenonT(60) DEF Kl2tpdTypes, UpHandled, PseudowireUp, Handled, runVars, events
  <1>4. ASSUME NEW t \in Sessions \ {s}
        PROVE  Same(t)
    <2>1. t \in Sessions /\ t # s
      BY <1>4
    <2>2. session'[t] = session[t] /\ handling'[t] = handling[t] /\ (t \in detached' <=> t \in detached)
      BY <1>1, <2>1 DEF Kl2tpdTypes, UpHandled, PseudowireUp, Handled, events
    <2>3. sessionPW'[t] = sessionPW[t] /\ pw'[t] = pw[t]
      BY <1>1, <2>1, <1>g, ZenonT(60) DEF Kl2tpdTypes, UpHandled, PseudowireUp, Handled, events
    <2>4. fds'[t] = fds[t]
      BY <1>1, <2>1, <1>g, ZenonT(60) DEF Kl2tpdTypes, UpHandled, PseudowireUp, Handled, events
    <2>5. closer'[t] = closer[t]
      BY <1>1, <2>1, <1>g DEF Kl2tpdTypes, UpHandled, PseudowireUp, Handled, events
    <2> QED BY <2>2, <2>3, <2>4, <2>5 DEF Same
  <1>5. /\ handling'[TheTunnel] = handling[TheTunnel]
        /\ UNCHANGED <<tunnel, mapMade, phase, shutdown, ctxClose, closeChan>>
    BY <1>1, <1>f DEF Kl2tpdTypes, UpHandled, PseudowireUp, Handled, runVars, events
  <1>6. handling[s] = "SessionUp" /\ PwType[s] \in {"ppp", "pppac"} /\ panicked' = ~mapMade
    BY <1>1, <1>f DEF UpHandled, PseudowireUp, Handled, runVars, events
  <1>7. SessionInv(s)' /\ ~panicked'
    BY <1>1, <1>3, <1>5, <1>6, ZenonT(60) DEF SessionInv, PwInv, TunnelInv
  <1>8. PwInv(s)'
    BY <1>1, <1>3, <1>5, <1>6, <1>f, ZenonT(60) DEF SessionInv, PwInv
  <1>9. OverInv(s)'
    BY <1>1, <1>3, <1>5, <1>6, ZenonT(60) DEF SessionInv, PwInv, OverInv, ExitInv
  <1> QED BY <1>2, <1>4, <1>5, <1>7, <1>8, <1>9, OneSession

\* HandleEvent for a session that comes up and gets neither.
LEMMA NoPseudowireStarts ==
  ASSUME DInv, NEW s \in Sessions, UpHandled(s), NoPseudowire(s),
         \/ UNCHANGED fds
         \/ \E step \in BridgeFailures : fds' = [fds EXCEPT ![s] = FdsLeft(step)]
  PROVE  DInv'
PROOF
  <1> USE Kl2tpdAssumption DEF Goroutines
  <1>1. Kl2tpdTypes /\ SessionInv(s) /\ PwInv(s) /\ OverInv(s) /\ TunnelInv /\ ExitInv /\ ~panicked
    BY DEF DInv
  <1>n. /\ closer' = [closer EXCEPT ![s] = "started"] /\ ~panicked'
        /\ sessionPW' = [sessionPW EXCEPT ![s] = "nil"] /\ UNCHANGED <<pw, mapMade>>
    BY <1>1 DEF SessionInv, UpHandled, NoPseudowire, closeSession
  <1>e. \A step \in BridgeFailures :
          /\ FdsLeft(step) \in SUBSET {"pppoe", "pppoe ppp", "pppol2tp", "pppol2tp ppp"}
          /\ NothingLeaks => FdsLeft(step) = {}
    BY DEF FdsLeft, NothingLeaks
  <1>f. PICK left \in SUBSET {"pppoe", "pppoe ppp", "pppol2tp", "pppol2tp ppp"} :
          fds' = [fds EXCEPT ![s] = left] /\ (NothingLeaks => left = {} \/ left = fds[s])
    BY <1>1, <1>e, ZenonT(60) DEF Kl2tpdTypes
  <1>2. Kl2tpdTypes'
    BY <1>1, <1>f, <1>n DEF Kl2tpdTypes, UpHandled, Handled, runVars, events
  <1>3. /\ session'[s] = session[s] /\ handling'[s] = "none"
        /\ sessionPW'[s] = "nil" /\ pw'[s] = pw[s] /\ fds'[s] = left
        /\ closer'[s] = "started" /\ (s \in detached' <=> s \in detached)
    BY <1>1, <1>f, <1>n, ZenonT(60) DEF Kl2tpdTypes, UpHandled, Handled, runVars, events
  <1>4. ASSUME NEW t \in Sessions \ {s}
        PROVE  Same(t)
    <2>1. t \in Sessions /\ t # s
      BY <1>4
    <2>2. session'[t] = session[t] /\ handling'[t] = handling[t] /\ (t \in detached' <=> t \in detached)
      BY <1>1, <2>1 DEF Kl2tpdTypes, UpHandled, Handled, events
    <2>3. sessionPW'[t] = sessionPW[t] /\ pw'[t] = pw[t]
      BY <1>1, <2>1, <1>f, <1>n, ZenonT(60) DEF Kl2tpdTypes, UpHandled, Handled, events
    <2>4. fds'[t] = fds[t]
      BY <1>1, <2>1, <1>f, <1>n, ZenonT(60) DEF Kl2tpdTypes, UpHandled, Handled, events
    <2>5. closer'[t] = closer[t]
      BY <1>1, <2>1, <1>f, <1>n, ZenonT(60) DEF Kl2tpdTypes, UpHandled, Handled, events
    <2> QED BY <2>2, <2>3, <2>4, <2>5 DEF Same
  <1>5. /\ handling'[TheTunnel] = handling[TheTunnel]
        /\ UNCHANGED <<tunnel, mapMade, phase, shutdown, ctxClose, closeChan>>
    BY <1>1, <1>f, <1>n DEF Kl2tpdTypes, UpHandled, Handled, runVars, events
  <1>6. handling[s] = "SessionUp" /\ ~panicked'
    BY <1>1, <1>f, <1>n DEF UpHandled, Handled, runVars, events
  <1>7. SessionInv(s)' /\ ~panicked'
    BY <1>1, <1>3, <1>5, <1>6 DEF SessionInv, PwInv, TunnelInv
  <1>8. PwInv(s)'
    BY <1>1, <1>3, <1>5, <1>6, <1>f DEF SessionInv, PwInv
  <1>9. OverInv(s)'
    BY <1>1, <1>3, <1>5, <1>6 DEF SessionInv, PwInv, OverInv, ExitInv
  <1> QED BY <1>2, <1>4, <1>5, <1>7, <1>8, <1>9, OneSession

\* HandleEvent for a session that goes down.
LEMMA PseudowireCloses ==
  ASSUME DInv, NEW s \in Sessions, HandleSessionDown(s)
  PROVE  DInv'
PROOF
  <1> USE Kl2tpdAssumption DEF Goroutines
  <1>1. Kl2tpdTypes /\ SessionInv(s) /\ PwInv(s) /\ OverInv(s) /\ TunnelInv /\ ExitInv /\ ~panicked
    BY DEF DInv
  <1>2. Kl2tpdTypes'
    <2>1. /\ sessionPW' \in [Sessions -> {"absent", "pw", "nil"}]
          /\ pw' \in [Sessions -> {"none", "running", "interrupted", "exited", "reported", "closed"}]
          /\ fds' \in [Sessions -> SUBSET {"pppoe", "pppoe ppp", "pppol2tp", "pppol2tp ppp"}]
      BY <1>1, ZenonT(60) DEF Kl2tpdTypes, HandleSessionDown, closePseudowire
    <2> QED BY <1>1, <2>1 DEF Kl2tpdTypes, HandleSessionDown, Handled, events
  <1>3. /\ session'[s] = session[s] /\ handling'[s] = "none" /\ closer'[s] = closer[s]
        /\ s \in detached' <=> s \in detached
        /\ sessionPW[s] = "pw" =>
             /\ sessionPW'[s] = "absent" /\ fds'[s] = {}
             /\ pw'[s] = IF PwType[s] = "pppac" THEN "closed"
                         ELSE IF pw[s] = "running" THEN "interrupted" ELSE pw[s]
        /\ sessionPW[s] # "pw" => sessionPW'[s] = sessionPW[s] /\ fds'[s] = fds[s] /\ pw'[s] = pw[s]
    BY <1>1, ZenonT(60) DEF Kl2tpdTypes, HandleSessionDown, closePseudowire, Handled, runVars, events
  <1>4. \A t \in Sessions \ {s} : Same(t)
    BY <1>1, ZenonT(60) DEF Kl2tpdTypes, Same, HandleSessionDown, closePseudowire, Handled, runVars, events
  <1>5. /\ handling'[TheTunnel] = handling[TheTunnel]
        /\ UNCHANGED <<tunnel, mapMade, phase, shutdown, ctxClose, closeChan>>
    BY <1>1 DEF Kl2tpdTypes, HandleSessionDown, closePseudowire, Handled, runVars, events
  <1>6. handling[s] = "SessionDown" /\ ~panicked'
    BY <1>1 DEF HandleSessionDown, closePseudowire, Handled, runVars, events
  <1>7. SessionInv(s)' /\ ~panicked'
    BY <1>1, <1>3, <1>5, <1>6 DEF SessionInv, PwInv, TunnelInv
  <1>8. PwInv(s)'
    <2>1. closer[s] # "none" => pw[s] # "running" /\ (PwType[s] = "pppac" => pw[s] = "none")
      BY <1>1, ZenonT(60) DEF PwInv
    <2>2. CASE sessionPW[s] = "pw"
      <3>1. pw'[s] # "running" /\ fds'[s] = {} /\ sessionPW'[s] = "absent"
        BY <1>3, <2>2, ZenonT(60)
      <3>2. closer[s] # "none" => pw'[s] = pw[s]
        BY <1>1, <1>3, <2>1, <2>2, ZenonT(60) DEF PwInv
      <3>3. pw'[s] \in {"interrupted", "exited", "reported"} => PwType[s] = "ppp"
        BY <1>1, <1>3, <2>2, ZenonT(60) DEF PwInv, Kl2tpdTypes, SessionInv
      <3> QED BY <1>1, <1>3, <1>6, <3>1, <3>2, <3>3 DEF PwInv
    <2>3. CASE sessionPW[s] # "pw"
      BY <1>1, <1>3, <1>6, <2>3, ZenonT(60) DEF PwInv
    <2> QED BY <2>2, <2>3
  <1>9. OverInv(s)'
    BY <1>1, <1>3, <1>5, <1>6 DEF SessionInv, PwInv, OverInv, ExitInv
  <1> QED BY <1>2, <1>4, <1>5, <1>7, <1>8, <1>9, OneSession

\* The goroutine of closeSession calls Session.Close.
LEMMA CloseBegins ==
  ASSUME DInv, NEW s \in Sessions, CallSessionClose(s)
  PROVE  DInv'
PROOF
  <1> USE Kl2tpdAssumption DEF Goroutines
  <1>1. Kl2tpdTypes /\ SessionInv(s) /\ PwInv(s) /\ OverInv(s) /\ TunnelInv /\ ExitInv /\ ~panicked
    BY DEF DInv
  <1>2. Kl2tpdTypes'
    BY <1>1, ZenonT(60) DEF Kl2tpdTypes, CallSessionClose, Source!Detach, runVars
  <1>3. /\ session'[s] = session[s] /\ handling'[s] = handling[s]
        /\ sessionPW'[s] = sessionPW[s] /\ pw'[s] = pw[s] /\ fds'[s] = fds[s]
        /\ closer'[s] = "closing" /\ s \in detached'
    BY <1>1, ZenonT(60) DEF Kl2tpdTypes, CallSessionClose, Source!Detach, runVars
  <1>4. \A t \in Sessions \ {s} : Same(t)
    BY <1>1, ZenonT(60) DEF Kl2tpdTypes, Same, CallSessionClose, Source!Detach, runVars
  <1>5. /\ handling'[TheTunnel] = handling[TheTunnel]
        /\ UNCHANGED <<tunnel, mapMade, phase, shutdown, ctxClose, closeChan>>
    BY <1>1 DEF Kl2tpdTypes, CallSessionClose, Source!Detach, runVars
  <1>6. closer[s] = "started" /\ ~panicked'
    BY <1>1 DEF CallSessionClose, Source!Detach, runVars
  <1>7. SessionInv(s)' /\ ~panicked'
    BY <1>1, <1>3, <1>5, <1>6 DEF SessionInv, PwInv, TunnelInv
  <1>8. PwInv(s)'
    BY <1>1, <1>3, <1>5, <1>6, ZenonT(60) DEF SessionInv, PwInv
  <1>9. OverInv(s)'
    BY <1>1, <1>3, <1>5, <1>6 DEF SessionInv, PwInv, OverInv, ExitInv
  <1> QED BY <1>2, <1>4, <1>5, <1>7, <1>8, <1>9, OneSession

\* Session.Close returns.
LEMMA CloseReturns ==
  ASSUME DInv, NEW s \in Sessions, SessionCloseReturns(s)
  PROVE  DInv'
PROOF
  <1> USE Kl2tpdAssumption DEF Goroutines
  <1>1. Kl2tpdTypes /\ SessionInv(s) /\ PwInv(s) /\ OverInv(s) /\ TunnelInv /\ ExitInv /\ ~panicked
    BY DEF DInv
  <1>2. Kl2tpdTypes'
    BY <1>1 DEF Kl2tpdTypes, SessionCloseReturns, runVars, events
  <1>3. /\ session'[s] = session[s] /\ handling'[s] = handling[s]
        /\ sessionPW'[s] = sessionPW[s] /\ pw'[s] = pw[s] /\ fds'[s] = fds[s]
        /\ closer'[s] = "done" /\ (s \in detached' <=> s \in detached)
    BY <1>1 DEF Kl2tpdTypes, SessionCloseReturns, runVars, events
  <1>4. \A t \in Sessions \ {s} : Same(t)
    BY <1>1, ZenonT(60) DEF Kl2tpdTypes, Same, SessionCloseReturns, runVars, events
  <1>5. /\ handling'[TheTunnel] = handling[TheTunnel]
        /\ UNCHANGED <<tunnel, mapMade, phase, shutdown, ctxClose, closeChan>>
    BY <1>1 DEF Kl2tpdTypes, SessionCloseReturns, runVars, events
  <1>6. closer[s] = "closing" /\ session[s] = "down" /\ handling[s] = "none" /\ ~panicked'
    BY <1>1, ZenonT(60) DEF SessionCloseReturns, runVars, events
  <1>7. SessionInv(s)' /\ ~panicked'
    BY <1>1, <1>3, <1>5, <1>6, ZenonT(60) DEF SessionInv, PwInv, TunnelInv
  <1>8. PwInv(s)'
    BY <1>1, <1>3, <1>5, <1>6, ZenonT(60) DEF SessionInv, PwInv
  <1>9. OverInv(s)'
    BY <1>1, <1>3, <1>5, <1>6 DEF SessionInv, PwInv, OverInv, ExitInv
  <1> QED BY <1>2, <1>4, <1>5, <1>7, <1>8, <1>9, OneSession

\* A pppd exits.
LEMMA PppdExitKeeps ==
  ASSUME DInv, NEW s \in Sessions, PppdExits(s)
  PROVE  DInv'
PROOF
  <1> USE Kl2tpdAssumption DEF Goroutines
  <1>1. Kl2tpdTypes /\ SessionInv(s) /\ PwInv(s) /\ OverInv(s) /\ TunnelInv /\ ExitInv /\ ~panicked
    BY DEF DInv
  <1>2. Kl2tpdTypes'
    BY <1>1 DEF Kl2tpdTypes, PppdExits, runVars, events
  <1>3. /\ session'[s] = session[s] /\ handling'[s] = handling[s]
        /\ sessionPW'[s] = sessionPW[s] /\ pw'[s] = "exited" /\ fds'[s] = fds[s]
        /\ closer'[s] = closer[s] /\ (s \in detached' <=> s \in detached)
    BY <1>1, ZenonT(60) DEF Kl2tpdTypes, PppdExits, runVars, events
  <1>4. \A t \in Sessions \ {s} : Same(t)
    BY <1>1, ZenonT(60) DEF Kl2tpdTypes, Same, PppdExits, runVars, events
  <1>5. /\ handling'[TheTunnel] = handling[TheTunnel]
        /\ UNCHANGED <<tunnel, mapMade, phase, shutdown, ctxClose, closeChan>>
    BY <1>1 DEF Kl2tpdTypes, PppdExits, runVars, events
  <1>6. PwType[s] = "ppp" /\ pw[s] \in {"running", "interrupted"} /\ ~panicked'
    BY <1>1 DEF PppdExits, runVars, events
  <1>7. SessionInv(s)' /\ ~panicked'
    BY <1>1, <1>3, <1>5, <1>6, ZenonT(60) DEF SessionInv, PwInv, TunnelInv
  <1>8. PwInv(s)'
    BY <1>1, <1>3, <1>5, <1>6, ZenonT(60) DEF SessionInv, PwInv
  <1>9. OverInv(s)'
    BY <1>1, <1>3, <1>5, <1>6, ZenonT(60) DEF SessionInv, PwInv, OverInv, ExitInv
  <1> QED BY <1>2, <1>4, <1>5, <1>7, <1>8, <1>9, OneSession

\* run learns that a pppd has exited.
LEMMA CompletionKeeps ==
  ASSUME DInv, NEW s \in Sessions, SelectPwComplete(s)
  PROVE  DInv'
PROOF
  <1> USE Kl2tpdAssumption DEF Goroutines
  <1>1. Kl2tpdTypes /\ SessionInv(s) /\ PwInv(s) /\ OverInv(s) /\ TunnelInv /\ ExitInv /\ ~panicked
    BY DEF DInv
  <1>n. ~panicked' /\ closer' \in {closer, [closer EXCEPT ![s] = "started"]}
    BY <1>1 DEF PwInv, SelectPwComplete, closeSession
  <1>2. Kl2tpdTypes'
    BY <1>1, <1>n, ZenonT(60) DEF Kl2tpdTypes, SelectPwComplete, runVars, events
  <1>3. /\ session'[s] = session[s] /\ handling'[s] = handling[s]
        /\ sessionPW'[s] = sessionPW[s] /\ pw'[s] = "reported" /\ fds'[s] = fds[s]
        /\ closer'[s] \in {closer[s], "started"} /\ (s \in detached' <=> s \in detached)
    BY <1>1, <1>n, ZenonT(60) DEF Kl2tpdTypes, SelectPwComplete, runVars, events
  <1>4. ASSUME NEW t \in Sessions \ {s}
        PROVE  Same(t)
    <2>1. t \in Sessions /\ t # s
      BY <1>4
    <2>2. session'[t] = session[t] /\ handling'[t] = handling[t] /\ (t \in detached' <=> t \in detached)
      BY <1>1, <2>1 DEF Kl2tpdTypes, SelectPwComplete, events
    <2>3. sessionPW'[t] = sessionPW[t] /\ pw'[t] = pw[t]
      BY <1>1, <2>1, <1>n, ZenonT(60) DEF Kl2tpdTypes, SelectPwComplete, events
    <2>4. fds'[t] = fds[t]
      BY <1>1, <2>1, <1>n DEF Kl2tpdTypes, SelectPwComplete, events
    <2>5. closer'[t] = closer[t]
      BY <1>1, <2>1, <1>n, ZenonT(60) DEF Kl2tpdTypes, SelectPwComplete, events
    <2> QED BY <2>2, <2>3, <2>4, <2>5 DEF Same
  <1>5. /\ handling'[TheTunnel] = handling[TheTunnel]
        /\ UNCHANGED <<tunnel, mapMade, phase, shutdown, ctxClose, closeChan>>
    BY <1>1, <1>n DEF Kl2tpdTypes, SelectPwComplete, runVars, events
  <1>6. pw[s] = "exited" /\ ~panicked'
    BY <1>1, <1>n DEF SelectPwComplete, runVars, events
  <1>7. SessionInv(s)' /\ ~panicked'
    BY <1>1, <1>3, <1>5, <1>6, ZenonT(60) DEF SessionInv, PwInv, TunnelInv
  <1>8. PwInv(s)'
    BY <1>1, <1>3, <1>5, <1>6, ZenonT(60) DEF SessionInv, PwInv
  <1>9. OverInv(s)'
    BY <1>1, <1>3, <1>5, <1>6 DEF SessionInv, PwInv, OverInv, ExitInv
  <1> QED BY <1>2, <1>4, <1>5, <1>7, <1>8, <1>9, OneSession, ZenonT(60)

\* run's other steps, and the shutdown goroutine.
LEMMA RunSteps ==
  ASSUME DInv, \/ SetupFails \/ Signal \/ Loop
               \/ \E s \in Sessions : NewSession(s)
               \/ UNCHANGED vars
  PROVE  DInv'
PROOF
  <1>1. UNCHANGED <<events, handling, pwVars, panicked>>
    BY SMTT(60) DEF SetupFails, Signal, Loop, NewSession, SetupDone, SelectSignal, SelectCloseChan,
           CtxCloseReturns, WgWaitReturns, vars, events, pwVars
  <1>2. \A s \in Sessions : Same(s) /\ (SessionInv(s) => SessionInv(s)') /\ (PwInv(s) => PwInv(s)')
    BY <1>1, SMTT(60) DEF Same, SessionInv, PwInv, events, pwVars
  <1>3. Kl2tpdTypes' /\ TunnelInv' /\ ~panicked'
    BY <1>1 DEF DInv, Kl2tpdTypes, TunnelInv, events, pwVars
  <1>4. SUFFICES ExitInv' /\ \A s \in Sessions : OverInv(s)'
    BY <1>2, <1>3 DEF DInv
  <1>5. CASE CtxCloseReturns
    BY <1>1, <1>5 DEF DInv, CtxCloseReturns, ExitInv, OverInv, events, pwVars
  <1>6. CASE WgWaitReturns
    <2>1. ExitInv'
      BY <1>1, <1>6 DEF DInv, WgWaitReturns, ExitInv, events
    <2>2. ASSUME NEW s \in Sessions
          PROVE  OverInv(s)'
      <3>1. /\ SessionInv(s) /\ PwInv(s) /\ OverInv(s) /\ Kl2tpdTypes /\ ctxClose = "done"
            /\ PwType[s] = "ppp" => pw[s] \notin {"running", "interrupted", "exited"}
            /\ closer[s] \notin {"started", "closing"}
        BY <1>6, <2>2 DEF DInv, WgWaitReturns
      <3>2. /\ session[s] # "up" /\ handling[s] = "none" /\ closer[s] \in {"none", "done"}
            /\ pw[s] \notin {"running", "interrupted", "exited"}
        BY <3>1, <2>2, ZenonT(60) DEF SessionInv, PwInv, OverInv, Kl2tpdTypes
      <3> QED BY <1>1, <1>2, <3>1, <3>2, <2>2, SMTT(60) DEF OverInv, Same
    <2> QED BY <2>1, <2>2
  <1>7. CASE SelectSignal
    BY <1>1, <1>7, SMTT(60) DEF DInv, SelectSignal, ExitInv, OverInv, events, pwVars
  <1>8. CASE ~(CtxCloseReturns \/ WgWaitReturns \/ SelectSignal)
    <2>1. UNCHANGED <<shutdown, ctxClose, closeChan>> /\ (phase' = "exit0" => phase = "exit0" \/ closeChan)
      BY <1>8 DEF SetupFails, Signal, Loop, NewSession, SetupDone, SelectCloseChan, vars
    <2> QED BY <1>1, <2>1 DEF DInv, ExitInv, OverInv, events, pwVars
  <1> QED BY <1>5, <1>6, <1>7, <1>8, SMTT(60)

\* Every step of the daemon, its library and its processes keeps the invariant.
LEMMA DNextInv == DInv /\ [Next]_vars => DInv'
PROOF
  <1> SUFFICES ASSUME DInv, [Next]_vars
               PROVE  DInv'
    OBVIOUS
  <1>1. CASE TunnelUp \/ TunnelDown \/ HandleTunnelUp \/ HandleTunnelDown
    BY <1>1, TunnelSteps
  <1>2. ASSUME NEW s \in Sessions, SessionUp(s) \/ SessionDown(s)
        PROVE  DInv'
    BY <1>2, SessionUpKeeps, SessionDownKeeps
  <1>3. ASSUME NEW s \in Sessions, HandleEvent(s)
        PROVE  DInv'
    <2>1. CASE StartPppd(s) \/ StartBridge(s)
      BY <2>1, PseudowireStarts DEF StartPppd, StartBridge
    <2>2. CASE PppdFails(s) \/ BridgeFails(s) \/ Unsupported(s)
      BY <2>2, NoPseudowireStarts DEF PppdFails, BridgeFails, Unsupported
    <2>3. CASE HandleSessionDown(s)
      BY <2>3, PseudowireCloses
    <2> QED BY <1>3, <2>1, <2>2, <2>3 DEF HandleEvent
  <1>4. ASSUME NEW s \in Sessions, CallSessionClose(s) \/ SessionCloseReturns(s) \/ PppdExits(s)
        PROVE  DInv'
    BY <1>4, CloseBegins, CloseReturns, PppdExitKeeps
  <1>5. ASSUME NEW s \in Sessions, SelectPwComplete(s)
        PROVE  DInv'
    BY <1>5, CompletionKeeps
  <1>6. CASE SetupFails \/ Signal \/ Loop \/ (\E s \in Sessions : NewSession(s)) \/ UNCHANGED vars
    BY <1>6, RunSteps
  <1> QED BY <1>1, <1>2, <1>3, <1>4, <1>5, <1>6 DEF Next

\* The invariant holds throughout.
LEMMA DInvHolds == Spec => []DInv
  BY DInitInv, DNextInv, PTL DEF Spec

\* kl2tpd does not panic: no session comes up while the map of pseudowires does
\* not exist, and no session is closed twice, whatever the order in which pppds
\* exit, sessions end and bridges fail (HandleEvent, closeSession).
THEOREM DaemonNeverPanics == Spec => []NeverPanics
  <1>1. DInv => NeverPanics
    BY DEF DInv, NeverPanics
  <1> QED BY <1>1, DInvHolds, PTL

\* When the end of a session has been handled, its pppd has been told to stop
\* and its bridge's descriptors are closed (HandleEvent, closePseudowire).
THEOREM PseudowiresEnd == ASSUME NothingLeaks PROVE Spec => []PseudowireEndsWithSession
  <1>1. DInv => PseudowireEndsWithSession
    BY SMTT(60) DEF DInv, PwInv, PseudowireEndsWithSession
  <1> QED BY <1>1, DInvHolds, PTL

\* When run returns 0, no pppd, bridge, session or Session.Close is left: wg and
\* Context.Close between them have waited for all of it (run, shutdown).
THEOREM GracefulExitIsClean == ASSUME NothingLeaks PROVE Spec => []GracefulExitLeavesNothing
  <1>1. DInv => GracefulExitLeavesNothing
    BY DEF DInv, PwInv, OverInv, ExitInv, GracefulExitLeavesNothing
  <1> QED BY <1>1, DInvHolds, PTL
=============================================================================

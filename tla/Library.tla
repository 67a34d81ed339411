------------------------------ MODULE Library -------------------------------
(***************************************************************************)
(* The components of package l2tp and of its netlink client that have no   *)
(* state in common, side by side: a behaviour is one of Netlink or of one  *)
(* of the three instances below, and leaves the others alone.              *)
(***************************************************************************)
EXTENDS Netlink

CONSTANTS Calls, Kind, TunnelName, WantID, TunnelIDs, UserCloses, Overlap, XportsFail, \* Context
          Sessions, SessionName, SessionID, DataPlaneErrors, ReaderFails, \* StaticTunnel
          Handlers, Emitters, MaxEvents \* EventHandlers

\* A tunnel has one of three kinds; its ID is allocated if none is configured.
\* The zero value of a map is no tunnel or session.
ASSUME LibraryAssumption ==
  /\ Kind \in [Calls -> {"dynamic", "quiescent", "static"}]
  /\ WantID \in [Calls -> TunnelIDs] /\ 0 \in TunnelIDs
  /\ "nobody" \notin Calls \cup Sessions

VARIABLES part,
          reg, cPc, tid, held, goroutine, closeChan, xport, cClosing, closed, ctx, todo, before, cPanicked,
          sReg, sPc, dp, sessionEv, kind, open, released, tpc, sTodo, tunnelDp, tunnelEv,
          eventHandlers, status, rest, called, events

C == INSTANCE Context
       WITH Name <- TunnelName, IDs <- TunnelIDs,
            pc <- cPc, closing <- cClosing, panicked <- cPanicked

S == INSTANCE StaticTunnel
       WITH Name <- SessionName, ID <- SessionID, XportFails <- ReaderFails,
            reg <- sReg, pc <- sPc, todo <- sTodo

H == INSTANCE EventHandlers

cVars == <<reg, cPc, tid, held, goroutine, closeChan, xport, cClosing, closed, ctx, todo, before, cPanicked>>
sVars == <<sReg, sPc, dp, sessionEv, kind, open, released, tpc, sTodo, tunnelDp, tunnelEv>>
hVars == <<eventHandlers, status, rest, called, events>>
allVars == <<part, vars, cVars, sVars, hVars>>

LibraryInit == /\ part \in {"netlink", "context", "static", "handlers"}
               /\ Init /\ C!Init /\ S!Init /\ H!Init

LibraryNext ==
  /\ UNCHANGED part
  /\ IF part = "netlink" THEN Next ELSE UNCHANGED vars
  /\ IF part = "context" THEN C!Next ELSE UNCHANGED cVars
  /\ IF part = "static" THEN S!Next ELSE UNCHANGED sVars
  /\ IF part = "handlers" THEN H!Next ELSE UNCHANGED hVars

\* A component at rest has nothing to do that is owed fairness.
LibrarySpec == LibraryInit /\ [][LibraryNext]_allVars /\ Fairness /\ C!Fairness
-----------------------------------------------------------------------------
(* The properties of the instances, under their own names.                 *)

\* Context.Close tears down every tunnel that had been returned before it was
\* called, whoever else is closing or failing.
ContextClosesAll == C!ContextClosesAll

\* The context's registry holds every tunnel that runs and none whose Close()
\* has returned, however their unlinking overlaps New...Tunnel.
RegistryFollowsTunnels == C!RegistryFollowsTunnels

\* No tunnel's closeChan is closed twice: the only step that panics is the end of
\* the Close of a quiescent tunnel, when its reader has closed the transport.
OnlyQuiescentPanics == C!OnlyQuiescentPanics

\* Context.Close returns, unless the process has panicked.
ContextCloseReturns == C!ContextCloseReturns

\* Every session of a static tunnel that was up is reported down, once, by the
\* time the tunnel is closed.
OneDownPerUp == S!OneDownPerUp

\* A static session in the kernel is in its NewSession call, linked, or about
\* to be killed by closeAllSessions, also while a quiescent tunnel's reader
\* closes the tunnel; and it goes before the tunnel it is in.
NoSessionLost == S!NoSessionLost

\* handleUserEvent calls every handler that is registered: removing one with
\* UnregisterEventHandler loses no other.
RegisteredAreCalled == H!RegisteredAreCalled
=============================================================================

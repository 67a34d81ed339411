---------------------------- MODULE StaticTunnel ----------------------------
(***************************************************************************)
(* One static or quiescent tunnel and its static sessions:                 *)
(* l2tp/l2tp_static.go and l2tp/l2tp_quiescent.go.  Neither has a          *)
(* goroutine for its sessions: NewSession and the Close methods run in     *)
(* their callers, except that the reader of a quiescent tunnel closes it   *)
(* when the transport fails, which the application is not told.  The       *)
(* application makes one call at a time, Close once per session and once,  *)
(* last, for the tunnel.  (Closing a tunnel whose reader has closed it is  *)
(* in module Context.)                                                     *)
(***************************************************************************)
EXTENDS Registry, Sequences

CONSTANTS Sessions,   \* NewSession calls, and the sessions they make
          Name, ID,   \* [Sessions -> ...]; a static tunnel refuses ID 0
          DataPlaneErrors,
          XportFails  \* whether a quiescent tunnel's transport may fail

VARIABLES reg,       \* sessionsByName, sessionsByID
          pc,        \* progress of the NewSession call
          dp,        \* data plane of each session
          sessionEv, \* events reported of each session, in order
          kind,      \* "static" or "quiescent"
          open,      \* newStaticTunnel or newQuiescentTunnel has succeeded
          released,  \* the application has called Tunnel.Close
          tpc,       \* "open", "closing" (by the application or the reader), "closed"
          todo,      \* sessions closeAllSessions has yet to kill
          tunnelDp,
          tunnelEv   \* events reported of the tunnel

vars == <<reg, pc, dp, sessionEv, kind, open, released, tpc, todo, tunnelDp, tunnelEv>>
tunnelVars == <<kind, open, released, tpc, todo, tunnelDp, tunnelEv>>

Names == {Name[s] : s \in Sessions}
IDs == {ID[s] : s \in Sessions}

Init ==
  /\ reg = NewRegistry(Names, IDs)
  /\ pc = [s \in Sessions |-> "idle"]
  /\ dp = [s \in Sessions |-> "none"]
  /\ sessionEv = [s \in Sessions |-> <<>>]
  /\ kind = "static" /\ open = FALSE /\ released = FALSE /\ tpc = "closed" /\ todo = {}
  /\ tunnelDp = "none" /\ tunnelEv = <<>>

\* The tunnel is made, with its data plane at once, and no event.  Its
\* failure leaves nothing behind and is in module Context.
NewTunnel(k) ==
  /\ ~open
  /\ kind' = k
  /\ open' = TRUE /\ tpc' = "open" /\ tunnelDp' = "up"
  /\ UNCHANGED <<reg, pc, dp, sessionEv, released, todo, tunnelEv>>

\* No call is running and the application has not closed the tunnel.
CanCall ==
  /\ open /\ ~released
  /\ \A s \in Sessions : pc[s] \notin {"checked", "up"}
-----------------------------------------------------------------------------
(* NewSession: the checks, newStaticSession, linkSession.                  *)

CheckSession(s) ==
  /\ CanCall /\ pc[s] = "idle"
  /\ pc' = [pc EXCEPT ![s] =
       IF \/ kind = "static" /\ ID[s] = 0
          \/ findByName(reg, Name[s])
          \/ findByID(reg, ID[s])
       THEN "failed" ELSE "checked"]
  /\ UNCHANGED <<reg, dp, sessionEv, tunnelVars>>

\* The session is reported up before it is linked.
newStaticSession(s) ==
  /\ pc[s] = "checked"
  /\ pc' = [pc EXCEPT ![s] = "up"]
  /\ dp' = [dp EXCEPT ![s] = "up"]
  /\ sessionEv' = [sessionEv EXCEPT ![s] = Append(@, "up")]
  /\ UNCHANGED <<reg, tunnelVars>>

\* No data plane, or no interface name and the data plane taken down again.
newStaticSessionFails(s) ==
  /\ DataPlaneErrors
  /\ pc[s] = "checked"
  /\ pc' = [pc EXCEPT ![s] = "failed"]
  /\ dp' \in {dp, [dp EXCEPT ![s] = "down"]}
  /\ UNCHANGED <<reg, sessionEv, tunnelVars>>

linkSession(s) ==
  /\ pc[s] = "up"
  /\ pc' = [pc EXCEPT ![s] = "returned"]
  /\ reg' = link(reg, s, Name[s], ID[s])
  /\ UNCHANGED <<dp, sessionEv, tunnelVars>>
-----------------------------------------------------------------------------
(* Closing.                                                                *)

\* staticSession.Close and kill: not conditional on anything.
closeStaticSession(s) ==
  /\ dp' = [dp EXCEPT ![s] = "down"]
  /\ sessionEv' = [sessionEv EXCEPT ![s] = Append(@, "down")]
  /\ reg' = unlink(reg, Name[s], ID[s])

CloseSession(s) ==
  /\ CanCall /\ pc[s] = "returned"
  /\ pc' = [pc EXCEPT ![s] = "closed"]
  /\ closeStaticSession(s)
  /\ UNCHANGED tunnelVars

\* Mutant: the sessions are unlinked and not killed.
beginCloseNoSessions ==
  /\ tpc' = "closing" /\ todo' = {}
  /\ reg' = takeAll(reg, ID)
  /\ UNCHANGED <<pc, dp, sessionEv, kind, open, tunnelDp, tunnelEv>>

\* closeAllSessions empties the registry, then kills the sessions.
beginClose ==
  /\ tpc' = "closing"
  /\ todo' = Linked(reg)
  /\ reg' = takeAll(reg, ID)
  /\ UNCHANGED <<pc, dp, sessionEv, kind, open, tunnelDp, tunnelEv>>

\* Tunnel.Close by the application ...
Close == CanCall /\ tpc = "open" /\ released' = TRUE /\ beginClose

\* ... and by xportReader, whenever the transport fails.
ReaderCloses == kind = "quiescent" /\ XportFails /\ tpc = "open" /\ UNCHANGED released /\ beginClose

Kill(s) ==
  /\ tpc = "closing" /\ s \in todo
  /\ todo' = todo \ {s}
  /\ closeStaticSession(s)
  /\ UNCHANGED <<pc, kind, open, released, tpc, tunnelDp, tunnelEv>>

FinishClose ==
  /\ tpc = "closing" /\ todo = {}
  /\ tpc' = "closed" /\ tunnelDp' = "down"
  /\ UNCHANGED <<reg, pc, dp, sessionEv, kind, open, released, todo, tunnelEv>>
-----------------------------------------------------------------------------
Next ==
  \/ NewTunnel("static") \/ NewTunnel("quiescent") \/ Close \/ ReaderCloses \/ FinishClose
  \/ \E s \in Sessions : \/ CheckSession(s) \/ newStaticSession(s) \/ newStaticSessionFails(s)
                         \/ linkSession(s) \/ CloseSession(s) \/ Kill(s)

Spec == Init /\ [][Next]_vars
-----------------------------------------------------------------------------
\* Every session of a static tunnel that was up is reported down, once, by the
\* time the tunnel is closed: closeAllSessions and Session.Close do not both
\* report it.
OneDownPerUp ==
  kind = "static" => \A s \in Sessions :
    /\ sessionEv[s] \in {<<>>, <<"up">>, <<"up", "down">>}
    /\ open /\ tpc = "closed" => sessionEv[s] # <<"up">>

\* A session in the data plane is never lost track of: its NewSession call is
\* running, it is linked, or the close that unlinked it has it still to kill.
\* Those of a static tunnel go before the tunnel itself (closeAllSessions
\* before dp.Down), so the kernel is never asked to drop a tunnel in use.
NoSessionLost ==
  \A s \in Sessions : dp[s] = "up" =>
    /\ pc[s] = "up" \/ s \in Linked(reg) \/ s \in todo
    /\ kind = "static" => tunnelDp = "up"

\* Closing the tunnel removes the sessions instantiated inside it.
SessionsRemoved == open /\ tpc = "closed" => \A s \in Sessions : dp[s] # "up"

\* Static and quiescent tunnels are reported up on instantiation.
TunnelUpReported == open => tunnelEv = <<"up">>
=============================================================================

---------------------------- MODULE TunnelEvents ----------------------------
(***************************************************************************)
(* What an application may rely on about the events of one dynamic tunnel  *)
(* and its sessions (l2tp.EventHandler).  tunnel and session say what has  *)
(* been reported so far: nothing, Up, or Up and then Down.  A session that *)
(* the application itself has closed, or that failed while it was being    *)
(* set up (detached), is torn down on its own and may report late; every   *)
(* other one reports only while the tunnel is reported up, and reports     *)
(* down before the tunnel does.                                            *)
(*                                                                         *)
(* DynamicTunnel implements this specification, and Kl2tpd is checked      *)
(* against it: it takes its events from here.                              *)
(***************************************************************************)
CONSTANT Sessions

VARIABLES tunnel,    \* "none", "up" or "down"
          session,   \* the same for every session
          detached   \* sessions the tunnel no longer knows of

vars == <<tunnel, session, detached>>

Init == /\ tunnel = "none"
        /\ session = [s \in Sessions |-> "none"]
        /\ detached = {}

\* A session may report: within the tunnel's lifetime, or late if detached.
MayReport(s) == tunnel = "up" \/ (s \in detached /\ tunnel = "down")

TunnelUp == tunnel = "none" /\ tunnel' = "up" /\ UNCHANGED <<session, detached>>

\* Every session that was reported up has been reported down by then.
TunnelDown ==
  /\ tunnel = "up" /\ \A s \in Sessions \ detached : session[s] # "up"
  /\ tunnel' = "down"
  /\ UNCHANGED <<session, detached>>

SessionUp(s) ==
  /\ MayReport(s)
  /\ session[s] = "none"
  /\ session' = [session EXCEPT ![s] = "up"]
  /\ UNCHANGED <<tunnel, detached>>

SessionDown(s) ==
  /\ MayReport(s)
  /\ session[s] = "up"
  /\ session' = [session EXCEPT ![s] = "down"]
  /\ UNCHANGED <<tunnel, detached>>

Detach(s) == detached' = detached \cup {s} /\ UNCHANGED <<tunnel, session>>

Next == \/ TunnelUp
        \/ TunnelDown
        \/ \E s \in Sessions : SessionUp(s) \/ SessionDown(s) \/ Detach(s)

Spec == Init /\ [][Next]_vars
=============================================================================

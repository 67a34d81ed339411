--------------------------- MODULE DynamicSession ---------------------------
(***************************************************************************)
(* The goroutine of a dynamic session, l2tp/l2tp_dynamic_session.go.  A    *)
(* handler runs from its receive to the next channel operation in one      *)
(* step.  The session hands control messages to its tunnel over            *)
(* dt.sendChan: it is at "offer" until the tunnel's goroutine takes the    *)
(* message and at "await" until the outcome comes back.  Those two steps   *)
(* belong to the tunnel and are in DynamicTunnel, which extends this       *)
(* module.                                                                 *)
(*                                                                         *)
(* The tunnel validates a message before it forwards it and finds the      *)
(* session by its ID, so the session's own checks of the same (wrong SID,  *)
(* bad message, unknown type) never fail here.                             *)
(***************************************************************************)
EXTENDS Fsm

CONSTANTS Sessions,     \* the sessions NewSession may create
          DataPlaneErrors \* whether data plane calls may fail

VARIABLES sess,      \* one record per session, see SessionType
          linked,    \* the tunnel's session registry
          sessionEv, \* what has been reported of each session
          failed,    \* history: sessions that closed themselves inside
                     \* fsmActOnIcrp, which went on
          panicked   \* a goroutine has panicked: the process is gone

sessionVars == <<sess, linked, sessionEv, failed>>

SessionFsm == {"waittunnel", "waitreply", "established", "dead"}

SessionType ==
  [pc : {"none", "select", "offer", "await", "dataplane", "report", "exit"},
   fsm : SessionFsm,
   msg : {"none", "icrq", "iccn", "cdn"},     \* being sent
   last : BOOLEAN,        \* runSession returns after this event
   isClosed : BOOLEAN,
   established : BOOLEAN,
   dp : {"none", "up", "down"},
   closeChan : BOOLEAN,   \* closed
   killChan : BOOLEAN]    \* closed

NoSession ==
  [pc |-> "none", fsm |-> "waittunnel", msg |-> "none", last |-> FALSE,
   isClosed |-> FALSE, established |-> FALSE, dp |-> "none",
   closeChan |-> FALSE, killChan |-> FALSE]

SessionInit ==
  /\ sess = [s \in Sessions |-> NoSession]
  /\ linked = {}
  /\ sessionEv = [s \in Sessions |-> "none"]
  /\ failed = {}

SessionTable == {
  Row("waittunnel", {"tunnelopen"}, "SendIcrq", "waitreply"),
  Row("waittunnel", {"close"}, "Close", "dead"),
  Row("waitreply", {"icrp", "icrpNoSid"}, "OnIcrp", "established"),
  Row("waitreply", {"iccn"}, "Close", "dead"),
  Row("waitreply", {"cdn"}, "OnCdn", "dead"),
  Row("waitreply", {"icrq", "close"}, "SendCdn", "dead"),
  Row("established", {"cdn"}, "OnCdn", "dead"),
  Row("established", {"icrq", "icrp", "icrpNoSid", "iccn", "close"}, "SendCdn", "dead")}

\* The session's goroutine is at l, in a process that lives.
At(s, l) == ~panicked /\ sess[s].pc = l

\* Mutant: the data plane is left up.
ClosedDataPlaneUp(r) == [r EXCEPT !.established = FALSE, !.isClosed = TRUE]

\* The session's own part of fsmActClose: data plane down, closed.
Closed(r) == [r EXCEPT !.dp = IF @ = "up" THEN "down" ELSE @,
                       !.established = FALSE,
                       !.isClosed = TRUE]

\* The head of runSession's loop, or its return.
Loop(r) == [r EXCEPT !.pc = IF r.isClosed \/ r.last THEN "exit" ELSE "select",
                     !.msg = "none"]

\* Mutant: reported whether or not the session was up.
DownReportedAlways(s, r) == [sessionEv EXCEPT ![s] = "down"]

\* The event is reported only if the session was reported up.
DownReported(s, r) == IF r.established THEN [sessionEv EXCEPT ![s] = "down"] ELSE sessionEv

\* fsmActClose, after which the handler of an event returns.
fsmActClose(s, r) ==
  /\ sess' = [sess EXCEPT ![s] = Loop(Closed(r))]
  /\ sessionEv' = DownReported(s, r)
  /\ linked' = linked \ {s}
  /\ UNCHANGED failed

\* ds.sendMessage(msg), up to the send on dt.sendChan.
sendMessage(s, r, m) ==
  /\ sess' = [sess EXCEPT ![s] = [r EXCEPT !.pc = "offer", !.msg = m]]
  /\ UNCHANGED <<linked, sessionEv, failed>>

\* handleEvent(ev) for session s in state r.  icrpNoSid is an ICRP whose
\* session ID cannot be decoded: fsmActOnIcrp raises "close" at once, in the
\* state "established" it is already in, and that sends a CDN.
handleSessionEvent(s, r, ev) ==
  LET to == [r EXCEPT !.fsm = StateAfter(SessionTable, r.fsm, ev)]
      cb == Callback(SessionTable, r.fsm, ev)
  IN IF ~Handles(SessionTable, r.fsm, ev)
       THEN fsmActClose(s, r)
       ELSE \/ cb = "SendIcrq" /\ sendMessage(s, to, "icrq")
            \/ cb = "OnIcrp" /\ ev = "icrp" /\ sendMessage(s, to, "iccn")
            \/ cb = "OnIcrp" /\ ev = "icrpNoSid" /\ sendMessage(s, [to EXCEPT !.fsm = "dead"], "cdn")
            \/ cb = "SendCdn" /\ sendMessage(s, to, "cdn")
            \/ cb \in {"Close", "OnCdn"} /\ fsmActClose(s, to)

\* The outcome of dt.sendMessage arrives.  An error closes the session inside
\* sendMessage, and the caller does not learn of it: fsmActOnIcrp goes on to
\* the data plane all the same.
SendReturned(s, ok) ==
  LET r == sess[s] IN
  \/ /\ r.msg = "icrq" /\ ok
     /\ sess' = [sess EXCEPT ![s] = Loop(r)]
     /\ UNCHANGED <<linked, sessionEv, failed>>
  \/ /\ r.msg = "iccn"
     /\ sess' = [sess EXCEPT ![s] = [(IF ok THEN r ELSE Closed(r)) EXCEPT !.pc = "dataplane"]]
     /\ linked' = IF ok THEN linked ELSE linked \ {s}
     /\ failed' = IF ok THEN failed ELSE failed \cup {s}
     /\ UNCHANGED sessionEv
  \/ /\ r.msg = "cdn" \/ (r.msg = "icrq" /\ ~ok)
     /\ fsmActClose(s, r)

\* The rest of fsmActOnIcrp.  When the interface name cannot be had the
\* session is closed, and then reported up all the same.
DataPlaneUp(s) ==
  /\ At(s, "dataplane")
  /\ sess' = [sess EXCEPT ![s].dp = "up", ![s].pc = "report"]
  /\ UNCHANGED <<linked, sessionEv, failed>>

DataPlaneFails(s) ==
  /\ DataPlaneErrors
  /\ At(s, "dataplane")
  /\ fsmActClose(s, sess[s])

InterfaceNameFails(s) ==
  /\ DataPlaneErrors
  /\ At(s, "dataplane")
  /\ sess' = [sess EXCEPT ![s] = Closed([@ EXCEPT !.dp = "up", !.pc = "report"])]
  /\ linked' = linked \ {s}
  /\ failed' = failed \cup {s}
  /\ UNCHANGED sessionEv

ReportUp(s) ==
  /\ At(s, "report")
  /\ sess' = [sess EXCEPT ![s] = Loop([@ EXCEPT !.established = TRUE])]
  /\ sessionEv' = [sessionEv EXCEPT ![s] = "up"]
  /\ UNCHANGED <<linked, failed>>

\* The two cases of runSession's select that need no partner.
KillCase(s) ==
  /\ At(s, "select") /\ sess[s].killChan
  /\ fsmActClose(s, [sess[s] EXCEPT !.last = TRUE])

CloseCase(s) ==
  /\ At(s, "select") /\ sess[s].closeChan
  /\ handleSessionEvent(s, [sess[s] EXCEPT !.last = TRUE], "close")

SessionStep(s) ==
  \/ DataPlaneUp(s) \/ DataPlaneFails(s) \/ InterfaceNameFails(s) \/ ReportUp(s)
  \/ KillCase(s) \/ CloseCase(s)
=============================================================================

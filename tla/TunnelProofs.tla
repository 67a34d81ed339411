---------------------------- MODULE TunnelProofs ----------------------------
(***************************************************************************)
(* For any set of sessions, any messages of the peer in any order and any  *)
(* failures: a dynamic tunnel with its sessions implements TunnelEvents,   *)
(* and ends its sessions before itself.                                    *)
(***************************************************************************)
EXTENDS DynamicTunnel, TLAPS

TunnelTypes ==
  /\ sess \in [Sessions -> SessionType]
  /\ sessionEv \in [Sessions -> {"none", "up", "down"}]
  /\ call \in [Sessions -> CallType]
  /\ tx \in [Callers -> {"none", "queued", "stuck"}]
  /\ linked \subseteq Sessions /\ todo \subseteq Sessions /\ failed \subseteq Sessions
  /\ cur # <<>> => cur[1] \in Sessions
  /\ tpc \in {"start", "select", "sccrq", "scccn", "stopccn", "notify", "newsession",
              "forward", "pend", "closing", "exit"}
  /\ fsm \in {"idle", "waitctlreply", "established", "dead"}
  /\ xport \in {"up", "down", "closed"}
  /\ tunnelEv \in {"none", "up", "down"}
  /\ isClosing \in BOOLEAN /\ tlast \in BOOLEAN /\ established \in BOOLEAN

\* The tunnel's goroutine: where it is against its FSM, its transport and what
\* it has reported.
GoroutineInv ==
  /\ tpc = "start" => fsm = "idle"
  /\ tpc = "sccrq" => fsm = "waitctlreply"
  /\ tpc \in {"scccn", "notify"} => fsm = "established" /\ tunnelEv = "none"
  /\ tpc = "notify" => dp = "up" /\ xport # "closed"
  /\ tpc \in {"stopccn", "pend"} => fsm = "dead"
  /\ tpc = "forward" => fsm = "established"
  /\ tpc \in {"newsession", "forward"} => cur # <<>>
  /\ fsm \in {"idle", "waitctlreply"} => tunnelEv = "none"
  /\ tpc = "closing" => isClosing /\ xport # "closed" /\ linked = {}
  /\ isClosing => tpc = "closing" \/ xport = "closed"
  /\ xport = "closed" => isClosing /\ tunnelEv # "up"
  /\ tunnelEv = "down" => xport = "closed"
  /\ established <=> tunnelEv = "up"
  /\ tunnelEv = "up" => dp = "up"
  /\ tunnelEv = "up" /\ tpc = "closing" => tlast \/ fsm = "dead"
  /\ tunnelEv = "down" => tpc = "exit" \/ (fsm = "dead" /\ tpc \in {"select", "newsession"})
  /\ fsm = "established" /\ tunnelEv = "none" /\ tpc \in {"select", "newsession", "forward"} =>
       xport = "closed"

\* A session's record by itself.
RecordInv(s) ==
  LET r == sess[s] IN
  /\ call[s] = "idle" => r.pc = "none" /\ r.fsm = "waittunnel"
  /\ r.pc = "offer" \/ r.pc = "await" =>
       \/ r.msg = "icrq" /\ r.fsm = "waitreply"
       \/ r.msg = "iccn" /\ r.fsm = "established" /\ sessionEv[s] = "none"
       \/ r.msg = "cdn" /\ r.fsm = "dead"
  /\ r.pc \in {"dataplane", "report"} => r.fsm = "established" /\ sessionEv[s] = "none"
  /\ r.fsm \in {"waittunnel", "waitreply"} => sessionEv[s] = "none"
  /\ r.established <=> sessionEv[s] = "up"
  /\ r.pc = "exit" /\ r.established => s \in failed
  /\ r.isClosed => r.pc = "exit" \/ s \in failed
  /\ r.last => r.pc = "exit" \/ r.fsm = "dead"
  /\ r.dp = "up" => r.fsm \in {"established", "dead"} /\ (r.pc # "exit" \/ s \in failed)
  /\ tx[s] = "queued" => r.pc = "await"

\* The session has been started and its goroutine has not ended; it is the
\* tunnel's business to end it.
Live(s) == s \notin Detached /\ sess[s].fsm # "waittunnel" /\ sess[s].pc # "exit"

\* A session against its tunnel: it gets no further than to offer its ICRQ
\* before the tunnel has been reported up; the tunnel knows of it, or is about
\* to kill it, as long as it is live; and it is not once the tunnel is down.
SessionInv(s) ==
  /\ ~panicked /\ tunnelEv = "none" /\ sess[s].fsm # "waittunnel" =>
       \/ sess[s].pc = "exit"
       \/ sess[s].pc = "offer" /\ sess[s].msg = "icrq" /\ (tpc = "notify" \/ xport = "closed")
  /\ Live(s) => \/ s \in linked
                \/ tpc = "closing" /\ (s \in todo \/ (cur # <<>> /\ cur[1] = s))
  /\ tunnelEv = "down" => ~Live(s)
  /\ sess[s].dp = "up" /\ s \notin Detached => tunnelEv = "up"

\* What the tunnel is about to tell a session, it tells one it knows of.
Known(s) == s \in linked \/ s \in Detached \/ sess[s].pc = "exit"
ListInv ==
  /\ tpc = "forward" => Known(cur[1])
  /\ tpc = "notify" => \A s \in todo : Known(s)

TInv == /\ TunnelTypes /\ GoroutineInv /\ ListInv
        /\ \A s \in Sessions : RecordInv(s) /\ SessionInv(s)
        /\ panicked \in BOOLEAN /\ EstablishedNeverPanics
-----------------------------------------------------------------------------
(* The FSM tables.                                                         *)

\* handleEvent takes a row of the table for the state and the event.
LEMMA RowTaken ==
  ASSUME NEW table, NEW f, NEW ev, Handles(table, f, ev)
  PROVE  \E r \in table : /\ r.from = f /\ ev \in r.events
                          /\ StateAfter(table, f, ev) = r.to /\ Callback(table, f, ev) = r.cb
  <1> DEFINE r == CHOOSE r \in RowsFor(table, f, ev) : TRUE
  <1>1. r \in RowsFor(table, f, ev)
    BY DEF Handles
  <1> QED BY <1>1, Zenon DEF RowsFor, StateAfter, Callback

\* An event of a row is handled in the state the row is from.
LEMMA RowExists ==
  ASSUME NEW table, NEW r \in table, NEW ev \in r.events
  PROVE  Handles(table, r.from, ev)
  BY DEF Handles, RowsFor

\* What an event can do to the tunnel's FSM.
LEMMA TunnelMoves ==
  ASSUME NEW f, NEW ev, Handles(TunnelTable, f, ev)
  PROVE  LET cb == Callback(TunnelTable, f, ev)
             to == StateAfter(TunnelTable, f, ev)
         IN \/ f = "idle" /\ ev = "open" /\ cb = "SendSccrq" /\ to = "waitctlreply"
            \/ f = "waitctlreply" /\ cb = "OnSccrp" /\ to = "established"
            \/ f \in {"waitctlreply", "established"} /\ cb \in {"OnStopccn", "SendStopccn"} /\ to = "dead"
            \/ f = "waitctlreply" /\ cb \in {"LinkSession", "nil"} /\ to = f
            \/ f = "established" /\ cb \in {"StartSession", "ForwardSessionMsg"} /\ to = f
  <1>1. PICK r \in TunnelTable : /\ r.from = f /\ ev \in r.events
                                 /\ StateAfter(TunnelTable, f, ev) = r.to
                                 /\ Callback(TunnelTable, f, ev) = r.cb
    BY RowTaken
  <1> QED BY <1>1 DEF TunnelTable, Row

\* An established tunnel has a row for everything.
LEMMA EstablishedHandles ==
  ASSUME NEW ev \in {"sccrq", "sccrp", "sccrpNoTid", "scccn", "stopccn", "close", "newsession", "sessionmsg"}
  PROVE  Handles(TunnelTable, "established", ev)
  <1>1. \E r \in TunnelTable : r.from = "established" /\ ev \in r.events
    BY DEF TunnelTable, Row
  <1> QED BY <1>1, RowExists

\* What an event can do to a session's FSM.
LEMMA SessionMoves ==
  ASSUME NEW f, NEW ev, Handles(SessionTable, f, ev)
  PROVE  LET cb == Callback(SessionTable, f, ev)
             to == StateAfter(SessionTable, f, ev)
         IN \/ f = "waittunnel" /\ ev = "tunnelopen" /\ cb = "SendIcrq" /\ to = "waitreply"
            \/ f = "waitreply" /\ cb = "OnIcrp" /\ to = "established"
            \/ cb \in {"Close", "OnCdn"} /\ to = "dead"
            \/ f \in {"waitreply", "established"} /\ cb = "SendCdn" /\ to = "dead"
  <1>1. PICK r \in SessionTable : /\ r.from = f /\ ev \in r.events
                                  /\ StateAfter(SessionTable, f, ev) = r.to
                                  /\ Callback(SessionTable, f, ev) = r.cb
    BY RowTaken
  <1> QED BY <1>1 DEF SessionTable, Row
-----------------------------------------------------------------------------
(* Steps of one session.                                                   *)

\* A step of session s leaves the other sessions alone.
OthersSame(s) ==
  \A t \in Sessions \ {s} :
    /\ sess'[t] = sess[t] /\ sessionEv'[t] = sessionEv[t] /\ tx'[t] = tx[t]
    /\ (t \in linked' <=> t \in linked) /\ (t \in failed' <=> t \in failed)

\* A step of one session keeps what the invariant says of another.
LEMMA OthersKeep ==
  ASSUME TInv, NEW s \in Sessions, NEW t \in Sessions, t # s, OthersSame(s),
         UNCHANGED <<tunnelEv, xport>>, panicked => panicked', call'[t] = call[t],
         \/ UNCHANGED <<tpc, cur>> /\ todo \ {s} \subseteq todo'
         \/ tpc = "forward"
  PROVE  RecordInv(t)' /\ SessionInv(t)' /\ (Known(t) => Known(t)')
PROOF
  <1>1. /\ sess'[t] = sess[t] /\ sessionEv'[t] = sessionEv[t] /\ tx'[t] = tx[t] /\ call'[t] = call[t]
        /\ (t \in linked' <=> t \in linked) /\ (t \in failed' <=> t \in failed)
    BY DEF OthersSame
  <1>2. t \in Detached' <=> t \in Detached
    BY <1>1 DEF Detached
  <1>3. RecordInv(t) /\ SessionInv(t)
    BY DEF TInv
  <1>4. RecordInv(t)'
    BY <1>1, <1>3 DEF RecordInv
  <1>5. SessionInv(t)'
    BY <1>1, <1>2, <1>3 DEF SessionInv, Live
  <1>6. Known(t) => Known(t)'
    BY <1>1, <1>2 DEF Known
  <1> QED BY <1>4, <1>5, <1>6

\* A step of session s, or of its user.
LEMMA OneSessionStep ==
  ASSUME TInv, NEW s \in Sessions, TunnelTypes', OthersSame(s), ~panicked,
         \A t \in Sessions \ {s} : call'[t] = call[t],
         UNCHANGED <<fsm, tpc, tlast, todo, cur, isClosing, established, dp, xport, tunnelEv>>,
         panicked' \in BOOLEAN, EstablishedNeverPanics', linked' \subseteq linked,
         RecordInv(s)', SessionInv(s)', Known(s) => Known(s)'
  PROVE  TInv'
PROOF
  <1>1. \A t \in Sessions : (RecordInv(t) /\ SessionInv(t))' /\ (Known(t) => Known(t)')
    BY OthersKeep
  <1>2. GoroutineInv'
    BY DEF TInv, GoroutineInv
  <1>3. ListInv'
    BY <1>1 DEF TInv, ListInv, TunnelTypes, GoroutineInv
  <1> QED BY <1>1, <1>2, <1>3 DEF TInv

\* A step of session s in which its tunnel takes no part.
LEMMA OwnStep ==
  ASSUME TInv, NEW s \in Sessions, TunnelTypes', OthersSame(s),
         UNCHANGED <<fsm, tpc, tlast, todo, cur, isClosing, established, dp, xport, call, tunnelEv, panicked>>,
         linked' \subseteq linked, failed \subseteq failed',
         RecordInv(s)', SessionInv(s)', Known(s) => Known(s)'
  PROVE  TInv'
PROOF
  <1>1. \A t \in Sessions : (RecordInv(t) /\ SessionInv(t))' /\ (Known(t) => Known(t)')
    BY OthersKeep
  <1>2. GoroutineInv'
    BY DEF TInv, GoroutineInv
  <1>3. ListInv'
    BY <1>1 DEF TInv, ListInv, TunnelTypes, GoroutineInv
  <1>4. EstablishedNeverPanics'
    BY DEF TInv, EstablishedNeverPanics, Detached
  <1> QED BY <1>1, <1>2, <1>3, <1>4 DEF TInv

\* A step of session s that takes what the tunnel had for it.
LEMMA TakenStep ==
  ASSUME TInv, NEW s \in Sessions, TunnelTypes', OthersSame(s), ~panicked,
         UNCHANGED <<fsm, tlast, isClosing, established, dp, xport, call, tunnelEv, panicked>>,
         \/ tpc = "notify" /\ UNCHANGED <<tpc, cur>> /\ todo' = todo \ {s}
         \/ tpc = "forward" /\ tpc' = "select",
         linked' \subseteq linked, failed \subseteq failed',
         RecordInv(s)', SessionInv(s)'
  PROVE  TInv'
PROOF
  <1>1. ASSUME NEW t \in Sessions, t # s
        PROVE  (RecordInv(t) /\ SessionInv(t))' /\ (Known(t) => Known(t)')
    BY <1>1, OthersKeep
  <1>2. GoroutineInv'
    BY DEF TInv, GoroutineInv
  <1>3. ListInv'
    BY <1>1 DEF TInv, ListInv, TunnelTypes
  <1>4. EstablishedNeverPanics'
    BY DEF TInv, EstablishedNeverPanics
  <1> QED BY <1>1, <1>2, <1>3, <1>4 DEF TInv

\* A step of TunnelEvents, or one that the application does not see.
EventStep == [Events!Next]_(Events!vars)

\* What fsmActClose does to the session's record.
LEMMA ClosedRecord ==
  ASSUME NEW s \in Sessions, NEW r \in SessionType, fsmActClose(s, r)
  PROVE  \E q \in SessionType :
           /\ sess' = [sess EXCEPT ![s] = q]
           /\ q.pc = "exit" /\ q.fsm = r.fsm /\ q.msg = "none" /\ q.last = r.last
           /\ q.isClosed /\ ~q.established /\ q.dp # "up"
PROOF
  <1> DEFINE q == Loop(Closed(r))
  <1>1. Closed(r) \in SessionType /\ Closed(r).isClosed /\ Closed(r).fsm = r.fsm /\ Closed(r).last = r.last
        /\ ~Closed(r).established /\ Closed(r).dp # "up"
    BY Zenon DEF Closed, SessionType
  <1>2. /\ q \in SessionType /\ q.pc = "exit" /\ q.fsm = Closed(r).fsm /\ q.msg = "none"
        /\ q.last = Closed(r).last /\ q.isClosed = Closed(r).isClosed
        /\ q.established = Closed(r).established /\ q.dp = Closed(r).dp
    BY <1>1, Zenon DEF Loop, SessionType
  <1> HIDE DEF q
  <1>3. sess' = [sess EXCEPT ![s] = q]
    BY DEF fsmActClose, q
  <1> QED BY Zenon, <1>1, <1>2, <1>3

\* A session that has been reported up may report down.
LEMMA UpMayReport ==
  ASSUME TInv, NEW s \in Sessions, ~panicked, sess[s].fsm # "waittunnel", sess[s].pc # "exit",
         sess[s].pc # "offer" \/ sess[s].msg # "icrq"
  PROVE  tunnelEv = "up" \/ (s \in Detached /\ tunnelEv = "down")
  BY DEF TInv, SessionInv, Live, TunnelTypes

\* fsmActClose, called from anywhere.
LEMMA SessionCloses ==
  ASSUME TInv, NEW s \in Sessions, ~panicked, sess[s].pc \in {"select", "offer", "await", "dataplane"},
         NEW r \in SessionType, r.established = sess[s].established,
         r.fsm = sess[s].fsm \/ r.fsm = "dead",
         fsmActClose(s, r),
         \A t \in Sessions \ {s} : tx'[t] = tx[t],
         tx'[s] # "queued", UNCHANGED <<tunnelEv, xport, panicked, call>>
  PROVE  /\ sess' \in [Sessions -> SessionType] /\ sessionEv' \in [Sessions -> {"none", "up", "down"}]
         /\ linked' \subseteq linked /\ failed' = failed
         /\ OthersSame(s) /\ RecordInv(s)' /\ SessionInv(s)' /\ Known(s)' /\ EventStep
PROOF
  <1>1. PICK q \in SessionType :
           /\ sess' = [sess EXCEPT ![s] = q]
           /\ q.pc = "exit" /\ q.fsm = r.fsm /\ q.msg = "none" /\ q.last = r.last
           /\ q.isClosed /\ ~q.established /\ q.dp # "up"
    BY ClosedRecord
  <1>2. linked' = linked \ {s} /\ failed' = failed /\ sessionEv' = DownReported(s, r)
    BY DEF fsmActClose
  <1>3. TunnelTypes /\ RecordInv(s) /\ SessionInv(s)
    BY DEF TInv
  <1>4. /\ sess' \in [Sessions -> SessionType] /\ sess'[s] = q
        /\ \A t \in Sessions \ {s} : sess'[t] = sess[t]
    BY <1>1, <1>3 DEF TunnelTypes
  <1>5. /\ sessionEv' \in [Sessions -> {"none", "up", "down"}]
        /\ \A t \in Sessions \ {s} : sessionEv'[t] = sessionEv[t]
        /\ sessionEv'[s] = IF sess[s].established THEN "down" ELSE sessionEv[s]
    BY <1>2, <1>3 DEF TunnelTypes, DownReported
  <1>6. OthersSame(s)
    BY <1>2, <1>4, <1>5 DEF OthersSame
  <1>7. RecordInv(s)'
    BY <1>1, <1>2, <1>3, <1>4, <1>5 DEF RecordInv
  <1>8. SessionInv(s)' /\ Known(s)'
    BY <1>1, <1>4 DEF SessionInv, Live, Known
  <1>9. EventStep
    <2>1. Detached' = Detached
      BY <1>2 DEF Detached
    <2>2. CASE ~sess[s].established
      <3>1. sessionEv' = sessionEv
        BY <2>2, <1>2 DEF DownReported
      <3> QED BY <2>1, <3>1 DEF EventStep, Events!vars
    <2>3. CASE sess[s].established
      <3>1. sessionEv[s] = "up" /\ sessionEv' = [sessionEv EXCEPT ![s] = "down"]
        BY <2>3, <1>2, <1>3 DEF RecordInv, DownReported
      <3>2. tunnelEv = "up" \/ (s \in Detached /\ tunnelEv = "down")
        BY <3>1, <1>3, UpMayReport DEF RecordInv
      <3> QED BY <2>1, <3>1, <3>2, Zenon DEF EventStep, Events!Next, Events!SessionDown, Events!MayReport
    <2> QED BY <2>2, <2>3
  <1> QED BY <1>2, <1>4, <1>5, <1>6, <1>7, <1>8, <1>9

\* A session begins to offer a message to its tunnel.
LEMMA SessionOffers ==
  ASSUME TInv, NEW s \in Sessions, ~panicked, sess[s].pc = "select",
         NEW q \in SessionType, sess' = [sess EXCEPT ![s] = q], q.pc = "offer",
         q.established = sess[s].established, q.dp = sess[s].dp, q.isClosed = sess[s].isClosed,
         \/ /\ q.msg = "icrq" /\ sess[s].fsm = "waittunnel" /\ q.fsm = "waitreply" /\ q.last = sess[s].last
            /\ tpc \in {"notify", "forward"} /\ Known(s)
         \/ q.msg = "iccn" /\ sess[s].fsm = "waitreply" /\ q.fsm = "established" /\ q.last = sess[s].last
         \/ q.msg = "cdn" /\ sess[s].fsm \in {"waitreply", "established"} /\ q.fsm = "dead",
         UNCHANGED <<linked, sessionEv, failed, tx, tunnelEv, xport, panicked, call>>,
         (UNCHANGED <<tpc, cur>> /\ todo \ {s} \subseteq todo') \/ tpc = "forward",
         tpc = "notify" \/ todo' = todo
  PROVE  /\ sess' \in [Sessions -> SessionType]
         /\ OthersSame(s) /\ RecordInv(s)' /\ SessionInv(s)' /\ (Known(s) => Known(s)') /\ EventStep
PROOF
  <1>1. TunnelTypes /\ RecordInv(s) /\ SessionInv(s) /\ GoroutineInv
    BY DEF TInv
  <1>2. sess' \in [Sessions -> SessionType] /\ sess'[s] = q /\ \A t \in Sessions \ {s} : sess'[t] = sess[t]
    BY <1>1 DEF TunnelTypes
  <1>3. OthersSame(s)
    BY <1>2 DEF OthersSame
  <1>4. Detached' = Detached
    BY DEF Detached
  <1>5. RecordInv(s)'
    BY <1>1, <1>2 DEF RecordInv
  <1>6. SessionInv(s)' /\ (Known(s) => Known(s)')
    <2>1. CASE q.msg = "icrq"
      <3>1. /\ tunnelEv # "down" /\ (tunnelEv = "none" => tpc = "notify" \/ xport = "closed")
            /\ sess[s].dp # "up" /\ (s \notin Detached => s \in linked)
            /\ tpc' = "notify" \/ tpc = "forward"
        BY <2>1, <1>1 DEF GoroutineInv, RecordInv, Known
      <3> QED BY <2>1, <3>1, <1>1, <1>2, <1>4 DEF SessionInv, Live, Known
    <2>2. CASE q.msg # "icrq"
      <3>1. tunnelEv # "none" /\ sess[s].fsm # "waittunnel"
        BY <2>2, <1>1 DEF SessionInv
      <3>2. s \notin Detached => Live(s)
        BY <3>1 DEF Live
      <3> QED BY <3>1, <3>2, <1>1, <1>2, <1>4 DEF SessionInv, Live, Known
    <2> QED BY <2>1, <2>2
  <1>7. EventStep
    BY <1>4 DEF EventStep, Events!vars
  <1> QED BY <1>2, <1>3, <1>5, <1>6, <1>7

\* handleEvent for any event; "tunnelopen" comes from the tunnel only, and
\* r.last is set for "close" only.
LEMMA SessionHandles ==
  ASSUME TInv, NEW s \in Sessions, ~panicked, sess[s].pc = "select", NEW ev,
         NEW r, r = sess[s] \/ (ev = "close" /\ r = [sess[s] EXCEPT !.last = TRUE]),
         handleSessionEvent(s, r, ev),
         ev = "tunnelopen" => tpc \in {"notify", "forward"} /\ Known(s),
         UNCHANGED <<tx, tunnelEv, xport, panicked, call>>,
         (UNCHANGED <<tpc, cur>> /\ todo \ {s} \subseteq todo') \/ tpc = "forward",
         tpc = "notify" \/ todo' = todo
  PROVE  /\ sess' \in [Sessions -> SessionType] /\ sessionEv' \in [Sessions -> {"none", "up", "down"}]
         /\ linked' \subseteq linked /\ failed' = failed
         /\ OthersSame(s) /\ RecordInv(s)' /\ SessionInv(s)' /\ (Known(s) => Known(s)') /\ EventStep
PROOF
  <1>1. TunnelTypes /\ RecordInv(s)
    BY DEF TInv
  <1>2. sess[s] \in SessionType
    BY <1>1 DEF TunnelTypes
  <1>3. /\ r \in SessionType /\ r.established = sess[s].established /\ r.dp = sess[s].dp
        /\ r.isClosed = sess[s].isClosed /\ r.fsm = sess[s].fsm
        /\ ev # "close" => r.last = sess[s].last
    BY <1>2, Zenon DEF SessionType
  <1>4. tx'[s] # "queued"
    BY <1>1 DEF RecordInv
  <1>5. ASSUME NEW c \in SessionType, fsmActClose(s, c), c.established = r.established,
               c.fsm = r.fsm \/ c.fsm = "dead"
        PROVE  /\ sess' \in [Sessions -> SessionType] /\ sessionEv' \in [Sessions -> {"none", "up", "down"}]
               /\ linked' \subseteq linked /\ failed' = failed
               /\ OthersSame(s) /\ RecordInv(s)' /\ SessionInv(s)' /\ Known(s)' /\ EventStep
    BY <1>3, <1>4, <1>5, SessionCloses
  <1>6. CASE ~Handles(SessionTable, r.fsm, ev)
    BY <1>3, <1>5, <1>6 DEF handleSessionEvent
  <1>7. CASE Handles(SessionTable, r.fsm, ev)
    <2> DEFINE f == StateAfter(SessionTable, r.fsm, ev)
               cb == Callback(SessionTable, r.fsm, ev)
               to == [r EXCEPT !.fsm = f]
    <2>1. \/ r.fsm = "waittunnel" /\ ev = "tunnelopen" /\ cb = "SendIcrq" /\ f = "waitreply"
          \/ r.fsm = "waitreply" /\ cb = "OnIcrp" /\ f = "established"
          \/ cb \in {"Close", "OnCdn"} /\ f = "dead"
          \/ r.fsm \in {"waitreply", "established"} /\ cb = "SendCdn" /\ f = "dead"
      BY <1>7, SessionMoves
    <2>2. \/ cb = "SendIcrq" /\ sendMessage(s, to, "icrq")
          \/ cb = "OnIcrp" /\ ev = "icrp" /\ sendMessage(s, to, "iccn")
          \/ cb = "OnIcrp" /\ ev = "icrpNoSid" /\ sendMessage(s, [to EXCEPT !.fsm = "dead"], "cdn")
          \/ cb = "SendCdn" /\ sendMessage(s, to, "cdn")
          \/ cb \in {"Close", "OnCdn"} /\ fsmActClose(s, to)
      BY <1>7 DEF handleSessionEvent
    <2> HIDE DEF f, cb
    <2>3. f \in SessionFsm
      BY <2>1 DEF SessionFsm
    <2>4. /\ to \in SessionType /\ to.fsm = f /\ to.established = r.established /\ to.dp = r.dp
          /\ to.isClosed = r.isClosed /\ to.last = r.last
      BY <1>3, <2>3 DEF SessionType
    <2> HIDE DEF to
    <2>5. CASE cb \in {"Close", "OnCdn"} /\ fsmActClose(s, to)
      BY <1>5, <2>1, <2>4, <2>5
    <2>6. ASSUME NEW c \in SessionType, NEW m \in {"icrq", "iccn", "cdn"}, sendMessage(s, c, m),
                 c.established = r.established, c.dp = r.dp, c.isClosed = r.isClosed, c.last = r.last,
                 \/ m = "icrq" /\ r.fsm = "waittunnel" /\ c.fsm = "waitreply" /\ ev = "tunnelopen"
                 \/ m = "iccn" /\ r.fsm = "waitreply" /\ c.fsm = "established" /\ ev = "icrp"
                 \/ m = "cdn" /\ r.fsm \in {"waitreply", "established"} /\ c.fsm = "dead"
          PROVE  /\ sess' \in [Sessions -> SessionType] /\ sessionEv' \in [Sessions -> {"none", "up", "down"}]
                 /\ linked' \subseteq linked /\ failed' = failed
                 /\ OthersSame(s) /\ RecordInv(s)' /\ SessionInv(s)' /\ (Known(s) => Known(s)') /\ EventStep
      <3> DEFINE q == [c EXCEPT !.pc = "offer", !.msg = m]
      <3>1. /\ q \in SessionType /\ q.pc = "offer" /\ q.msg = m /\ q.fsm = c.fsm
            /\ q.established = c.established /\ q.dp = c.dp /\ q.isClosed = c.isClosed /\ q.last = c.last
        BY <2>6, Zenon DEF SessionType
      <3>2. sess' = [sess EXCEPT ![s] = q] /\ UNCHANGED <<linked, sessionEv, failed>>
        BY <2>6 DEF sendMessage
      <3> HIDE DEF q
      <3>3. /\ sess' \in [Sessions -> SessionType]
            /\ OthersSame(s) /\ RecordInv(s)' /\ SessionInv(s)' /\ (Known(s) => Known(s)') /\ EventStep
        BY Zenon, <1>3, <2>6, <3>1, <3>2, SessionOffers
      <3> QED BY <1>1, <3>2, <3>3 DEF TunnelTypes
    <2>7. CASE cb = "SendIcrq" /\ sendMessage(s, to, "icrq")
      BY <2>1, <2>4, <2>6, <2>7
    <2>8. CASE cb = "OnIcrp" /\ ev = "icrp" /\ sendMessage(s, to, "iccn")
      BY <2>1, <2>4, <2>6, <2>8
    <2>9. CASE cb = "SendCdn" /\ sendMessage(s, to, "cdn")
      BY <2>1, <2>4, <2>6, <2>9
    <2>10. CASE cb = "OnIcrp" /\ ev = "icrpNoSid" /\ sendMessage(s, [to EXCEPT !.fsm = "dead"], "cdn")
      <3> DEFINE c == [to EXCEPT !.fsm = "dead"]
      <3>1. /\ c \in SessionType /\ c.fsm = "dead" /\ c.established = to.established /\ c.dp = to.dp
            /\ c.isClosed = to.isClosed /\ c.last = to.last
        BY <2>4 DEF SessionType, SessionFsm
      <3>2. sendMessage(s, c, "cdn")
        BY <2>10
      <3> HIDE DEF c
      <3> QED BY <2>1, <2>4, <2>6, <2>10, <3>1, <3>2
    <2> QED BY <2>2, <2>5, <2>7, <2>8, <2>9, <2>10
  <1> QED BY <1>6, <1>7

\* A session that stays where its tunnel knows it: what SessionInv then needs.
LEMMA SessionGoesOn ==
  ASSUME TInv, NEW s \in Sessions, ~panicked,
         sess[s].pc \in {"offer", "await", "dataplane", "report"}, tunnelEv # "none",
         NEW q \in SessionType, sess' = [sess EXCEPT ![s] = q], q.fsm = sess[s].fsm,
         \/ linked' = linked /\ failed' = failed
         \/ linked' = linked \ {s} /\ failed' = failed \cup {s},
         q.dp = "up" /\ s \notin failed' => q.pc # "exit",
         UNCHANGED <<tpc, todo, cur, tunnelEv, xport, panicked, call>>
  PROVE  /\ sess' \in [Sessions -> SessionType] /\ sess'[s] = q
         /\ \A t \in Sessions \ {s} : sess'[t] = sess[t]
         /\ SessionInv(s)' /\ (Known(s) => Known(s)')
PROOF
  <1>1. TunnelTypes /\ RecordInv(s) /\ SessionInv(s)
    BY DEF TInv
  <1>2. /\ sess' \in [Sessions -> SessionType] /\ sess'[s] = q
        /\ \A t \in Sessions \ {s} : sess'[t] = sess[t]
    BY <1>1 DEF TunnelTypes
  <1>3. CASE s \in failed'
    <2>1. s \in Detached'
      BY <1>3 DEF Detached
    <2> QED BY <1>2, <2>1 DEF SessionInv, Live, Known
  <1>4. CASE s \notin failed'
    <2>1. linked' = linked /\ (s \in Detached' <=> s \in Detached)
      BY <1>4 DEF Detached
    <2>2. sess[s].fsm # "waittunnel" \/ sess[s].pc = "none"
      BY <1>1 DEF RecordInv
    <2>3. s \notin Detached => Live(s) /\ tunnelEv = "up"
      BY <1>1, <2>2 DEF SessionInv, Live, TunnelTypes
    <2> QED BY <1>1, <1>2, <2>1, <2>3 DEF SessionInv, Live, Known
  <1> QED BY <1>2, <1>3, <1>4

\* sendMessage returns to the session, from the transport or from the drain
\* goroutine.
LEMMA SessionSendReturns ==
  ASSUME TInv, NEW s \in Sessions, ~panicked, NEW ok \in BOOLEAN, SendReturned(s, ok),
         sess[s].pc = "await" \/ (sess[s].pc = "offer" /\ ~ok /\ tpc = "closing"),
         \A t \in Sessions \ {s} : tx'[t] = tx[t], tx'[s] # "queued",
         UNCHANGED <<tpc, todo, cur, tunnelEv, xport, panicked, call>>
  PROVE  /\ sess' \in [Sessions -> SessionType] /\ sessionEv' \in [Sessions -> {"none", "up", "down"}]
         /\ linked' \subseteq linked /\ failed \subseteq failed' /\ failed' \subseteq Sessions
         /\ OthersSame(s) /\ RecordInv(s)' /\ SessionInv(s)' /\ (Known(s) => Known(s)') /\ EventStep
PROOF
  <1>1. TunnelTypes /\ RecordInv(s) /\ SessionInv(s) /\ GoroutineInv
    BY DEF TInv
  <1>2. sess[s] \in SessionType
    BY <1>1 DEF TunnelTypes
  <1>3. tunnelEv # "none"
    BY <1>1 DEF GoroutineInv, SessionInv, RecordInv
  <1>4. CASE fsmActClose(s, sess[s])
    BY <1>1, <1>2, <1>4, SessionCloses DEF TunnelTypes
  <1>5. CASE /\ sess[s].msg = "icrq" /\ ok
             /\ sess' = [sess EXCEPT ![s] = Loop(sess[s])]
             /\ UNCHANGED <<linked, sessionEv, failed>>
    <2> DEFINE q == Loop(sess[s])
    <2>1. /\ q \in SessionType /\ q.pc = IF sess[s].isClosed \/ sess[s].last THEN "exit" ELSE "select"
          /\ q.fsm = sess[s].fsm /\ q.last = sess[s].last /\ q.isClosed = sess[s].isClosed
          /\ q.established = sess[s].established /\ q.dp = sess[s].dp
      BY <1>2, Zenon DEF Loop, SessionType
    <2>2. sess' = [sess EXCEPT ![s] = q]
      BY <1>5
    <2> HIDE DEF q
    <2>3. sess[s].fsm = "waitreply" /\ sess[s].pc = "await"
      BY <1>1, <1>5 DEF RecordInv
    <2>4. /\ sess' \in [Sessions -> SessionType] /\ sess'[s] = q
          /\ \A t \in Sessions \ {s} : sess'[t] = sess[t]
          /\ SessionInv(s)' /\ (Known(s) => Known(s)')
      <3>1. q.dp = "up" => q.pc # "exit"
        BY <1>1, <2>1, <2>3 DEF RecordInv
      <3>2. linked' = linked /\ failed' = failed
        BY <1>5
      <3> QED BY Zenon, <1>3, <2>1, <2>2, <2>3, <3>1, <3>2, SessionGoesOn
    <2>5. OthersSame(s)
      BY <1>5, <2>4 DEF OthersSame
    <2>6. RecordInv(s)'
      BY <1>1, <1>5, <2>1, <2>3, <2>4, Zenon DEF RecordInv
    <2>7. EventStep
      BY <1>5, Zenon DEF EventStep, Events!vars, Detached
    <2> QED BY <1>1, <1>5, <2>4, <2>5, <2>6, <2>7 DEF TunnelTypes
  <1>6. CASE /\ sess[s].msg = "iccn"
             /\ sess' = [sess EXCEPT ![s] = [(IF ok THEN sess[s] ELSE Closed(sess[s])) EXCEPT !.pc = "dataplane"]]
             /\ linked' = IF ok THEN linked ELSE linked \ {s}
             /\ failed' = IF ok THEN failed ELSE failed \cup {s}
             /\ UNCHANGED sessionEv
    <2> DEFINE q == [(IF ok THEN sess[s] ELSE Closed(sess[s])) EXCEPT !.pc = "dataplane"]
    <2>1. /\ q \in SessionType /\ q.pc = "dataplane" /\ q.fsm = sess[s].fsm /\ q.last = sess[s].last
          /\ q.established => sess[s].established
          /\ q.isClosed => sess[s].isClosed \/ ~ok
      BY <1>2, Zenon DEF Closed, SessionType
    <2>2. sess' = [sess EXCEPT ![s] = q]
      BY <1>6
    <2> HIDE DEF q
    <2>3. sess[s].fsm = "established" /\ sessionEv[s] = "none" /\ ~sess[s].established /\ ~sess[s].last
      BY <1>1, <1>2, <1>6 DEF RecordInv
    <2>4. /\ sess' \in [Sessions -> SessionType] /\ sess'[s] = q
          /\ \A t \in Sessions \ {s} : sess'[t] = sess[t]
          /\ SessionInv(s)' /\ (Known(s) => Known(s)')
      <3>1. \/ linked' = linked /\ failed' = failed
            \/ linked' = linked \ {s} /\ failed' = failed \cup {s}
        BY <1>6
      <3>2. q.dp = "up" /\ s \notin failed' => q.pc # "exit"
        BY <2>1
      <3> QED BY Zenon, <1>3, <2>1, <2>2, <3>1, <3>2, SessionGoesOn
    <2>5. OthersSame(s)
      BY <1>6, <2>4 DEF OthersSame
    <2>6. RecordInv(s)'
      <3>1. call[s] # "idle"
        BY <1>1 DEF RecordInv
      <3> QED BY <1>1, <1>6, <2>1, <2>3, <2>4, <3>1, Zenon DEF RecordInv
    <2>7. EventStep
      <3>1. CASE ok
        BY <1>6, <3>1 DEF EventStep, Events!vars, Detached
      <3>2. CASE ~ok
        <4>1. Detached' = Detached \cup {s}
          BY <1>6, <3>2 DEF Detached
        <4> QED BY <1>6, <4>1 DEF EventStep, Events!Next, Events!Detach
      <3> QED BY <3>1, <3>2
    <2> QED BY <1>1, <1>6, <2>4, <2>5, <2>6, <2>7 DEF TunnelTypes
  <1> QED BY <1>4, <1>5, <1>6 DEF SendReturned

\* A send of a session returns.
LEMMA SessionSendDoneKeeps ==
  ASSUME TInv, NEW s \in Sessions, SessionSendDone(s) \/ Drain(s)
  PROVE  TInv' /\ EventStep
PROOF
  <1>1. TunnelTypes /\ RecordInv(s)
    BY DEF TInv
  <1>2. PICK ok \in BOOLEAN :
          /\ SendReturned(s, ok)
          /\ sess[s].pc = "await" \/ (sess[s].pc = "offer" /\ ~ok /\ tpc = "closing")
    BY <1>1, Zenon DEF SessionSendDone, Drain, Running, RecordInv
  <1>3. /\ UNCHANGED <<fsm, tpc, tlast, todo, cur, isClosing, established, dp, xport, call, tunnelEv, panicked>>
        /\ ~panicked
    BY Zenon DEF SessionSendDone, Drain, Running, tunnelVars
  <1>4. /\ \A t \in Sessions \ {s} : tx'[t] = tx[t]
        /\ tx'[s] # "queued" /\ tx' \in [Callers -> {"none", "queued", "stuck"}]
    BY <1>1, Zenon DEF SessionSendDone, Drain, Running, tunnelVars, RecordInv, TunnelTypes, Callers
  <1>5. /\ sess' \in [Sessions -> SessionType] /\ sessionEv' \in [Sessions -> {"none", "up", "down"}]
        /\ linked' \subseteq linked /\ failed \subseteq failed' /\ failed' \subseteq Sessions
        /\ OthersSame(s) /\ RecordInv(s)' /\ SessionInv(s)' /\ (Known(s) => Known(s)') /\ EventStep
    BY <1>2, <1>3, <1>4, SessionSendReturns
  <1>6. TunnelTypes'
    BY <1>1, <1>3, <1>4, <1>5 DEF TunnelTypes
  <1> QED BY <1>3, <1>5, <1>6, OwnStep

\* The rest of fsmActOnIcrp and the cases of runSession's select.
LEMMA SessionStepKeeps ==
  ASSUME TInv, NEW s \in Sessions, SessionGoroutine(s)
  PROVE  TInv' /\ EventStep
PROOF
  <1>1. TunnelTypes /\ RecordInv(s) /\ SessionInv(s)
    BY DEF TInv
  <1>2. sess[s] \in SessionType
    BY <1>1 DEF TunnelTypes
  <1>3. UNCHANGED <<tunnelVars, panicked>> /\ ~panicked
    BY DEF SessionGoroutine, SessionStep, DataPlaneUp, DataPlaneFails, InterfaceNameFails, ReportUp,
           KillCase, CloseCase, At
  <1>4. ASSUME sess' \in [Sessions -> SessionType], sessionEv' \in [Sessions -> {"none", "up", "down"}],
               linked' \subseteq linked, failed \subseteq failed', failed' \subseteq Sessions,
               OthersSame(s), RecordInv(s)', SessionInv(s)', Known(s) => Known(s)'
        PROVE  TInv'
    <2>1. TunnelTypes'
      BY <1>1, <1>3, <1>4 DEF TunnelTypes, tunnelVars
    <2> QED BY <1>3, <1>4, <2>1, OwnStep DEF tunnelVars
  <1>5. failed \subseteq Sessions
    BY <1>1 DEF TunnelTypes
  <1>6. CASE sess[s].pc \in {"dataplane", "report"}
    <2>1. /\ sess[s].fsm = "established" /\ sessionEv[s] = "none" /\ ~sess[s].established
          /\ ~sess[s].last /\ call[s] # "idle" /\ (sess[s].isClosed => s \in failed)
      BY <1>1, <1>2, <1>6 DEF RecordInv
    <2>2. tunnelEv # "none" /\ (tunnelEv = "up" \/ (s \in Detached /\ tunnelEv = "down"))
      BY <1>3, <1>6, <2>1, UpMayReport
    <2>3. tx[s] # "queued" /\ tx' = tx /\ call' = call
      BY <1>1, <1>3, <1>6 DEF RecordInv, tunnelVars
    <2>4. CASE DataPlaneUp(s)
      <3> DEFINE q == [sess[s] EXCEPT !.dp = "up", !.pc = "report"]
      <3>1. /\ q \in SessionType /\ q.pc = "report" /\ q.fsm = sess[s].fsm /\ q.last = sess[s].last
            /\ q.established = sess[s].established /\ q.isClosed = sess[s].isClosed
        BY <1>2, Zenon DEF SessionType
      <3>2. sess' = [sess EXCEPT ![s] = q] /\ UNCHANGED <<linked, sessionEv, failed>>
        BY <1>1, <2>4, Zenon DEF DataPlaneUp, TunnelTypes, SessionType
      <3> HIDE DEF q
      <3>3. /\ sess' \in [Sessions -> SessionType] /\ sess'[s] = q
            /\ \A t \in Sessions \ {s} : sess'[t] = sess[t]
            /\ SessionInv(s)' /\ (Known(s) => Known(s)')
        BY <1>3, <1>6, <2>2, <3>1, <3>2, SessionGoesOn, Zenon DEF tunnelVars
      <3>4. OthersSame(s)
        BY <2>3, <3>2, <3>3, Zenon DEF OthersSame
      <3>5. RecordInv(s)'
        BY <2>1, <2>3, <3>1, <3>2, <3>3 DEF RecordInv
      <3>6. EventStep
        BY <1>3, <3>2 DEF EventStep, Events!vars, Detached, tunnelVars
      <3> QED BY <1>1, <1>4, <1>5, <3>2, <3>3, <3>4, <3>5, <3>6 DEF TunnelTypes
    <2>5. CASE DataPlaneFails(s)
      <3>1. fsmActClose(s, sess[s]) /\ sess[s].pc = "dataplane"
        BY <2>5 DEF DataPlaneFails, At
      <3>2. /\ sess' \in [Sessions -> SessionType] /\ sessionEv' \in [Sessions -> {"none", "up", "down"}]
            /\ linked' \subseteq linked /\ failed' = failed
            /\ OthersSame(s) /\ RecordInv(s)' /\ SessionInv(s)' /\ Known(s)' /\ EventStep
        BY <1>2, <1>3, <2>3, <3>1, SessionCloses DEF tunnelVars
      <3> QED BY <1>4, <1>5, <3>2
    <2>6. CASE InterfaceNameFails(s)
      <3> DEFINE q == Closed([sess[s] EXCEPT !.dp = "up", !.pc = "report"])
      <3>1. /\ q \in SessionType /\ q.pc = "report" /\ q.fsm = sess[s].fsm /\ q.last = sess[s].last
            /\ ~q.established /\ q.isClosed /\ q.dp = "down"
        BY <1>2, Zenon DEF SessionType, Closed
      <3>2. /\ sess' = [sess EXCEPT ![s] = q] /\ sessionEv' = sessionEv
            /\ linked' = linked \ {s} /\ failed' = failed \cup {s}
        BY <1>1, <2>6 DEF InterfaceNameFails, TunnelTypes
      <3> HIDE DEF q
      <3>3. /\ sess' \in [Sessions -> SessionType] /\ sess'[s] = q
            /\ \A t \in Sessions \ {s} : sess'[t] = sess[t]
            /\ SessionInv(s)' /\ (Known(s) => Known(s)')
        BY <1>3, <1>6, <2>2, <3>1, <3>2, SessionGoesOn, Zenon DEF tunnelVars
      <3>4. OthersSame(s)
        BY <2>3, <3>2, <3>3 DEF OthersSame
      <3>5. RecordInv(s)'
        BY <2>1, <2>3, <3>1, <3>2, <3>3 DEF RecordInv
      <3>6. EventStep
        <4>1. Detached' = Detached \cup {s} /\ tunnelEv' = tunnelEv
          BY <1>3, <3>2 DEF Detached, tunnelVars
        <4> QED BY <3>2, <4>1 DEF EventStep, Events!Next, Events!Detach
      <3> QED BY <1>1, <1>4, <1>5, <3>2, <3>3, <3>4, <3>5, <3>6 DEF TunnelTypes
    <2>7. CASE ReportUp(s)
      <3> DEFINE q == Loop([sess[s] EXCEPT !.established = TRUE])
      <3>1. /\ q \in SessionType /\ q.fsm = sess[s].fsm /\ q.last = sess[s].last
            /\ q.pc = IF sess[s].isClosed \/ sess[s].last THEN "exit" ELSE "select"
            /\ q.established /\ q.isClosed = sess[s].isClosed /\ q.dp = sess[s].dp
        BY <1>2, Zenon DEF SessionType, Loop
      <3>2. /\ sess' = [sess EXCEPT ![s] = q] /\ sessionEv' = [sessionEv EXCEPT ![s] = "up"]
            /\ linked' = linked /\ failed' = failed
        BY <1>1, <2>7 DEF ReportUp, TunnelTypes
      <3> HIDE DEF q
      <3>3. /\ sess' \in [Sessions -> SessionType] /\ sess'[s] = q
            /\ \A t \in Sessions \ {s} : sess'[t] = sess[t]
            /\ SessionInv(s)' /\ (Known(s) => Known(s)')
        BY <1>3, <1>6, <2>1, <2>2, <3>1, <3>2, SessionGoesOn, Zenon DEF tunnelVars
      <3>4. /\ sessionEv' \in [Sessions -> {"none", "up", "down"}] /\ sessionEv'[s] = "up"
            /\ \A t \in Sessions \ {s} : sessionEv'[t] = sessionEv[t]
        BY <1>1, <3>2 DEF TunnelTypes
      <3>5. OthersSame(s)
        BY <2>3, <3>2, <3>3, <3>4 DEF OthersSame
      <3>6. RecordInv(s)'
        BY <2>1, <2>3, <3>1, <3>2, <3>3, <3>4, Zenon DEF RecordInv
      <3>7. EventStep
        <4>1. Detached' = Detached /\ tunnelEv' = tunnelEv
          BY <1>3, <3>2 DEF Detached, tunnelVars
        <4> QED BY <2>1, <2>2, <3>2, <4>1, Zenon DEF EventStep, Events!Next, Events!SessionUp, Events!MayReport
      <3> QED BY <1>1, <1>4, <1>5, <3>2, <3>3, <3>4, <3>5, <3>6, <3>7
    <2> QED BY <1>6, <2>4, <2>5, <2>6, <2>7 DEF SessionGoroutine, SessionStep, KillCase, CloseCase, At
  <1>7. CASE sess[s].pc = "select"
    <2>1. tx[s] # "queued" /\ tx' = tx
      BY <1>1, <1>3, <1>7 DEF RecordInv, tunnelVars
    <2> DEFINE r == [sess[s] EXCEPT !.last = TRUE]
    <2>2. r \in SessionType /\ r.established = sess[s].established /\ r.fsm = sess[s].fsm
      BY <1>2, Zenon DEF SessionType
    <2>3. CASE KillCase(s)
      <3>1. fsmActClose(s, r)
        BY <2>3 DEF KillCase
      <3> HIDE DEF r
      <3>2. /\ sess' \in [Sessions -> SessionType] /\ sessionEv' \in [Sessions -> {"none", "up", "down"}]
            /\ linked' \subseteq linked /\ failed' = failed
            /\ OthersSame(s) /\ RecordInv(s)' /\ SessionInv(s)' /\ Known(s)' /\ EventStep
        BY <1>3, <1>7, <2>1, <2>2, <3>1, SessionCloses DEF tunnelVars
      <3> QED BY <1>4, <1>5, <3>2
    <2>4. CASE CloseCase(s)
      <3>1. handleSessionEvent(s, r, "close")
        BY <2>4 DEF CloseCase
      <3>2. /\ sess' \in [Sessions -> SessionType] /\ sessionEv' \in [Sessions -> {"none", "up", "down"}]
            /\ linked' \subseteq linked /\ failed' = failed
            /\ OthersSame(s) /\ RecordInv(s)' /\ SessionInv(s)' /\ (Known(s) => Known(s)') /\ EventStep
        BY <1>3, <1>7, <3>1, SessionHandles DEF tunnelVars
      <3> QED BY <1>4, <1>5, <3>2
    <2> QED BY <1>7, <2>3, <2>4 DEF SessionGoroutine, SessionStep, DataPlaneUp, DataPlaneFails,
               InterfaceNameFails, ReportUp, At
  <1> QED BY <1>6, <1>7 DEF SessionGoroutine, SessionStep, DataPlaneUp, DataPlaneFails,
             InterfaceNameFails, ReportUp, KillCase, CloseCase, At

\* handleCtlMsg and onTunnelUp.
LEMMA ForwardTakenKeeps ==
  ASSUME TInv, ForwardTaken
  PROVE  TInv' /\ EventStep
PROOF
  <1>1. TunnelTypes /\ GoroutineInv /\ ListInv
    BY DEF TInv
  <1>2. PICK s \in Sessions :
        /\ Known(s) /\ tpc = "forward" /\ ~panicked /\ sess[s].pc = "select"
        /\ handleSessionEvent(s, sess[s], cur[2]) /\ tpc' = "select" /\ cur' = <<>>
        /\ UNCHANGED <<fsm, tlast, todo, isClosing, established, dp, xport, tx, call, tunnelEv, panicked>>
    BY <1>1 DEF ForwardTaken, Running, TunnelTypes, GoroutineInv, ListInv
  <1>3. /\ sess' \in [Sessions -> SessionType] /\ sessionEv' \in [Sessions -> {"none", "up", "down"}]
        /\ linked' \subseteq linked /\ failed' = failed
        /\ OthersSame(s) /\ RecordInv(s)' /\ SessionInv(s)' /\ EventStep
    BY <1>2, SessionHandles
  <1>4. TunnelTypes'
    BY <1>1, <1>2, <1>3 DEF TunnelTypes
  <1> QED BY <1>2, <1>3, <1>4, TakenStep

\* A session takes the event that the tunnel is open.
LEMMA NotifyTakenKeeps ==
  ASSUME TInv, NEW s \in Sessions, NotifyTaken(s)
  PROVE  TInv' /\ EventStep
PROOF
  <1>1. TunnelTypes /\ ListInv
    BY DEF TInv
  <1>2. /\ Known(s) /\ tpc = "notify" /\ ~panicked /\ sess[s].pc = "select"
        /\ handleSessionEvent(s, sess[s], "tunnelopen") /\ todo' = todo \ {s}
        /\ UNCHANGED <<fsm, tpc, tlast, cur, isClosing, established, dp, xport, tx, call, tunnelEv, panicked>>
    BY <1>1 DEF NotifyTaken, Running, ListInv
  <1>3. /\ sess' \in [Sessions -> SessionType] /\ sessionEv' \in [Sessions -> {"none", "up", "down"}]
        /\ linked' \subseteq linked /\ failed' = failed
        /\ OthersSame(s) /\ RecordInv(s)' /\ SessionInv(s)' /\ EventStep
    BY <1>2, SessionHandles
  <1>4. TunnelTypes'
    BY <1>1, <1>2, <1>3 DEF TunnelTypes
  <1> QED BY Zenon, <1>2, <1>3, <1>4, TakenStep
-----------------------------------------------------------------------------
(* Steps of the users.                                                     *)

\* The application calls NewSession or Close.
LEMMA UserKeeps ==
  ASSUME TInv, NEW s \in Sessions, User(s)
  PROVE  TInv' /\ EventStep
PROOF
  <1>1. TunnelTypes /\ RecordInv(s) /\ SessionInv(s)
    BY DEF TInv
  <1>2. sess[s] \in SessionType
    BY <1>1 DEF TunnelTypes
  <1>3. /\ ~panicked /\ panicked' = panicked
        /\ UNCHANGED <<fsm, tpc, tlast, todo, cur, isClosing, established, dp, xport, tx, tunnelEv>>
        /\ sessionEv' = sessionEv /\ failed' = failed
    BY DEF User, NewSession, NewSessionRefused, CloseSession, CloseSessionReturns, userStep, sessionVars
  <1>4. EstablishedNeverPanics' /\ panicked' \in BOOLEAN
    BY <1>3 DEF EstablishedNeverPanics, TInv
  <1>5. PICK c \in CallType :
          /\ call' = [call EXCEPT ![s] = c]
          /\ c # "idle" /\ (c = "closed" => call[s] = "closing")
          /\ c \notin {"closing", "closed"} => call[s] = "idle"
    BY DEF User, NewSession, NewSessionRefused, CloseSession, CloseSessionReturns, CallType
  <1>6. call' \in [Sessions -> CallType] /\ call'[s] = c /\ \A t \in Sessions \ {s} : call'[t] = call[t]
    BY <1>1, <1>5 DEF TunnelTypes
  <1>7. CASE UNCHANGED <<sess, linked>> /\ c # "closing"
    <2>1. Detached' = Detached
      BY <1>3, <1>5, <1>6, <1>7 DEF Detached
    <2>2. TunnelTypes' /\ OthersSame(s)
      BY <1>1, <1>3, <1>6, <1>7 DEF TunnelTypes, OthersSame
    <2>3. RecordInv(s)'
      BY <1>1, <1>3, <1>5, <1>6, <1>7, Zenon DEF RecordInv
    <2>4. SessionInv(s)' /\ (Known(s) => Known(s)')
      BY <1>1, <1>3, <1>7, <2>1 DEF SessionInv, Live, Known
    <2>5. EventStep
      BY <1>3, <2>1 DEF EventStep, Events!vars
    <2> QED BY <1>3, <1>4, <1>6, <1>7, <2>2, <2>3, <2>4, <2>5, OneSessionStep
  <1>8. CASE NewSession(s)
    <2> DEFINE q == [sess[s] EXCEPT !.pc = "select"]
    <2>1. /\ q \in SessionType /\ q.pc = "select" /\ q.fsm = sess[s].fsm /\ q.last = sess[s].last
          /\ q.isClosed = sess[s].isClosed /\ q.established = sess[s].established /\ q.dp = sess[s].dp
      BY <1>2 DEF SessionType
    <2>2. /\ sess' = [sess EXCEPT ![s] = q] /\ linked' = linked /\ call[s] = "idle"
          /\ c \notin {"closing", "closed"}
      BY <1>1, <1>5, <1>6, <1>8 DEF NewSession, TunnelTypes, SessionType
    <2> HIDE DEF q
    <2>3. sess' \in [Sessions -> SessionType] /\ sess'[s] = q /\ \A t \in Sessions \ {s} : sess'[t] = sess[t]
      BY <1>1, <2>1, <2>2 DEF TunnelTypes
    <2>4. Detached' = Detached
      BY <1>3, <1>5, <1>6, <2>2 DEF Detached
    <2>5. TunnelTypes' /\ OthersSame(s)
      BY <1>1, <1>3, <1>6, <2>2, <2>3 DEF TunnelTypes, OthersSame
    <2>6. sess[s].pc = "none" /\ sess[s].fsm = "waittunnel"
      BY <1>1, <2>2 DEF RecordInv
    <2>7. RecordInv(s)'
      BY <1>1, <1>3, <1>5, <1>6, <2>1, <2>3, <2>6, Zenon DEF RecordInv
    <2>8. SessionInv(s)' /\ (Known(s) => Known(s)')
      BY <1>1, <1>3, <2>1, <2>2, <2>3, <2>4, <2>6, Zenon DEF SessionInv, Live, Known, RecordInv
    <2>9. EventStep
      BY <1>3, <2>4 DEF EventStep, Events!vars
    <2> QED BY <1>3, <1>4, <1>6, <2>2, <2>5, <2>7, <2>8, <2>9, OneSessionStep
  <1>9. CASE CloseSession(s)
    <2> DEFINE q == [sess[s] EXCEPT !.closeChan = TRUE]
    <2>1. /\ q \in SessionType /\ q.pc = sess[s].pc /\ q.fsm = sess[s].fsm /\ q.last = sess[s].last
          /\ q.isClosed = sess[s].isClosed /\ q.established = sess[s].established /\ q.dp = sess[s].dp
          /\ q.msg = sess[s].msg
      BY <1>2, Zenon DEF SessionType
    <2>2. /\ sess' = [sess EXCEPT ![s] = q] /\ linked' = linked \ {s} /\ c = "closing"
      BY <1>1, <1>5, <1>6, <1>9 DEF CloseSession, TunnelTypes, SessionType
    <2> HIDE DEF q
    <2>3. sess' \in [Sessions -> SessionType] /\ sess'[s] = q /\ \A t \in Sessions \ {s} : sess'[t] = sess[t]
      BY <1>1, <2>1, <2>2 DEF TunnelTypes
    <2>4. Detached' = Detached \cup {s}
      BY <1>3, <1>6, <2>2 DEF Detached
    <2>5. TunnelTypes' /\ OthersSame(s)
      BY <1>1, <1>3, <1>6, <2>2, <2>3 DEF TunnelTypes, OthersSame
    <2>6. RecordInv(s)'
      BY <1>1, <1>3, <1>5, <1>6, <2>1, <2>3, Zenon DEF RecordInv
    <2>7. SessionInv(s)' /\ Known(s)'
      BY <1>1, <1>3, <2>1, <2>3, <2>4, Zenon DEF SessionInv, Live, Known
    <2>8. EventStep
      BY <1>3, <2>4 DEF EventStep, Events!Next, Events!Detach
    <2> QED BY <1>3, <1>4, <1>6, <2>2, <2>5, <2>6, <2>7, <2>8, OneSessionStep
  <1>10. NewSession(s) \/ CloseSession(s) \/ (UNCHANGED <<sess, linked>> /\ c # "closing")
    BY <1>1, <1>6 DEF User, NewSessionRefused, CloseSessionReturns, sessionVars, TunnelTypes
  <1> QED BY <1>7, <1>8, <1>9, <1>10
-----------------------------------------------------------------------------
(* Steps of the tunnel that leave the sessions' records alone.             *)

\* What such a step has to show.
LEMMA TunnelStep ==
  ASSUME TInv, UNCHANGED <<sess, sessionEv, failed>>, TunnelTypes', GoroutineInv', ListInv',
         \A s \in Sessions : /\ call'[s] = "idle" => call[s] = "idle"
                             /\ tx'[s] = "queued" => tx[s] = "queued"
                             /\ SessionInv(s)',
         panicked' \in BOOLEAN, EstablishedNeverPanics'
  PROVE  TInv'
PROOF
  <1>1. ASSUME NEW s \in Sessions
        PROVE  RecordInv(s)'
    <2>1. RecordInv(s)
      BY DEF TInv
    <2> QED BY <2>1, Zenon DEF RecordInv
  <1> QED BY <1>1, Zenon DEF TInv

\* A session the tunnel knows of stays known, or is on the list of those to
\* be killed.
LEMMA SessionsUndisturbed ==
  ASSUME TInv, ~panicked, UNCHANGED <<sess, Detached, tunnelEv>>,
         tpc \notin {"notify", "closing"}, xport = "closed" => xport' = "closed",
         linked \subseteq linked' \/ (tpc' = "closing" /\ todo' = linked)
  PROVE  \A s \in Sessions : SessionInv(s)'
  BY DEF TInv, SessionInv, Live

\* fsmActClose, up to the first kill.
LEMMA BeginCloseKeeps ==
  ASSUME TInv, ~panicked, NEW last \in BOOLEAN, beginClose(last),
         tpc \in {"start", "select", "sccrq", "scccn", "stopccn", "newsession", "pend"},
         tunnelEv = "up" => last \/ fsm = "dead",
         UNCHANGED <<sess, sessionEv, failed, fsm, established, dp, xport, tunnelEv, call, panicked>>,
         cur' = cur \/ cur' = <<>>,
         tx' = tx \/ tx' = [tx EXCEPT ![TheTunnel] = "none"]
  PROVE  TInv' /\ EventStep
PROOF
  <1>1. TunnelTypes /\ GoroutineInv /\ ListInv /\ panicked' \in BOOLEAN
    BY DEF TInv
  <1>2. /\ tx' \in [Callers -> {"none", "queued", "stuck"}] /\ \A s \in Sessions : tx'[s] = tx[s]
    BY <1>1, TunnelAssumption DEF TunnelTypes, Callers
  <1>3. Detached' = Detached
    BY DEF Detached
  <1>4. \/ /\ isClosing /\ tpc' = IF last THEN "exit" ELSE "select"
           /\ tlast' = FALSE /\ UNCHANGED <<isClosing, todo, linked>>
        \/ /\ ~isClosing /\ isClosing' = TRUE /\ todo' = linked /\ linked' = {}
           /\ tpc' = "closing" /\ tlast' = last
    BY DEF beginClose, Return
  <1>5. TunnelTypes'
    BY <1>1, <1>2, <1>4, Zenon DEF TunnelTypes
  <1>6. GoroutineInv'
    BY <1>1, <1>4 DEF GoroutineInv, TunnelTypes
  <1>7. ListInv'
    BY <1>4 DEF ListInv
  <1>8. \A s \in Sessions : SessionInv(s)'
    BY <1>3, <1>4, SessionsUndisturbed
  <1>9. EstablishedNeverPanics'
    BY DEF EstablishedNeverPanics
  <1>10. EventStep
    BY <1>3 DEF EventStep, Events!vars
  <1> QED BY <1>1, <1>2, <1>5, <1>6, <1>7, <1>8, <1>9, <1>10, TunnelStep

\* handleEvent for the tunnel's own events.
LEMMA HandleEventKeeps ==
  ASSUME TInv, ~panicked, NEW last \in BOOLEAN, NEW ev, handleEvent(ev, last),
         tpc \in {"start", "select", "scccn"}, ev = "open" <=> tpc = "start",
         ev \in {"open", "sccrq", "sccrp", "sccrpNoTid", "scccn", "stopccn", "close"},
         UNCHANGED <<notHandler, cur, call>>
  PROVE  TInv' /\ EventStep
PROOF
  <1>1. TunnelTypes /\ GoroutineInv /\ ListInv
    BY DEF TInv
  <1>2. UNCHANGED <<sess, sessionEv, failed, established, dp, xport, tunnelEv, cur, call>>
    BY DEF notHandler
  <1>3. CASE ~Handles(TunnelTable, fsm, ev)
    <2>1. beginClose(last) /\ UNCHANGED <<fsm, tx, panicked>>
      BY <1>3 DEF handleEvent
    <2>2. fsm # "established"
      BY <1>1, <1>3, EstablishedHandles DEF GoroutineInv
    <2>3. tunnelEv = "up" => fsm = "dead"
      BY <1>1, <2>2 DEF GoroutineInv, TunnelTypes
    <2> QED BY <1>2, <2>1, <2>3, BeginCloseKeeps
  <1>4. CASE Handles(TunnelTable, fsm, ev)
    <2> DEFINE cb == Callback(TunnelTable, fsm, ev)
               to == StateAfter(TunnelTable, fsm, ev)
    <2>1. \/ fsm = "idle" /\ ev = "open" /\ cb = "SendSccrq" /\ to = "waitctlreply"
          \/ fsm = "waitctlreply" /\ cb = "OnSccrp" /\ to = "established"
          \/ fsm \in {"waitctlreply", "established"} /\ cb \in {"OnStopccn", "SendStopccn"} /\ to = "dead"
          \/ fsm = "waitctlreply" /\ cb \in {"LinkSession", "nil"} /\ to = fsm
          \/ fsm = "established" /\ cb \in {"StartSession", "ForwardSessionMsg"} /\ to = fsm
      BY <1>4, TunnelMoves
    <2>2. /\ fsm' = IF ev = "sccrpNoTid" THEN "dead" ELSE to
          /\ \/ cb = "SendSccrq" /\ xportSend("sccrq", last)
             \/ cb = "OnSccrp" /\ ev = "sccrp" /\ xportSend("scccn", last)
             \/ cb = "OnSccrp" /\ ev = "sccrpNoTid" /\ xportSend("stopccn", last)
             \/ cb = "SendStopccn" /\ xportSend("stopccn", last)
             \/ cb = "OnStopccn" /\ tpc' = "pend" /\ tlast' = last /\ UNCHANGED <<tx, panicked>>
          /\ UNCHANGED <<isClosing, todo, linked>>
      BY <1>4 DEF handleEvent
    <2> HIDE DEF cb, to
    <2>3. /\ \/ tpc' = "sccrq" /\ fsm = "idle" /\ fsm' = "waitctlreply"
             \/ tpc' = "scccn" /\ fsm = "waitctlreply" /\ fsm' = "established"
             \/ tpc' \in {"stopccn", "pend"} /\ fsm \in {"waitctlreply", "established"} /\ fsm' = "dead"
          /\ tlast' = last
      BY <2>1, <2>2 DEF xportSend
    <2>4. /\ tx' = tx \/ tx' = [tx EXCEPT ![TheTunnel] = IF xport = "up" THEN "queued" ELSE "stuck"]
          /\ panicked' = FALSE \/ panicked' = (xport = "closed")
      BY <2>2 DEF xportSend, TInv
    <2>5. tx' \in [Callers -> {"none", "queued", "stuck"}] /\ \A s \in Sessions : tx'[s] = tx[s]
      BY <1>1, <2>4, TunnelAssumption DEF TunnelTypes, Callers
    <2>6. TunnelTypes'
      BY <1>1, <1>2, <2>2, <2>3, <2>5 DEF TunnelTypes
    <2>7. GoroutineInv'
      BY <1>1, <1>2, <2>2, <2>3 DEF GoroutineInv, TunnelTypes
    <2>8. ListInv'
      BY <2>3 DEF ListInv
    <2>9. Detached' = Detached
      BY <1>2 DEF Detached
    <2>10. \A s \in Sessions : SessionInv(s)'
      BY <1>2, <2>2, <2>9, SessionsUndisturbed
    <2>11. panicked' \in BOOLEAN /\ EstablishedNeverPanics'
      BY <1>1, <1>2, <2>3, <2>4, Zenon DEF EstablishedNeverPanics, GoroutineInv, TunnelTypes
    <2>12. EventStep
      BY <1>2, <2>9 DEF EventStep, Events!vars
    <2> QED BY <1>2, <2>5, <2>6, <2>7, <2>8, <2>10, <2>11, <2>12, TunnelStep
  <1> QED BY <1>3, <1>4

\* The cases of runTunnel's select, and what is left of the handlers.
LEMMA SelectKeeps ==
  ASSUME TInv, Open \/ SelectClose \/ SelectRecvClosed \/ SelectTunnelMsg \/ ScccnNoDataPlane \/ PendTimeout
  PROVE  TInv' /\ EventStep
PROOF
  <1>1. TunnelTypes /\ GoroutineInv
    BY DEF TInv
  <1>2. CASE Open
    BY <1>2, HandleEventKeeps, Zenon DEF Open, Running
  <1>3. CASE SelectClose
    BY <1>3, HandleEventKeeps, Zenon DEF SelectClose, Running
  <1>4. CASE SelectRecvClosed
    BY <1>4, BeginCloseKeeps, Zenon DEF SelectRecvClosed, Running, notHandler
  <1>5. CASE SelectTunnelMsg
    <2>1. PICK m \in TunnelMsgs : handleEvent(IF m = "bad" THEN "close" ELSE m, FALSE)
      BY <1>5, Zenon DEF SelectTunnelMsg
    <2> DEFINE ev == IF m = "bad" THEN "close" ELSE m
    <2>2. ev \in {"sccrq", "sccrp", "sccrpNoTid", "scccn", "stopccn", "close"}
      BY TunnelAssumption
    <2>3. handleEvent(ev, FALSE)
      BY Zenon, <2>1
    <2>4. ~panicked /\ tpc = "select" /\ UNCHANGED <<notHandler, cur, call>>
      BY <1>5 DEF SelectTunnelMsg, Running
    <2> HIDE DEF ev
    <2> QED BY Zenon, <2>2, <2>3, <2>4, HandleEventKeeps
  <1>6. CASE ScccnNoDataPlane
    <2>1. /\ ~panicked /\ tpc = "scccn" /\ handleEvent("close", tlast)
          /\ UNCHANGED <<notHandler, cur, call>>
      BY <1>6 DEF ScccnNoDataPlane, Running
    <2>2. PICK last \in BOOLEAN : last = tlast
      BY <1>1 DEF TunnelTypes
    <2>3. handleEvent("close", last)
      BY <2>1, <2>2
    <2> QED BY <2>1, <2>3, HandleEventKeeps
  <1>7. CASE PendTimeout
    <2>1. PICK last \in BOOLEAN : last = tlast
      BY <1>1 DEF TunnelTypes
    <2>2. /\ ~panicked /\ tpc = "pend" /\ beginClose(last) /\ fsm = "dead"
          /\ UNCHANGED <<notHandler, fsm, tx, cur, call, panicked>>
      BY <1>1, <1>7, <2>1 DEF PendTimeout, Running, GoroutineInv
    <2> QED BY <2>2, BeginCloseKeeps DEF notHandler
  <1> QED BY <1>2, <1>3, <1>4, <1>5, <1>6, <1>7

\* A session message, a new session.
LEMMA SessionEventsKeep ==
  ASSUME TInv, SelectSessionMsg \/ LinkSession \/ \E s \in Sessions : SelectNewSession(s)
  PROVE  TInv' /\ EventStep
PROOF
  <1>1. TunnelTypes /\ GoroutineInv /\ ListInv
    BY DEF TInv
  <1>2. /\ ~panicked /\ tpc \in {"select", "newsession"} /\ panicked' = panicked /\ tx' = tx
        /\ UNCHANGED <<sess, sessionEv, failed, established, dp, xport, tunnelEv>>
    BY Zenon DEF SelectSessionMsg, LinkSession, SelectNewSession, Running, notHandler
  <1>3. EstablishedNeverPanics' /\ panicked' \in BOOLEAN
    BY <1>2 DEF EstablishedNeverPanics, TInv
  <1>4. ASSUME ~Handles(TunnelTable, fsm, "newsession") \/ ~Handles(TunnelTable, fsm, "sessionmsg")
        PROVE  tunnelEv = "up" => fsm = "dead"
    BY <1>1, <1>4, EstablishedHandles DEF GoroutineInv, TunnelTypes
  <1>5. ASSUME UNCHANGED <<fsm, tlast, todo, isClosing, Detached>>, call' \in [Sessions -> CallType],
               \A s \in Sessions : call'[s] = "idle" => call[s] = "idle",
               linked \subseteq linked', linked' \subseteq Sessions, cur' # <<>> => cur'[1] \in Sessions,
               \/ tpc' = "select" /\ (tpc = "select" \/ fsm = "waitctlreply")
               \/ tpc' = "newsession" /\ tpc = "select" /\ cur' # <<>>
               \/ tpc' = "forward" /\ fsm = "established" /\ cur' # <<>> /\ cur'[1] \in linked'
        PROVE  TInv' /\ EventStep
    <2>1. TunnelTypes'
      BY <1>1, <1>2, <1>5 DEF TunnelTypes
    <2>2. GoroutineInv'
      BY <1>1, <1>2, <1>5 DEF GoroutineInv
    <2>3. ListInv'
      BY <1>5 DEF ListInv, Known
    <2>4. \A s \in Sessions : SessionInv(s)'
      BY <1>2, <1>5, SessionsUndisturbed
    <2>5. EventStep
      BY <1>2, <1>5 DEF EventStep, Events!vars
    <2> QED BY Zenon, <1>2, <1>3, <1>5, <2>1, <2>2, <2>3, <2>4, <2>5, TunnelStep
  <1>6. CASE SelectSessionMsg
    <2>1. PICK s \in Sessions, m \in SessionMsgs :
            IF Handles(TunnelTable, fsm, "sessionmsg")
              THEN /\ fsm' = StateAfter(TunnelTable, fsm, "sessionmsg")
                   /\ IF Callback(TunnelTable, fsm, "sessionmsg") = "ForwardSessionMsg" /\ s \in linked
                        THEN tpc' = "forward" /\ cur' = <<s, m>>
                        ELSE UNCHANGED <<tpc, cur>>
                   /\ UNCHANGED <<tlast, todo, isClosing, linked>>
              ELSE beginClose(FALSE) /\ UNCHANGED <<fsm, cur>>
      BY <1>6, Zenon DEF SelectSessionMsg
    <2>2. tpc = "select" /\ call' = call /\ Detached' = Detached
      BY <1>2, <1>6 DEF SelectSessionMsg, Running, Detached
    <2>3. CASE ~Handles(TunnelTable, fsm, "sessionmsg")
      BY Zenon, <1>2, <1>4, <2>1, <2>2, <2>3, BeginCloseKeeps
    <2>4. CASE Handles(TunnelTable, fsm, "sessionmsg")
      <3>1. LET cb == Callback(TunnelTable, fsm, "sessionmsg")
                to == StateAfter(TunnelTable, fsm, "sessionmsg")
            IN \/ to = fsm /\ (cb = "ForwardSessionMsg" => fsm = "established")
               \/ cb \in {"SendSccrq", "OnSccrp", "OnStopccn", "SendStopccn"}
        BY <2>4, TunnelMoves
      <3>2. PICK r \in TunnelTable : /\ r.from = fsm /\ "sessionmsg" \in r.events
                                     /\ Callback(TunnelTable, fsm, "sessionmsg") = r.cb
        BY <2>4, RowTaken
      <3>3. r.cb \in {"nil", "ForwardSessionMsg"}
        BY <3>2 DEF TunnelTable, Row
      <3>4. fsm' = fsm /\ (tpc' = "forward" => fsm = "established" /\ cur' = <<s, m>> /\ s \in linked)
        BY Zenon, <2>1, <2>2, <2>4, <3>1, <3>2, <3>3
      <3> QED BY <1>1, <1>5, <2>1, <2>2, <2>4, <3>4 DEF TunnelTypes
    <2> QED BY <2>3, <2>4
  <1>7. CASE LinkSession
    <2>1. tpc = "newsession" /\ call' = call /\ fsm' = fsm /\ Detached' = Detached
      BY <1>2, <1>7 DEF LinkSession, Running, Detached
    <2>2. CASE ~Handles(TunnelTable, fsm, "newsession")
      BY <1>2, <1>4, <1>7, <2>1, <2>2, BeginCloseKeeps, Zenon DEF LinkSession
    <2>3. CASE Handles(TunnelTable, fsm, "newsession")
      <3>1. PICK r \in TunnelTable : /\ r.from = fsm /\ "newsession" \in r.events
                                     /\ Callback(TunnelTable, fsm, "newsession") = r.cb
        BY <2>3, RowTaken
      <3>2. (r.cb = "StartSession" /\ fsm = "established") \/ (r.cb = "LinkSession" /\ fsm = "waitctlreply")
        BY <3>1 DEF TunnelTable, Row
      <3>3. /\ linked' = linked \cup {cur[1]} /\ UNCHANGED <<tlast, todo, isClosing>>
            /\ \/ fsm = "established" /\ tpc' = "forward" /\ cur' = cur
               \/ fsm = "waitctlreply" /\ tpc' = "select" /\ cur' = <<>>
        BY <1>7, <2>3, <3>1, <3>2, Zenon DEF LinkSession
      <3>4. cur # <<>> /\ cur[1] \in Sessions
        BY <1>1, <2>1 DEF GoroutineInv, TunnelTypes
      <3> QED BY <1>1, <1>5, <2>1, <3>3, <3>4 DEF TunnelTypes
    <2> QED BY <2>2, <2>3
  <1>8. ASSUME NEW s \in Sessions, SelectNewSession(s)
        PROVE  TInv' /\ EventStep
    <2>1. /\ tpc = "select" /\ call[s] = "inject" /\ call' = [call EXCEPT ![s] = "open"]
          /\ tpc' = "newsession" /\ cur' = <<s, "tunnelopen">>
          /\ UNCHANGED <<fsm, tlast, todo, isClosing, linked>>
      BY <1>8 DEF SelectNewSession, Running
    <2>2. /\ call' \in [Sessions -> CallType]
          /\ \A t \in Sessions : call'[t] = IF t = s THEN "open" ELSE call[t]
      BY <1>1, <2>1 DEF TunnelTypes, CallType
    <2>3. Detached' = Detached
      BY <1>2, <2>1, <2>2 DEF Detached
    <2> QED BY <1>1, <1>5, <2>1, <2>2, <2>3 DEF TunnelTypes
  <1> QED BY <1>6, <1>7, <1>8

\* send() returns to the tunnel.
LEMMA TunnelSendDoneKeeps ==
  ASSUME TInv, TunnelSendDone
  PROVE  TInv' /\ EventStep
PROOF
  <1>1. TunnelTypes /\ GoroutineInv /\ ListInv
    BY DEF TInv
  <1>2. PICK last \in BOOLEAN : last = tlast
    BY <1>1 DEF TunnelTypes
  <1>3. /\ ~panicked /\ tx' = [tx EXCEPT ![TheTunnel] = "none"] /\ panicked' = panicked
        /\ UNCHANGED <<sess, sessionEv, failed, fsm, established, xport, tunnelEv, cur, call>>
    BY DEF TunnelSendDone, SccrqReturned, ScccnReturned, StopccnReturned, notHandler
  <1>4. \/ tpc = "sccrq" /\ Return(tlast) /\ UNCHANGED <<isClosing, todo, linked, dp>>
        \/ tpc = "scccn" /\ xport = "up" /\ dp' = "up" /\ todo' = linked /\ tpc' = "notify"
           /\ UNCHANGED <<isClosing, linked, tlast>>
        \/ tpc \in {"sccrq", "scccn", "stopccn"} /\ beginClose(last) /\ dp' = dp
    BY <1>2 DEF TunnelSendDone, SccrqReturned, ScccnReturned, StopccnReturned, Running, notHandler
  <1>5. CASE tpc \in {"sccrq", "scccn", "stopccn"} /\ beginClose(last) /\ dp' = dp
    <2>1. tunnelEv = "up" => fsm = "dead"
      BY <1>1, <1>5 DEF GoroutineInv
    <2> QED BY <1>3, <1>5, <2>1, BeginCloseKeeps
  <1>6. CASE \/ tpc = "sccrq" /\ Return(tlast) /\ UNCHANGED <<isClosing, todo, linked, dp>>
             \/ tpc = "scccn" /\ xport = "up" /\ dp' = "up" /\ todo' = linked /\ tpc' = "notify"
                /\ UNCHANGED <<isClosing, linked, tlast>>
    <2>1. /\ tx' \in [Callers -> {"none", "queued", "stuck"}] /\ \A s \in Sessions : tx'[s] = tx[s]
      BY <1>1, <1>3, TunnelAssumption DEF TunnelTypes, Callers
    <2>2. Detached' = Detached
      BY <1>3 DEF Detached
    <2>3. TunnelTypes'
      BY <1>1, <1>3, <1>6, <2>1, Zenon DEF TunnelTypes, Return
    <2>4. GoroutineInv'
      BY <1>1, <1>3, <1>6 DEF GoroutineInv, Return
    <2>5. ListInv'
      BY <1>6 DEF ListInv, Known, Return
    <2>6. \A s \in Sessions : SessionInv(s)'
      BY <1>3, <1>6, <2>2, SessionsUndisturbed
    <2>7. EstablishedNeverPanics' /\ panicked' \in BOOLEAN
      BY <1>3 DEF EstablishedNeverPanics, TInv
    <2>8. EventStep
      BY <1>3, <2>2 DEF EventStep, Events!vars
    <2> QED BY <1>3, <2>1, <2>3, <2>4, <2>5, <2>6, <2>7, <2>8, TunnelStep
  <1> QED BY <1>4, <1>5, <1>6

\* fsmActOnEstablished ends by reporting the tunnel up.
LEMMA ReportTunnelUpKeeps ==
  ASSUME TInv, ReportTunnelUp
  PROVE  TInv' /\ EventStep
PROOF
  <1>1. TunnelTypes /\ GoroutineInv
    BY DEF TInv
  <1>2. /\ ~panicked /\ tpc = "notify" /\ established' = TRUE /\ tunnelEv' = "up"
        /\ tpc' \in {"exit", "select"} /\ tlast' = FALSE
        /\ UNCHANGED <<sess, linked, sessionEv, failed, fsm, todo, cur, isClosing, dp, xport, tx, call, panicked>>
    BY DEF ReportTunnelUp, Running, Return, sessionVars
  <1>3. Detached' = Detached
    BY <1>2 DEF Detached
  <1>4. TunnelTypes'
    BY <1>1, <1>2, Zenon DEF TunnelTypes
  <1>5. GoroutineInv'
    BY <1>1, <1>2 DEF GoroutineInv
  <1>6. ListInv'
    BY <1>2 DEF ListInv
  <1>7. \A s \in Sessions : SessionInv(s)'
    BY <1>2, <1>3, Zenon DEF TInv, SessionInv, Live
  <1>8. EstablishedNeverPanics' /\ panicked' \in BOOLEAN
    BY <1>2 DEF EstablishedNeverPanics, TInv
  <1>9. EventStep
    BY <1>1, <1>2, <1>3 DEF EventStep, Events!Next, Events!TunnelUp, GoroutineInv
  <1> QED BY <1>2, <1>4, <1>5, <1>6, <1>7, <1>8, <1>9, TunnelStep

\* closeAllSessions: kill() returns.
LEMMA KilledKeeps ==
  ASSUME TInv, Killed \/ XportFail \/ Close \/ CloseReturn
  PROVE  TInv' /\ EventStep
PROOF
  <1>1. TunnelTypes /\ GoroutineInv /\ ListInv
    BY DEF TInv
  <1>2. /\ ~panicked /\ panicked' = panicked
        /\ UNCHANGED <<sess, linked, sessionEv, failed, fsm, tpc, tlast, todo, isClosing, established, dp,
                       tx, call, tunnelEv>>
        /\ xport' = xport \/ (xport = "up" /\ xport' = "down")
        /\ cur' = cur \/ (tpc = "closing" /\ sess[cur[1]].pc = "exit" /\ cur' = <<>>)
    BY DEF Killed, XportFail, Close, CloseReturn, userStep, Running, sessionVars
  <1>3. Detached' = Detached
    BY <1>2 DEF Detached
  <1>4. TunnelTypes'
    BY <1>1, <1>2 DEF TunnelTypes
  <1>5. GoroutineInv'
    BY <1>1, <1>2 DEF GoroutineInv
  <1>6. ListInv'
    BY <1>1, <1>2, <1>3, Zenon DEF ListInv, Known
  <1>7. \A s \in Sessions : SessionInv(s)'
    BY <1>2, <1>3, Zenon DEF TInv, SessionInv, Live
  <1>8. EstablishedNeverPanics' /\ panicked' \in BOOLEAN
    BY <1>2 DEF EstablishedNeverPanics, TInv
  <1>9. EventStep
    BY <1>2, <1>3 DEF EventStep, Events!vars
  <1> QED BY Zenon, <1>2, <1>4, <1>5, <1>6, <1>7, <1>8, <1>9, TunnelStep

\* The end of fsmActClose: no session is live.
LEMMA FinishCloseKeeps ==
  ASSUME TInv, finishClose
  PROVE  TInv' /\ EventStep
PROOF
  <1>1. TunnelTypes /\ GoroutineInv
    BY DEF TInv
  <1>2. /\ ~panicked /\ panicked' = panicked /\ tpc = "closing" /\ todo = {} /\ cur = <<>>
        /\ xport' = "closed" /\ established' = FALSE /\ tlast' = FALSE
        /\ tpc' = (IF tlast THEN "exit" ELSE "select")
        /\ tunnelEv' = (IF established THEN "down" ELSE tunnelEv)
        /\ UNCHANGED <<sess, linked, sessionEv, failed, fsm, todo, cur, isClosing, tx, call>>
    BY DEF finishClose, Running, Return, sessionVars
  <1>3. Detached' = Detached
    BY <1>2 DEF Detached
  <1>4. ASSUME NEW s \in Sessions
        PROVE  /\ ~Live(s)
               /\ s \notin Detached => sess[s].dp # "up" /\ sessionEv[s] # "up"
    <2>1. SessionInv(s) /\ RecordInv(s)
      BY DEF TInv
    <2>2. ~Live(s)
      BY <1>1, <1>2, <2>1, Zenon DEF SessionInv, GoroutineInv
    <2>3. s \notin Detached => sess[s].fsm = "waittunnel" \/ sess[s].pc = "exit"
      BY <2>2 DEF Live
    <2>4. s \in failed => s \in Detached
      BY DEF Detached
    <2> QED BY <2>1, <2>2, <2>3, <2>4, Zenon DEF RecordInv
  <1>5. TunnelTypes'
    BY <1>1, <1>2, Zenon DEF TunnelTypes
  <1>6. GoroutineInv'
    BY <1>1, <1>2 DEF GoroutineInv, TunnelTypes
  <1>7. ListInv'
    BY <1>2 DEF ListInv
  <1>8. ASSUME NEW s \in Sessions
        PROVE  SessionInv(s)'
    <2>1. ~Live(s)' /\ (s \notin Detached' => sess'[s].dp # "up")
      BY <1>2, <1>3, <1>4 DEF Live
    <2>2. tunnelEv' = "none" => tunnelEv = "none"
      BY <1>2
    <2>3. SessionInv(s)
      BY DEF TInv
    <2> QED BY <1>2, <2>1, <2>2, <2>3 DEF SessionInv
  <1>9. EstablishedNeverPanics' /\ panicked' \in BOOLEAN
    BY <1>2 DEF EstablishedNeverPanics, TInv
  <1>10. EventStep
    <2>1. CASE established
      <3>1. tunnelEv = "up" /\ tunnelEv' = "down"
        BY <1>1, <1>2, <2>1 DEF GoroutineInv
      <3> QED BY <1>2, <1>3, <1>4, <3>1 DEF EventStep, Events!Next, Events!TunnelDown
    <2>2. CASE ~established
      BY <1>2, <1>3, <2>2 DEF EventStep, Events!vars
    <2> QED BY <2>1, <2>2
  <1> QED BY <1>2, <1>5, <1>6, <1>7, <1>8, <1>9, <1>10, TunnelStep

\* closeAllSessions: the call of kill().
LEMMA KillKeeps ==
  ASSUME TInv, NEW s \in Sessions, Kill(s)
  PROVE  TInv' /\ EventStep
PROOF
  <1>1. TunnelTypes /\ GoroutineInv
    BY DEF TInv
  <1>2. sess[s] \in SessionType
    BY <1>1 DEF TunnelTypes
  <1> DEFINE q == [sess[s] EXCEPT !.killChan = TRUE]
  <1>3. /\ q \in SessionType /\ q.pc = sess[s].pc /\ q.fsm = sess[s].fsm /\ q.last = sess[s].last
        /\ q.isClosed = sess[s].isClosed /\ q.established = sess[s].established /\ q.dp = sess[s].dp
        /\ q.msg = sess[s].msg
    BY <1>2, Zenon DEF SessionType
  <1>4. /\ ~panicked /\ panicked' = panicked /\ tpc = "closing" /\ cur = <<>> /\ todo' = todo \ {s}
        /\ linked' = linked \ {s} /\ sess' = [sess EXCEPT ![s] = q] /\ cur' = <<s, "kill">>
        /\ UNCHANGED <<sessionEv, failed, fsm, tpc, tlast, isClosing, established, dp, xport, tx, call, tunnelEv>>
    BY <1>1 DEF Kill, Running, TunnelTypes, SessionType
  <1> HIDE DEF q
  <1>5. sess' \in [Sessions -> SessionType] /\ sess'[s] = q /\ \A t \in Sessions \ {s} : sess'[t] = sess[t]
    BY <1>1, <1>3, <1>4 DEF TunnelTypes
  <1>6. Detached' = Detached
    BY <1>4 DEF Detached
  <1>7. TunnelTypes'
    BY <1>1, <1>4, <1>5 DEF TunnelTypes
  <1>8. GoroutineInv'
    BY <1>1, <1>4 DEF GoroutineInv
  <1>9. ListInv'
    BY <1>4 DEF ListInv
  <1>10. ASSUME NEW t \in Sessions
         PROVE  RecordInv(t)' /\ SessionInv(t)'
    <2>1. RecordInv(t) /\ SessionInv(t)
      BY DEF TInv
    <2>2. /\ sess'[t].pc = sess[t].pc /\ sess'[t].fsm = sess[t].fsm /\ sess'[t].last = sess[t].last
          /\ sess'[t].isClosed = sess[t].isClosed /\ sess'[t].established = sess[t].established
          /\ sess'[t].dp = sess[t].dp /\ sess'[t].msg = sess[t].msg
      BY <1>3, <1>5
    <2>3. RecordInv(t)'
      BY <1>4, <2>1, <2>2, Zenon DEF RecordInv
    <2>4. Live(t)' <=> Live(t)
      BY <1>6, <2>2, Zenon DEF Live
    <2>5. Live(t) => t \in todo' \/ (cur' # <<>> /\ cur'[1] = t)
      BY <1>1, <1>4, <2>1 DEF SessionInv, GoroutineInv
    <2>6. SessionInv(t)'
      BY <1>4, <1>6, <2>1, <2>2, <2>4, <2>5 DEF SessionInv
    <2> QED BY <2>3, <2>6
  <1>11. EstablishedNeverPanics' /\ panicked' \in BOOLEAN
    BY <1>4 DEF EstablishedNeverPanics, TInv
  <1>12. EventStep
    BY <1>4, <1>6 DEF EventStep, Events!vars
  <1> QED BY <1>7, <1>8, <1>9, <1>10, <1>11, <1>12 DEF TInv

\* The tunnel takes a session's message: this is where it can panic.
LEMMA SelectSendKeeps ==
  ASSUME TInv, NEW s \in Sessions, SelectSend(s)
  PROVE  TInv' /\ EventStep
PROOF
  <1>1. TunnelTypes /\ GoroutineInv /\ RecordInv(s) /\ SessionInv(s)
    BY DEF TInv
  <1>2. sess[s] \in SessionType
    BY <1>1 DEF TunnelTypes
  <1> DEFINE q == [sess[s] EXCEPT !.pc = "await"]
  <1>3. /\ q \in SessionType /\ q.pc = "await" /\ q.fsm = sess[s].fsm /\ q.last = sess[s].last
        /\ q.isClosed = sess[s].isClosed /\ q.established = sess[s].established /\ q.dp = sess[s].dp
        /\ q.msg = sess[s].msg
    BY <1>2 DEF SessionType
  <1>4. /\ ~panicked /\ panicked' = (xport = "closed") /\ tpc = "select" /\ sess[s].pc = "offer"
        /\ sess' = [sess EXCEPT ![s] = q]
        /\ UNCHANGED <<linked, sessionEv, failed, fsm, tpc, tlast, todo, cur, isClosing, established, dp,
                       xport, call, tunnelEv>>
    BY <1>1 DEF SelectSend, Running, TunnelTypes, SessionType
  <1> HIDE DEF q
  <1>5. sess' \in [Sessions -> SessionType] /\ sess'[s] = q /\ \A t \in Sessions \ {s} : sess'[t] = sess[t]
    BY <1>1, <1>3, <1>4 DEF TunnelTypes
  <1>6. tx' \in [Callers -> {"none", "queued", "stuck"}] /\ \A t \in Sessions \ {s} : tx'[t] = tx[t]
    BY <1>1 DEF SelectSend, TunnelTypes, Callers
  <1>7. Detached' = Detached
    BY <1>4 DEF Detached
  <1>8. TunnelTypes' /\ OthersSame(s)
    BY <1>1, <1>4, <1>5, <1>6 DEF TunnelTypes, OthersSame
  <1>9. RecordInv(s)'
    BY <1>1, <1>3, <1>4, <1>5, Zenon DEF RecordInv
  <1>10. sess[s].fsm # "waittunnel"
    BY <1>1, <1>4, Zenon DEF RecordInv
  <1>11. Live(s)' <=> Live(s)
    BY <1>3, <1>4, <1>5, <1>7 DEF Live
  <1>12. SessionInv(s)' /\ (Known(s) => Known(s)')
    BY <1>1, <1>3, <1>4, <1>5, <1>7, <1>10, <1>11, Zenon DEF SessionInv, Known
  <1>13. panicked' \in BOOLEAN /\ EstablishedNeverPanics'
    <2>1. ASSUME xport = "closed", tunnelEv # "none"
          PROVE  s \in Detached
      BY <1>1, <1>4, <1>10, <2>1 DEF GoroutineInv, TunnelTypes, SessionInv, Live
    <2> QED BY <1>4, <1>7, <2>1, Zenon DEF EstablishedNeverPanics
  <1>14. EventStep
    BY <1>4, <1>7 DEF EventStep, Events!vars
  <1> QED BY <1>4, <1>8, <1>9, <1>12, <1>13, <1>14, OneSessionStep
-----------------------------------------------------------------------------
\* A tunnel that is built has no session and has reported nothing.
LEMMA InitTInv ==
  ASSUME Init
  PROVE  TInv /\ Events!Init
PROOF
  <1>1. /\ NoSession \in SessionType /\ NoSession.pc = "none" /\ NoSession.fsm = "waittunnel"
        /\ NoSession.established = FALSE /\ NoSession.isClosed = FALSE /\ NoSession.last = FALSE
        /\ NoSession.dp = "none"
    BY DEF NoSession, SessionType, SessionFsm
  <1>2. /\ sess = [s \in Sessions |-> NoSession] /\ sessionEv = [s \in Sessions |-> "none"]
        /\ linked = {} /\ failed = {}
    BY DEF Init, SessionInit
  <1>3. Detached = {}
    BY <1>2 DEF Init, Detached
  <1>4. TunnelTypes
    BY <1>1, <1>2, Zenon DEF Init, TunnelTypes, CallType
  <1>5. GoroutineInv
    BY DEF Init, GoroutineInv
  <1>6. ASSUME NEW s \in Sessions
        PROVE  RecordInv(s) /\ SessionInv(s)
    <2>1. sess[s] = NoSession /\ sessionEv[s] = "none" /\ tx[s] = "none"
      BY <1>2 DEF Init, Callers
    <2>2. RecordInv(s)
      BY <1>1, <2>1 DEF RecordInv
    <2>3. SessionInv(s)
      BY <1>1, <2>1 DEF Init, SessionInv, Live
    <2> QED BY <2>2, <2>3
  <1>7. ListInv /\ EstablishedNeverPanics /\ panicked \in BOOLEAN
    BY Zenon DEF Init, ListInv, EstablishedNeverPanics
  <1>8. Events!Init
    BY <1>2, <1>3 DEF Init, Events!Init
  <1> QED BY <1>4, <1>5, <1>6, <1>7, <1>8 DEF TInv

\* Every step keeps the invariant and is a step of TunnelEvents or a stutter.
LEMMA NextKeepsTInv ==
  ASSUME TInv, [Next]_vars
  PROVE  TInv' /\ EventStep
PROOF
  <1>1. CASE UNCHANGED vars
    <2>1. /\ UNCHANGED <<sess, linked, sessionEv, failed, panicked, fsm, tpc, tlast, todo, cur, isClosing,
                         established, dp, xport, tx, call, tunnelEv>>
          /\ Detached' = Detached
      BY <1>1 DEF vars, sessionVars, tunnelVars, Detached
    <2>2. TInv'
      <3>1. TunnelTypes' /\ GoroutineInv'
        <4>1. TunnelTypes'
          BY <2>1, SMTT(60) DEF TInv, TunnelTypes
        <4>2. GoroutineInv'
          BY <2>1, SMTT(60) DEF TInv, GoroutineInv
        <4> QED
          BY <4>1, <4>2
      <3>2. ListInv'
        BY <2>1, Zenon DEF TInv, ListInv, Known
      <3>3. \A s \in Sessions : SessionInv(s)'
        BY <2>1, Zenon DEF TInv, SessionInv, Live
      <3>4. panicked' \in BOOLEAN /\ EstablishedNeverPanics'
        BY <2>1 DEF TInv, EstablishedNeverPanics
      <3> QED BY <2>1, <3>1, <3>2, <3>3, <3>4, TunnelStep
    <2>3. EventStep
      BY <2>1 DEF EventStep, Events!vars
    <2> QED BY <2>2, <2>3
  <1>2. CASE TunnelGoroutine
    BY <1>2, SelectKeeps, SessionEventsKeep, ForwardTakenKeeps, ReportTunnelUpKeeps, KilledKeeps,
       FinishCloseKeeps, SelectSendKeeps, NotifyTakenKeeps, KillKeeps DEF TunnelGoroutine
  <1>3. CASE TunnelSendDone \/ XportFail \/ Close \/ CloseReturn
    BY <1>3, TunnelSendDoneKeeps, KilledKeeps
  <1>4. CASE \E s \in Sessions : SessionGoroutine(s) \/ SessionSendDone(s) \/ Drain(s) \/ User(s)
    BY <1>4, SessionStepKeeps, SessionSendDoneKeeps, UserKeeps
  <1> QED BY <1>1, <1>2, <1>3, <1>4 DEF Next

\* The invariant holds throughout.
LEMMA AlwaysTInv == Spec => []TInv
  BY InitTInv, NextKeepsTInv, PTL DEF Spec

\* The tunnel and its sessions implement TunnelEvents: the events of
\* handleUserEvent come in the order promised to the application.
THEOREM TunnelImplementsEvents == Spec => EventsAsPromised
PROOF
  <1>1. Init => Events!Init
    BY InitTInv
  <1>2. TInv /\ [Next]_vars => [Events!Next]_(Events!vars)
    BY NextKeepsTInv DEF EventStep
  <1> QED BY <1>1, <1>2, AlwaysTInv, PTL DEF Spec, EventsAsPromised, Events!Spec

\* When fsmActClose reports the tunnel down, the goroutine of every session
\* it started has exited, detached sessions excepted.
THEOREM TunnelDownAfterSessions == Spec => []SessionsGoneByTunnelDown
PROOF
  <1>1. TInv => SessionsGoneByTunnelDown
    BY DEF TInv, SessionInv, Live, SessionsGoneByTunnelDown
  <1> QED BY <1>1, AlwaysTInv, PTL

\* A session's data plane, made by fsmActOnIcrp, exists only while the
\* tunnel's does, detached sessions excepted.
THEOREM SessionDataPlaneNested == Spec => []SessionDataPlaneInTunnels
PROOF
  <1>1. TInv => SessionDataPlaneInTunnels
    BY DEF TInv, SessionInv, GoroutineInv, SessionDataPlaneInTunnels
  <1> QED BY <1>1, AlwaysTInv, PTL

\* Once up, a tunnel sends nothing on the closed sendChan of its transport,
\* unless some session was detached from it.
THEOREM EstablishedTunnelsLive == Spec => []EstablishedNeverPanics
PROOF
  <1>1. TInv => EstablishedNeverPanics
    BY DEF TInv
  <1> QED BY <1>1, AlwaysTInv, PTL
=============================================================================

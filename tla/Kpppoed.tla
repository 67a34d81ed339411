------------------------------ MODULE Kpppoed ------------------------------
(***************************************************************************)
(* The kpppoed daemon (cmd/kpppoed): a PPPoE server which runs one kl2tpd  *)
(* process for each session.  Goroutines: the main loop, the reader of the *)
(* discovery socket, for each session one that waits for its daemon and    *)
(* one that scans its log, and those that closing starts.  A session is    *)
(* named by the PADR that asked for it; its PPPoE session ID may be used   *)
(* again by a later one.                                                   *)
(***************************************************************************)
EXTENDS Naturals, Sequences, FiniteSets

CONSTANTS MaxRequests, \* bound on the PADRs received
          SIDs,        \* PPPoE session IDs that rand draws from, 0 not one
          EvtCap,      \* capacity of l2tpdEvtChan (5 in the code)
          MaxLog,      \* bound on the close lines in a daemon's log
          Services,    \* subset of {"known", "unknown"}: what PADRs ask for
          SpawnResults \* subset of {"spawned", "no config", "not started"}

ASSUME KpppoedAssumption ==
  /\ MaxRequests \in Nat \ {0} /\ EvtCap \in Nat \ {0} /\ MaxLog \in Nat
  /\ 0 \notin SIDs /\ SIDs # {}

VARIABLES rx,        \* reader: a packet in its hands, "reading" or "done"
          connOpen, main, shutdown, toClose, sigChan,
          requests,  \* PADRs handled
          sessions,  \* app.sessions: request by session ID, 0 if none
          sid, open, \* of each session
          pads,      \* the PADS sent for each request
          daemon, waiter, killer, \* of each session: kl2tpd and goroutines
          scanner,   \* of each session: log scanner, an event in its hands
          closeLines, isUp,
          evtChan,
          early,     \* sessions registered when shutdown began to close them
          crashed

proc == <<daemon, waiter, killer>>
logs == <<scanner, closeLines, isUp>>
sess == <<sessions, sid, open>>
ctl == <<shutdown, toClose, early>>
vars == <<rx, connOpen, main, ctl, sigChan, requests, sess, pads, proc, logs, evtChan, crashed>>

Requests == 1..MaxRequests
NoRequest == 0
AllSIDs == SIDs \cup {0}
Packets == {<<"PADR", s>> : s \in {"known", "unknown"}} \cup {<<"PADT", i>> : i \in SIDs}
NoPADS == [sid |-> 0, error |-> FALSE, sent |-> FALSE, padts |-> 0]

Init ==
  /\ rx = <<"reading">> /\ connOpen = TRUE
  /\ main = <<"select">> /\ shutdown = "no" /\ toClose = {} /\ sigChan = FALSE
  /\ requests = 0 /\ sessions = [i \in AllSIDs |-> NoRequest]
  /\ sid = [r \in Requests |-> 0] /\ open = [r \in Requests |-> FALSE]
  /\ pads = [r \in Requests |-> NoPADS]
  /\ daemon = [r \in Requests |-> "none"] /\ waiter = [r \in Requests |-> "none"]
  /\ killer = [r \in Requests |-> "none"]
  /\ scanner = [r \in Requests |-> "none"]
  /\ closeLines = [r \in Requests |-> 0] /\ isUp = [r \in Requests |-> FALSE]
  /\ evtChan = << >> /\ early = {} /\ crashed = FALSE

Running == main # <<"exit">> /\ ~crashed
Selecting == Running /\ main = <<"select">>

\* A write of app.sessions while another goroutine ranges over it: the Go
\* runtime may stop the process, or not notice.
WriteMap == \/ UNCHANGED crashed
            \/ shutdown = "range" /\ crashed' = TRUE
-----------------------------------------------------------------------------
(* The reader of the discovery socket.                                     *)

Receive(p) ==
  /\ Running /\ rx = <<"reading">> /\ connOpen
  /\ p[1] = "PADR" => p[2] \in Services /\ requests < MaxRequests
  /\ rx' = p
  /\ UNCHANGED <<connOpen, main, ctl, sigChan, requests, sess, pads, proc, logs, evtChan, crashed>>

\* Recv fails: the socket is closed.
ReaderReturns ==
  /\ Running /\ rx = <<"reading">> /\ ~connOpen
  /\ rx' = <<"done">>
  /\ UNCHANGED <<connOpen, main, ctl, sigChan, requests, sess, pads, proc, logs, evtChan, crashed>>
-----------------------------------------------------------------------------
(* handlePADR.  A request that is refused is still given a daemon.         *)

\* Mutant: an ID in use may be drawn.
genSessionIDAny(i) == i \in SIDs

\* 100 draws: an ID that is not in use, or 0 when each draw met one that is.
genSessionID(i) ==
  \/ i \in SIDs /\ sessions[i] = NoRequest
  \/ i = 0 /\ \E j \in SIDs : sessions[j] # NoRequest

\* spawn, then the PADS, which is not sent once the socket is closed.
PADR(r, i, refused, result) ==
  /\ requests' = r
  /\ sid' = [sid EXCEPT ![r] = i]
  /\ daemon' = [daemon EXCEPT ![r] = IF result = "spawned" THEN "running" ELSE "nil"]
  /\ scanner' = [scanner EXCEPT ![r] = IF result = "spawned" THEN "scanning" ELSE "none"]
  /\ IF connOpen
     THEN /\ pads' = [pads EXCEPT ![r] = [sid |-> i, error |-> refused \/ result # "spawned",
                                          sent |-> TRUE, padts |-> 0]]
          /\ main' = <<"register", r>>
     ELSE UNCHANGED <<pads, main>>

HandlePADR(i, result) ==
  LET r == requests + 1 IN
  /\ Selecting /\ rx[1] = "PADR"
  /\ IF rx[2] = "known" THEN genSessionID(i) ELSE i = 0
  /\ result \in SpawnResults
  /\ rx' = <<"reading">>
  /\ IF result = "not started"   \* spawn's terminate has no process to signal
     THEN crashed' = TRUE /\ UNCHANGED <<main, requests, sid, pads, daemon, scanner>>
     ELSE PADR(r, i, i = 0, result) /\ UNCHANGED crashed
  /\ UNCHANGED <<connOpen, ctl, sigChan, sessions, open, waiter, killer, closeLines, isUp, evtChan>>

\* The session is kept and a goroutine waits for its daemon.
Register ==
  LET r == main[2] IN
  /\ Running /\ main[1] = "register"
  /\ main' = <<"select">>
  /\ sessions' = [sessions EXCEPT ![sid[r]] = r]
  /\ open' = [open EXCEPT ![r] = TRUE]
  /\ waiter' = [waiter EXCEPT ![r] = "waiting"]
  /\ IF daemon[r] = "nil" THEN crashed' = TRUE ELSE WriteMap
  /\ UNCHANGED <<rx, connOpen, ctl, sigChan, requests, sid, pads, daemon, killer, logs, evtChan>>
-----------------------------------------------------------------------------
(* Closing a session.                                                      *)

\* Mutant: a closed session is closed again.
closesAlways(i) == sessions[i] # NoRequest

\* The lock makes one caller find the session open.
closes(i) == sessions[i] # NoRequest /\ open[sessions[i]]

\* A PADT that cannot be sent is only logged: the socket is closed, or the
\* session ID is 0, which Validate refuses.
closePPPoESession(i, sendPADT) ==
  LET r == sessions[i] IN
  IF closes(i)
  THEN /\ open' = [open EXCEPT ![r] = FALSE]
       /\ pads' = IF sendPADT /\ connOpen /\ i # 0
                  THEN [pads EXCEPT ![r].padts = @ + 1] ELSE pads
       /\ killer' = [killer EXCEPT ![r] = IF @ = "none" THEN "started" ELSE "again"]
  ELSE UNCHANGED <<open, pads, killer>>

\* Mutant: kl2tpd is not signalled, only waited for.
TerminateSilent(r) ==
  /\ Running /\ killer[r] = "started"
  /\ killer' = [killer EXCEPT ![r] = "waiting"]
  /\ UNCHANGED <<rx, connOpen, main, ctl, sigChan, requests, sess, pads, daemon, waiter, logs, evtChan, crashed>>

Interrupted(r) == [daemon EXCEPT ![r] = IF @ = "running" THEN "interrupted" ELSE @]

Terminate(r) ==
  /\ Running /\ killer[r] = "started"
  /\ killer' = [killer EXCEPT ![r] = "waiting"]
  /\ daemon' = Interrupted(r)
  /\ UNCHANGED <<rx, connOpen, main, ctl, sigChan, requests, sess, pads, waiter, logs, evtChan, crashed>>

TerminateReturns(r) ==
  /\ Running /\ killer[r] = "waiting" /\ scanner[r] = "done"
  /\ killer' = [killer EXCEPT ![r] = "done"]
  /\ UNCHANGED <<rx, connOpen, main, ctl, sigChan, requests, sess, pads, daemon, waiter, logs, evtChan, crashed>>

HandlePADT ==
  /\ Selecting /\ rx[1] = "PADT"
  /\ rx' = <<"reading">>
  /\ closePPPoESession(rx[2], FALSE)
  /\ UNCHANGED <<connOpen, main, ctl, sigChan, requests, sessions, sid, daemon, waiter, logs, evtChan, crashed>>
-----------------------------------------------------------------------------
(* kl2tpd, the goroutine that waits for it and the one that scans its log. *)

DaemonExits(r) ==
  /\ daemon[r] \in {"running", "interrupted"}
  /\ daemon' = [daemon EXCEPT ![r] = "exited"]
  /\ UNCHANGED <<rx, connOpen, main, ctl, sigChan, requests, sess, pads, waiter, killer, logs, evtChan, crashed>>

\* Wait closes the log's pipe: lines not scanned yet are lost.
WaitReturns(r) ==
  /\ Running /\ waiter[r] = "waiting" /\ daemon[r] = "exited"
  /\ waiter' = [waiter EXCEPT ![r] = "sending"]
  /\ UNCHANGED <<rx, connOpen, main, ctl, sigChan, requests, sess, pads, daemon, killer, logs, evtChan, crashed>>

ScanEnds(r) ==
  /\ Running /\ scanner[r] = "scanning" /\ daemon[r] = "exited"
  /\ scanner' = [scanner EXCEPT ![r] = "done"]
  /\ UNCHANGED <<rx, connOpen, main, ctl, sigChan, requests, sess, pads, proc, closeLines, isUp, evtChan, crashed>>

ScanUp(r) ==
  /\ Running /\ scanner[r] = "scanning" /\ ~isUp[r] /\ closeLines[r] = 0
  /\ isUp' = [isUp EXCEPT ![r] = TRUE]
  /\ scanner' = [scanner EXCEPT ![r] = "up"]
  /\ UNCHANGED <<rx, connOpen, main, ctl, sigChan, requests, sess, pads, proc, closeLines, evtChan, crashed>>

\* A close line of the session or of the tunnel.
ScanDown(r) ==
  /\ Running /\ scanner[r] = "scanning" /\ closeLines[r] < MaxLog
  /\ closeLines' = [closeLines EXCEPT ![r] = @ + 1]
  /\ isUp' = [isUp EXCEPT ![r] = FALSE]
  /\ scanner' = [scanner EXCEPT ![r] = "down"]
  /\ UNCHANGED <<rx, connOpen, main, ctl, sigChan, requests, sess, pads, proc, evtChan, crashed>>

\* handleEvent blocks while the channel is full; after a close line the
\* scanner interrupts the daemon.
EventSent(r) ==
  /\ Running /\ scanner[r] \in {"up", "down"} /\ Len(evtChan) < EvtCap
  /\ evtChan' = Append(evtChan, [ev |-> scanner[r], sid |-> sid[r]])
  /\ scanner' = [scanner EXCEPT ![r] = "scanning"]
  /\ daemon' = IF scanner[r] = "down" THEN Interrupted(r) ELSE daemon
  /\ UNCHANGED <<rx, connOpen, main, ctl, sigChan, requests, sess, pads, waiter, killer, closeLines, isUp, crashed>>
-----------------------------------------------------------------------------
(* The main loop's select, and shutdown.                                   *)

\* The session is found by the event's session ID; an Up event only records
\* the L2TP IDs.
SelectEvent ==
  /\ Selecting /\ evtChan # << >>
  /\ evtChan' = Tail(evtChan)
  /\ IF Head(evtChan).ev = "down" THEN closePPPoESession(Head(evtChan).sid, TRUE)
                                  ELSE UNCHANGED <<open, pads, killer>>
  /\ UNCHANGED <<rx, connOpen, main, ctl, sigChan, requests, sessions, sid, daemon, waiter, logs, crashed>>

\* The daemon has exited: its session ID is closed and free again.
SelectComplete(r) ==
  /\ Selecting /\ waiter[r] = "sending"
  /\ waiter' = [waiter EXCEPT ![r] = "done"]
  /\ closePPPoESession(sid[r], TRUE)
  /\ sessions' = [sessions EXCEPT ![sid[r]] = NoRequest]
  /\ WriteMap
  /\ UNCHANGED <<rx, connOpen, main, ctl, sigChan, requests, sid, daemon, logs, evtChan>>

\* A second signal while shutting down is only logged.
Signal ==
  /\ Running /\ shutdown = "no" /\ ~sigChan
  /\ sigChan' = TRUE
  /\ UNCHANGED <<rx, connOpen, main, ctl, requests, sess, pads, proc, logs, evtChan, crashed>>

SelectSignal ==
  /\ Selecting /\ sigChan /\ shutdown = "no"
  /\ sigChan' = FALSE /\ shutdown' = "started"
  /\ UNCHANGED <<rx, connOpen, main, toClose, early, requests, sess, pads, proc, logs, evtChan, crashed>>

\* The shutdown goroutine closes the socket, then each session it finds.
ShutdownConn ==
  /\ Running /\ shutdown = "started"
  /\ shutdown' = "range" /\ connOpen' = FALSE
  /\ toClose' = {i \in AllSIDs : sessions[i] # NoRequest}
  /\ early' = {sessions[i] : i \in toClose'}
  /\ UNCHANGED <<rx, main, sigChan, requests, sess, pads, proc, logs, evtChan, crashed>>

ShutdownSession(i) ==
  /\ Running /\ shutdown = "range" /\ i \in toClose
  /\ toClose' = toClose \ {i}
  /\ closePPPoESession(i, TRUE)
  /\ UNCHANGED <<rx, connOpen, main, shutdown, early, sigChan, requests, sessions, sid, daemon, waiter, logs, evtChan, crashed>>

ShutdownClosed ==
  /\ Running /\ shutdown = "range" /\ toClose = {}
  /\ shutdown' = "waiting"
  /\ UNCHANGED <<rx, connOpen, main, toClose, early, sigChan, requests, sess, pads, proc, logs, evtChan, crashed>>

\* Mutant: only the reader is waited for.
WgZeroReader == rx = <<"done">>

\* app.wg: the reader, the goroutines that wait for daemons and those that
\* terminate them.
WgZero ==
  /\ rx = <<"done">>
  /\ \A r \in Requests : waiter[r] \in {"none", "done"} /\ killer[r] \in {"none", "done"}

ShutdownDone ==
  /\ Running /\ shutdown = "waiting" /\ WgZero
  /\ shutdown' = "done"
  /\ UNCHANGED <<rx, connOpen, main, toClose, early, sigChan, requests, sess, pads, proc, logs, evtChan, crashed>>

SelectCloseChan ==
  /\ Selecting /\ shutdown = "done"
  /\ main' = <<"exit">>
  /\ UNCHANGED <<rx, connOpen, ctl, sigChan, requests, sess, pads, proc, logs, evtChan, crashed>>
-----------------------------------------------------------------------------
Results == {"spawned", "no config", "not started"}

Main == \/ \E i \in AllSIDs, result \in Results : HandlePADR(i, result)
        \/ Register \/ HandlePADT
        \/ SelectEvent \/ \E r \in Requests : SelectComplete(r)
        \/ SelectSignal \/ SelectCloseChan

Shutdown == \/ ShutdownConn \/ \E i \in AllSIDs : ShutdownSession(i)
            \/ ShutdownClosed \/ ShutdownDone

Goroutines(r) == Terminate(r) \/ TerminateReturns(r) \/ WaitReturns(r) \/ ScanEnds(r) \/ EventSent(r)

\* kpppoed stops when it has exited or crashed; its daemons may live on.
Stopped == (main = <<"exit">> \/ crashed) /\ UNCHANGED vars

Next ==
  \/ Main \/ Shutdown \/ Signal \/ ReaderReturns
  \/ \E p \in Packets : Receive(p)
  \/ \E r \in Requests : Goroutines(r) \/ DaemonExits(r) \/ ScanUp(r) \/ ScanDown(r)
  \/ Stopped

Spec == Init /\ [][Next]_vars

\* Goroutines run; a select takes each ready case in the end; an interrupted
\* kl2tpd exits (see Kl2tpd).  Peers, signals and log lines owe nothing.
Fairness ==
  /\ WF_vars(Register) /\ WF_vars(Shutdown) /\ WF_vars(ReaderReturns)
  /\ SF_vars(HandlePADT) /\ SF_vars(SelectEvent) /\ SF_vars(SelectSignal) /\ SF_vars(SelectCloseChan)
  /\ SF_vars(\E i \in AllSIDs, result \in Results : HandlePADR(i, result))
  /\ \A r \in Requests :
       /\ SF_vars(SelectComplete(r)) /\ WF_vars(Terminate(r)) /\ WF_vars(TerminateReturns(r))
       /\ WF_vars(WaitReturns(r)) /\ WF_vars(ScanEnds(r)) /\ SF_vars(EventSent(r))
       /\ WF_vars(daemon[r] = "interrupted" /\ DaemonExits(r))

FairSpec == Spec /\ Fairness
-----------------------------------------------------------------------------
(* Properties.                                                             *)

Registered(r) == waiter[r] # "none"

\* A session that was given a session ID is the one that ID finds until its
\* daemon has been reported complete: PADT packets, log events and shutdown can
\* all reach it (genSessionID, handlePADR, the main loop's delete).
ReachableUntilComplete ==
  crashed \/ \A r \in Requests :
    waiter[r] \in {"waiting", "sending"} /\ sid[r] # 0 => sessions[sid[r]] = r

\* However the peer, the log, the daemon's exit and shutdown race to close a
\* session, it is terminated once and told so once (closePPPoESession's lock).
ClosedOnce == \A r \in Requests : killer[r] # "again" /\ pads[r].padts <= 1

\* When kpppoed exits, every daemon whose session was known when shutdown
\* began to close sessions has exited (run, wg.Wait).
ExitLeavesNoKnownDaemon ==
  main = <<"exit">> => \A r \in early : daemon[r] = "exited"

\* A PADS that indicates failure carries session ID 0, and one that indicates
\* success does not (NewPADS, handlePADR).
FailureHasZeroSid == \A r \in Requests : pads[r].sent => (pads[r].error <=> pads[r].sid = 0)

\* kpppoed does not crash: a request for which resources cannot be allocated
\* is answered, not fatal (handlePADR).
NeverCrashes == ~crashed

\* A closed session's daemon exits and its ID is free again, whoever closed it
\* (terminate, wait and the main loop).
ClosedSessionsEnd ==
  \A r \in Requests :
    (Registered(r) /\ ~open[r]) ~> (waiter[r] = "done" \/ crashed \/ main = <<"exit">>)

\* Once a signal is taken kpppoed exits, unless a PADR it was handling put its
\* session in the map after the shutdown goroutine had looked (run).
ShutdownCompletes ==
  (shutdown # "no") ~> (main = <<"exit">> \/ crashed
                        \/ \E r \in Requests \ early : Registered(r))
=============================================================================

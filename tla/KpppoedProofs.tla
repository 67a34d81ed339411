--------------------------- MODULE KpppoedProofs ----------------------------
(***************************************************************************)
(* For any number of requests, any set of session IDs and any capacity of  *)
(* the event channel: a session is closed once, its ID finds it until its  *)
(* daemon is done, and an exiting kpppoed leaves no daemon that it knew of *)
(* when it began to close sessions.                                        *)
(***************************************************************************)
EXTENDS Kpppoed, TLAPS

KpppoedTypes ==
  /\ requests \in 0..MaxRequests
  /\ sessions \in [AllSIDs -> 0..MaxRequests]
  /\ sid \in [Requests -> AllSIDs]
  /\ open \in [Requests -> BOOLEAN]
  /\ waiter \in [Requests -> {"none", "waiting", "sending", "done"}]
  /\ killer \in [Requests -> {"none", "started", "waiting", "done", "again"}]
  /\ daemon \in [Requests -> {"none", "nil", "running", "interrupted", "exited"}]
  /\ pads \in [Requests -> [sid : AllSIDs, error : BOOLEAN, sent : BOOLEAN, padts : Nat]]

\* What the main loop is about to receive.
InputInv ==
  /\ rx[1] = "PADR" => requests < MaxRequests
  /\ rx[1] = "PADT" => rx[2] \in SIDs
  /\ evtChan \in Seq([ev : {"up", "down"}, sid : AllSIDs])
  /\ scanner \in [Requests -> {"none", "scanning", "up", "down", "done"}]

\* What app.sessions holds is the session of that ID, and its waiter has not
\* been heard; between the PADS and its entry in the map a session's ID is free.
TableInv ==
  /\ \A r \in Requests : r > requests => waiter[r] = "none"
  /\ \A i \in AllSIDs : sessions[i] # 0 =>
       sid[sessions[i]] = i /\ waiter[sessions[i]] \in {"waiting", "sending"}
  /\ \A r \in Requests : waiter[r] \in {"waiting", "sending"} /\ sid[r] # 0 => sessions[sid[r]] = r
  /\ main[1] = "register" =>
       /\ main[2] = requests /\ requests # 0 /\ waiter[requests] = "none"
       /\ sid[requests] # 0 => sessions[sid[requests]] = 0

\* An open session has not been closed; one not in the map yet is not open.
CloseInv ==
  \A r \in Requests :
    /\ open[r] => killer[r] = "none" /\ pads[r].padts = 0
    /\ waiter[r] = "none" => ~open[r] /\ killer[r] = "none" /\ pads[r].padts = 0
    /\ killer[r] # "again" /\ pads[r].padts <= 1

\* Who has been heard of has exited, and the wait group has heard of everyone.
ExitInv ==
  /\ early \subseteq Requests
  /\ \A r \in early : waiter[r] # "none"
  /\ \A r \in Requests : waiter[r] \in {"sending", "done"} => daemon[r] = "exited"
  /\ shutdown = "done" => \A r \in early : waiter[r] = "done"
  /\ main[1] = "exit" => shutdown = "done"

KInv == KpppoedTypes /\ InputInv /\ TableInv /\ CloseInv /\ ExitInv

\* kpppoed starts with no session and no daemon.
LEMMA KInitInv == Init => KInv
<1> SUFFICES ASSUME Init PROVE KInv
  OBVIOUS
<1> USE KpppoedAssumption DEF Init, AllSIDs, Requests, NoRequest, NoPADS
<1>1. KpppoedTypes
  BY DEF KpppoedTypes
<1>2. TableInv
  BY DEF TableInv
<1>3. CloseInv
  BY DEF CloseInv
<1>4. ExitInv
  BY DEF ExitInv
<1>5. InputInv
  BY DEF InputInv
<1> QED
  BY <1>1, <1>2, <1>3, <1>4, <1>5 DEF KInv

\* closePPPoESession closes the session that the ID finds, if it is open, and
\* changes no other: the lock's check makes the second closer a bystander.
LEMMA CloseKeeps ==
  ASSUME KInv, NEW i \in AllSIDs, NEW b \in BOOLEAN, closePPPoESession(i, b)
  PROVE  /\ open' \in [Requests -> BOOLEAN]
         /\ killer' \in [Requests -> {"none", "started", "waiting", "done", "again"}]
         /\ pads' \in [Requests -> [sid : AllSIDs, error : BOOLEAN, sent : BOOLEAN, padts : Nat]]
         /\ \A r \in Requests :
              /\ open'[r] => killer'[r] = "none" /\ pads'[r].padts = 0
              /\ waiter[r] = "none" => ~open'[r] /\ killer'[r] = "none" /\ pads'[r].padts = 0
              /\ killer'[r] # "again" /\ pads'[r].padts <= 1
<1> USE DEF KInv, KpppoedTypes, CloseInv
<1>1. CASE closes(i)
  <2> DEFINE s == sessions[i]
  <2>1. s \in Requests /\ open[s] /\ waiter[s] # "none"
    BY <1>1, KpppoedAssumption DEF closes, NoRequest, Requests, TableInv
  <2>2. open' = [open EXCEPT ![s] = FALSE] /\ killer' = [killer EXCEPT ![s] = "started"]
    BY <1>1, <2>1 DEF closePPPoESession
  <2>3. pads' = pads \/ pads' = [pads EXCEPT ![s].padts = @ + 1]
    BY <1>1 DEF closePPPoESession
  <2>4. pads' \in [Requests -> [sid : AllSIDs, error : BOOLEAN, sent : BOOLEAN, padts : Nat]]
    BY <2>1, <2>3
  <2>5. \A r \in Requests : pads'[r].padts <= 1 /\ (r # s => pads'[r] = pads[r])
    BY <2>1, <2>3
  <2> QED
    BY <2>1, <2>2, <2>4, <2>5, ZenonT(60)
<1>2. CASE ~closes(i)
  BY <1>2 DEF closePPPoESession
<1> QED
  BY <1>1, <1>2

\* Steps that close no session and start none.
LEMMA QuietSteps ==
  ASSUME KInv,
         \/ Signal \/ ReaderReturns \/ SelectSignal \/ SelectCloseChan \/ ShutdownConn
         \/ ShutdownClosed \/ ShutdownDone
         \/ \E p \in Packets : Receive(p)
         \/ \E r \in Requests : \/ Terminate(r) \/ TerminateReturns(r) \/ WaitReturns(r)
                                \/ ScanEnds(r) \/ EventSent(r) \/ DaemonExits(r)
                                \/ ScanUp(r) \/ ScanDown(r)
  PROVE  KInv'
<1> USE DEF KInv, KpppoedTypes, TableInv, CloseInv, ExitInv, Running, Selecting, proc, logs, sess, ctl
<1>1. CASE Signal \/ SelectSignal \/ ShutdownClosed
  BY <1>1 DEF Signal, SelectSignal, ShutdownClosed, InputInv
<1>2. CASE ReaderReturns
  BY <1>2 DEF ReaderReturns, InputInv
<1>3. CASE SelectCloseChan
  BY <1>3 DEF SelectCloseChan, InputInv
<1>4. CASE ShutdownConn
  <2>1. early' \subseteq Requests /\ \A r \in early' : waiter[r] # "none"
    <3> SUFFICES ASSUME NEW r \in early' PROVE r \in Requests /\ waiter[r] # "none"
      OBVIOUS
    <3>1. PICK i \in toClose' : r = sessions[i]
      BY <1>4 DEF ShutdownConn
    <3>2. i \in AllSIDs /\ sessions[i] # 0
      BY <1>4 DEF ShutdownConn, NoRequest
    <3>3. sessions \in [AllSIDs -> 0..MaxRequests]
      OBVIOUS
    <3> HIDE DEF CloseInv, ExitInv
    <3>4. r \in Requests
      BY <3>1, <3>2, <3>3, KpppoedAssumption DEF Requests
    <3> QED
      BY <3>1, <3>2, <3>4
  <2> QED
    BY <1>4, <2>1 DEF ShutdownConn, InputInv
<1>5. CASE ShutdownDone
  BY <1>5 DEF ShutdownDone, WgZero, InputInv
<1>6. ASSUME NEW p \in Packets, Receive(p) PROVE KInv'
  <2>1. InputInv'
    <3>1. p[1] = "PADT" => p[2] \in SIDs
      BY DEF Packets
    <3> QED
      BY <1>6, <3>1 DEF Receive, InputInv
  <2> QED
    BY <1>6, <2>1 DEF Receive
<1>7. ASSUME NEW r \in Requests, Terminate(r) PROVE KInv'
  BY <1>7 DEF Terminate, Interrupted, InputInv
<1>8. ASSUME NEW r \in Requests, TerminateReturns(r) PROVE KInv'
  BY <1>8 DEF TerminateReturns, InputInv
<1>9. ASSUME NEW r \in Requests, WaitReturns(r) PROVE KInv'
  <2>1. InputInv'
    BY <1>9, SMTT(60) DEF WaitReturns, InputInv
  <2> QED
    BY <1>9, <2>1 DEF WaitReturns
<1>10. ASSUME NEW r \in Requests, ScanEnds(r) \/ ScanUp(r) \/ ScanDown(r) PROVE KInv'
  <2>1. InputInv'
    <3>1. PICK w \in {"up", "down", "done"} : scanner' = [scanner EXCEPT ![r] = w]
      BY <1>10, SMTT(60) DEF ScanEnds, ScanUp, ScanDown
    <3>2. UNCHANGED <<rx, requests, evtChan>>
      BY <1>10, SMTT(60) DEF ScanEnds, ScanUp, ScanDown
    <3> QED
      BY <3>1, <3>2, SMTT(60) DEF InputInv
  <2> QED
    BY <1>10, <2>1 DEF ScanEnds, ScanUp, ScanDown
<1>11. ASSUME NEW r \in Requests, EventSent(r) PROVE KInv'
  <2>1. InputInv'
    BY <1>11 DEF EventSent, InputInv
  <2> QED
    BY <1>11, <2>1 DEF EventSent, Interrupted
<1>12. ASSUME NEW r \in Requests, DaemonExits(r) PROVE KInv'
  BY <1>12 DEF DaemonExits, InputInv
<1> QED
  BY <1>1, <1>2, <1>3, <1>4, <1>5, <1>6, <1>7, <1>8, <1>9, <1>10, <1>11, <1>12

\* Handling a PADR takes the next request, whose session ID is free or 0, and
\* leaves the main loop about to keep it.
LEMMA PADRKeeps ==
  ASSUME KInv, NEW i \in AllSIDs, NEW result \in Results, HandlePADR(i, result)
  PROVE  KInv'
<1> DEFINE r == requests + 1
<1> USE DEF KInv, KpppoedTypes, TableInv, CloseInv, ExitInv
<1>1. CASE result = "not started"
  <2>1. /\ UNCHANGED <<main, requests, sid, pads, daemon, scanner, early, shutdown, sessions, open, waiter, killer, evtChan>>
        /\ rx' = <<"reading">>
    BY <1>1 DEF HandlePADR, ctl
  <2> QED
    BY <2>1 DEF InputInv
<1>2. CASE result # "not started"
  <2> PADR(r, i, i = 0, result) /\ (i # 0 => genSessionID(i)) /\ rx' = <<"reading">>
    BY <1>2 DEF HandlePADR
  <2>0. UNCHANGED <<early, shutdown, sessions, open, waiter, killer, evtChan>>
    BY DEF HandlePADR, ctl
  <2>1. r \in Requests /\ requests' = r /\ waiter[r] = "none"
    <3>1. requests < MaxRequests
      BY DEF HandlePADR, InputInv
    <3>2. r \in Requests /\ r > requests
      BY <3>1, KpppoedAssumption DEF Requests
    <3> QED
      BY <3>2 DEF PADR
  <2>2. sid' = [sid EXCEPT ![r] = i] /\ (i # 0 => sessions[i] = 0)
    BY DEF PADR, genSessionID, NoRequest
  <2>3. /\ daemon' \in [Requests -> {"none", "nil", "running", "interrupted", "exited"}]
        /\ \A s \in Requests : s # r => daemon'[s] = daemon[s]
    <3>1. daemon' = [daemon EXCEPT ![r] = IF result = "spawned" THEN "running" ELSE "nil"]
      BY DEF PADR
    <3> HIDE DEF r
    <3> QED
      BY <2>1, <3>1
  <2>4. /\ pads' \in [Requests -> [sid : AllSIDs, error : BOOLEAN, sent : BOOLEAN, padts : Nat]]
        /\ \A s \in Requests : pads'[s].padts = pads[s].padts
    <3>1. CASE connOpen
      <4>1. PICK bad \in BOOLEAN :
              pads' = [pads EXCEPT ![r] = [sid |-> i, error |-> bad, sent |-> TRUE, padts |-> 0]]
        BY <3>1 DEF PADR
      <4>2. pads[r].padts = 0
        BY <2>1
      <4> HIDE DEF r
      <4> QED
        BY <2>1, <4>1, <4>2
    <3>2. CASE ~connOpen
      BY <1>2, <3>2, ZenonT(60) DEF PADR
    <3> QED
      BY <3>1, <3>2
  <2>5. main' = main \/ main' = <<"register", r>>
    BY <1>2 DEF PADR
  <2>6. main[1] = "select"
    BY DEF HandlePADR, Selecting
  <2> HIDE DEF r
  <2>7. KpppoedTypes'
    <3>1. requests' \in 0..MaxRequests
      BY <2>1, KpppoedAssumption DEF Requests
    <3> QED
      BY <2>0, <2>1, <2>2, <2>3, <2>4, <3>1
  <2>8. TableInv'
    <3>1. \A s \in Requests : s > requests' => waiter'[s] = "none"
      BY <2>0, <2>1, KpppoedAssumption DEF Requests, r
    <3>2. \A j \in AllSIDs : sessions[j] # 0 => sessions[j] \in Requests /\ sessions[j] # r
      <4>1. \A n \in 0..MaxRequests : n # 0 => n \in Requests
        BY KpppoedAssumption DEF Requests
      <4> QED
        BY <2>1, <4>1
    <3>3. \A j \in AllSIDs : sessions'[j] # 0 =>
            sid'[sessions'[j]] = j /\ waiter'[sessions'[j]] \in {"waiting", "sending"}
      BY <2>0, <2>1, <2>2, <3>2
    <3>4. \A s \in Requests : waiter'[s] \in {"waiting", "sending"} /\ sid'[s] # 0 => sessions'[sid'[s]] = s
      BY <2>0, <2>1, <2>2
    <3>5. main'[1] = "register" => /\ main'[2] = r /\ r # 0 /\ waiter'[r] = "none"
                                   /\ sid'[r] # 0 => sessions'[sid'[r]] = 0
      BY <2>0, <2>1, <2>2, <2>5, <2>6, KpppoedAssumption, SMTT(60) DEF Requests
    <3> QED
      BY <2>1, <3>1, <3>3, <3>4, <3>5
  <2>9. CloseInv'
    BY <2>0, <2>4, SMTT(60)
  <2>10. ExitInv'
    BY <2>0, <2>1, <2>3, <2>5, <2>6, SMTT(60)
  <2>11. InputInv'
    <3>1. scanner' = [scanner EXCEPT ![r] = IF result = "spawned" THEN "scanning" ELSE "none"]
      BY SMTT(60) DEF PADR, r
    <3> QED
      BY <2>0, <2>1, <3>1, SMTT(60) DEF InputInv
  <2> QED
    BY <2>7, <2>8, <2>9, <2>10, <2>11
<1> QED
  BY <1>1, <1>2

\* The session is kept: nobody else's ID was the same.
LEMMA RegisterKeeps == ASSUME KInv, Register PROVE KInv'
<1> USE DEF KInv, KpppoedTypes, TableInv, CloseInv, ExitInv, Running, ctl, logs
<1>1. /\ requests \in Requests /\ waiter[requests] = "none"
      /\ sid[requests] # 0 => sessions[sid[requests]] = 0
      /\ sessions' = [sessions EXCEPT ![sid[requests]] = requests]
      /\ open' = [open EXCEPT ![requests] = TRUE]
      /\ waiter' = [waiter EXCEPT ![requests] = "waiting"]
      /\ main' = <<"select">>
      /\ UNCHANGED <<requests, sid, pads, daemon, killer, early, shutdown, rx, evtChan, scanner>>
  <2>1. main[2] = requests /\ requests # 0 /\ waiter[requests] = "none"
    BY SMTT(60) DEF Register
  <2>2. requests \in Requests
    BY <2>1, KpppoedAssumption DEF Requests
  <2> QED
    BY <2>1, <2>2 DEF Register
<1>2. KpppoedTypes'
  BY <1>1, KpppoedAssumption DEF Requests
<1>3. TableInv'
  <2>1. \A s \in Requests : s > requests' => waiter'[s] = "none"
    BY <1>1, KpppoedAssumption DEF Requests
  <2>2. ASSUME NEW j \in AllSIDs, sessions'[j] # 0
        PROVE  sid'[sessions'[j]] = j /\ waiter'[sessions'[j]] \in {"waiting", "sending"}
    <3>1. CASE j = sid[requests]
      BY <1>1, <3>1
    <3>2. CASE j # sid[requests]
      BY <1>1, <2>2, <3>2, KpppoedAssumption DEF Requests
    <3> QED
      BY <3>1, <3>2, SMTT(60)
  <2>3. ASSUME NEW s \in Requests, waiter'[s] \in {"waiting", "sending"}, sid'[s] # 0
        PROVE  sessions'[sid'[s]] = s
    BY <1>1, <2>3, KpppoedAssumption, SMTT(60) DEF Requests
  <2> QED
    BY <1>1, <2>1, <2>2, <2>3
<1>4. CloseInv'
  BY <1>1
<1>5. ExitInv'
  BY <1>1
<1>6. InputInv'
  BY <1>1 DEF InputInv
<1> QED
  BY <1>2, <1>3, <1>4, <1>5, <1>6

\* What is received from l2tpdEvtChan, and what stays in it, was sent to it.
LEMMA EventQueue ==
  ASSUME NEW q \in Seq([ev : {"up", "down"}, sid : AllSIDs]), q # << >>
  PROVE  Head(q).sid \in AllSIDs /\ Tail(q) \in Seq([ev : {"up", "down"}, sid : AllSIDs])
<1> DEFINE E == [ev : {"up", "down"}, sid : AllSIDs]
<1>1. ASSUME NEW e \in E PROVE e.sid \in AllSIDs
  OBVIOUS
<1> HIDE DEF E
<1>2. q \in Seq(E)
  BY DEF E
<1>3. Head(q) \in E /\ Tail(q) \in Seq(E)
  BY <1>2
<1> QED
  BY <1>1, <1>3 DEF E

\* The steps that close a session and leave it in the map.
LEMMA ClosingSteps ==
  ASSUME KInv, HandlePADT \/ SelectEvent \/ \E i \in AllSIDs : ShutdownSession(i)
  PROVE  KInv'
<1>1. /\ UNCHANGED <<requests, sessions, sid, waiter, daemon, main, early, shutdown, scanner>>
      /\ rx' = rx \/ rx' = <<"reading">>
  BY DEF HandlePADT, SelectEvent, ShutdownSession, logs, ctl
<1>2. InputInv'
  <2>1. evtChan' = evtChan \/ (evtChan # << >> /\ evtChan' = Tail(evtChan))
    BY DEF HandlePADT, SelectEvent, ShutdownSession
  <2>2. evtChan' \in Seq([ev : {"up", "down"}, sid : AllSIDs])
    BY <2>1, EventQueue DEF KInv, InputInv
  <2> QED
    BY <1>1, <2>2 DEF KInv, InputInv
<1>3. \/ UNCHANGED <<open, pads, killer>>
      \/ \E i \in AllSIDs, b \in BOOLEAN : closePPPoESession(i, b)
  <2>1. CASE HandlePADT
    BY <2>1 DEF HandlePADT, KInv, InputInv, AllSIDs
  <2>2. CASE SelectEvent
    <3>1. Head(evtChan).sid \in AllSIDs
      BY <2>2, EventQueue DEF SelectEvent, KInv, InputInv
    <3> QED
      BY <2>2, <3>1 DEF SelectEvent
  <2>3. CASE \E i \in AllSIDs : ShutdownSession(i)
    BY <2>3 DEF ShutdownSession
  <2> QED
    BY <2>1, <2>2, <2>3
<1>4. CASE UNCHANGED <<open, pads, killer>>
  BY <1>1, <1>2, <1>4 DEF KInv, KpppoedTypes, TableInv, CloseInv, ExitInv
<1>5. ASSUME NEW i \in AllSIDs, NEW b \in BOOLEAN, closePPPoESession(i, b) PROVE KInv'
  <2>1. KpppoedTypes' /\ CloseInv'
    BY <1>1, <1>5, CloseKeeps, SMTT(60) DEF KInv, KpppoedTypes, CloseInv
  <2>2. TableInv' /\ ExitInv'
    BY <1>1 DEF KInv, TableInv, ExitInv
  <2> QED
    BY <1>2, <2>1, <2>2, SMTT(60) DEF KInv
<1> QED
  BY <1>3, <1>4, <1>5, SMTT(60)

\* A daemon is reported complete: its session is closed and its ID free.
LEMMA CompleteKeeps ==
  ASSUME KInv, NEW r \in Requests, SelectComplete(r)
  PROVE  KInv'
<1> DEFINE i == sid[r]
<1>1. i \in AllSIDs
  BY DEF KInv, KpppoedTypes
<1>2. /\ waiter[r] = "sending" /\ waiter' = [waiter EXCEPT ![r] = "done"]
      /\ sessions' = [sessions EXCEPT ![i] = 0]
      /\ main[1] = "select"
      /\ UNCHANGED <<requests, sid, daemon, main, early, shutdown, scanner, rx, evtChan>>
  BY DEF SelectComplete, NoRequest, logs, ctl, Selecting
<1>3. closePPPoESession(i, TRUE)
  BY DEF SelectComplete
<1> HIDE DEF i
<1>4. KpppoedTypes' /\ CloseInv'
  <2>1. /\ waiter' \in [Requests -> {"none", "waiting", "sending", "done"}]
        /\ sessions' \in [AllSIDs -> 0..MaxRequests]
        /\ \A s \in Requests : waiter'[s] = "none" => waiter[s] = "none"
    BY <1>1, <1>2, KpppoedAssumption DEF KInv, KpppoedTypes
  <2> QED
    BY <1>1, <1>2, <1>3, <2>1, CloseKeeps, ZenonT(60) DEF KInv, KpppoedTypes, CloseInv
<1>5. InputInv'
  BY <1>2 DEF KInv, InputInv
<1>6. ExitInv'
  BY <1>2, SMTT(60) DEF KInv, KpppoedTypes, ExitInv
<1>7. TableInv'
  BY <1>1, <1>2 DEF KInv, KpppoedTypes, TableInv, i
<1> QED
  BY <1>4, <1>5, <1>6, <1>7 DEF KInv

\* Every step keeps the invariant.
LEMMA KNextInv == KInv /\ [Next]_vars => KInv'
<1> SUFFICES ASSUME KInv, [Next]_vars PROVE KInv'
  BY SMTT(60)
<1>1. CASE UNCHANGED vars
  BY <1>1 DEF vars, proc, logs, sess, ctl, KInv, KpppoedTypes, InputInv, TableInv, CloseInv, ExitInv
<1>2. CASE Main
  BY <1>2, PADRKeeps, RegisterKeeps, ClosingSteps, CompleteKeeps, QuietSteps DEF Main
<1>3. CASE Shutdown
  BY <1>3, ClosingSteps, QuietSteps DEF Shutdown
<1>4. CASE Signal \/ ReaderReturns \/ \E p \in Packets : Receive(p)
  BY <1>4, QuietSteps
<1>5. ASSUME NEW r \in Requests, Goroutines(r) \/ DaemonExits(r) \/ ScanUp(r) \/ ScanDown(r)
      PROVE  KInv'
  BY <1>5, QuietSteps DEF Goroutines
<1> QED
  BY <1>1, <1>2, <1>3, <1>4, <1>5 DEF Next, Stopped

\* KInv holds throughout.
LEMMA KInvHolds == Spec => []KInv
BY KInitInv, KNextInv, PTL DEF Spec

\* However PADT, log lines, the daemon's exit and shutdown race, a session is
\* terminated once and the peer told once (closePPPoESession).
THEOREM SessionsClosedOnce == Spec => []ClosedOnce
<1>1. KInv => ClosedOnce
  BY DEF KInv, CloseInv, ClosedOnce
<1> QED
  BY <1>1, KInvHolds, PTL

\* A session ID finds its session until the daemon has been reported complete
\* (genSessionID, handlePADR and the delete in the main loop).
THEOREM SessionsReachable == Spec => []ReachableUntilComplete
<1>1. KInv => ReachableUntilComplete
  BY DEF KInv, TableInv, ReachableUntilComplete
<1> QED
  BY <1>1, KInvHolds, PTL

\* When run returns after a signal, every daemon whose session the shutdown
\* goroutine found has exited (app.wg).
THEOREM ExitIsClean == Spec => []ExitLeavesNoKnownDaemon
<1>1. KInv => ExitLeavesNoKnownDaemon
  BY DEF KInv, ExitInv, ExitLeavesNoKnownDaemon
<1> QED
  BY <1>1, KInvHolds, PTL
=============================================================================

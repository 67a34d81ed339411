----------------------------- MODULE MCDaemons ------------------------------
(***************************************************************************)
(* The daemons, in one instance for TLC: a behaviour is one of kl2tpd or   *)
(* one of kpppoed, and leaves the other alone.                             *)
(***************************************************************************)
EXTENDS Kl2tpd

VARIABLES part,
          rx, connOpen, main, kShutdown, toClose, kSigChan, requests, sessions, sid, open,
          pads, daemon, waiter, killer, scanner, closeLines, isUp, evtChan, early, crashed

OneOfEach == {"p1", "b1", "e1"}
TypeOf == [p1 |-> "ppp", b1 |-> "pppac", e1 |-> "eth"]

K == INSTANCE Kpppoed
       WITH MaxRequests <- 1, SIDs <- {1}, EvtCap <- 1, MaxLog <- 1,
            Services <- {"known"}, SpawnResults <- {"spawned"},
            shutdown <- kShutdown, sigChan <- kSigChan

kVars == <<rx, connOpen, main, kShutdown, toClose, kSigChan, requests, sessions, sid, open,
           pads, daemon, waiter, killer, scanner, closeLines, isUp, evtChan, early, crashed>>

DaemonsInit == part \in {"kl2tpd", "kpppoed"} /\ Init /\ K!Init

\* A behaviour of kpppoed begins once kl2tpd, whose setup fails, has exited.
DaemonsNext ==
  /\ UNCHANGED part
  /\ IF part = "kl2tpd" THEN Next ELSE IF phase = "setup" THEN SetupFails ELSE UNCHANGED vars
  /\ IF part = "kpppoed" /\ phase # "setup" THEN K!Next ELSE UNCHANGED kVars

\* A daemon that has exited, or a kpppoed at rest, has nothing to do that is
\* owed fairness.
DaemonsSpec == DaemonsInit /\ [][DaemonsNext]_<<part, vars, kVars>> /\ Fairness /\ K!Fairness
-----------------------------------------------------------------------------
(* The properties of kpppoed.                                              *)

\* A closed PPPoE session's kl2tpd exits and its session ID is free again,
\* whoever closed it (closePPPoESession, terminate, wait, the main loop).
ClosedSessionsEnd == K!ClosedSessionsEnd

\* Once kpppoed has taken a signal it exits, unless a PADR it was handling put
\* its session in the map after the shutdown goroutine had looked (run).
KpppoedShutdownCompletes == K!ShutdownCompletes
=============================================================================

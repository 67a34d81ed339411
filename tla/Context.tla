------------------------------ MODULE Context ------------------------------
(***************************************************************************)
(* The tunnels of an l2tp.Context: concurrent calls of NewDynamicTunnel,   *)
(* NewQuiescentTunnel and NewStaticTunnel (l2tp/l2tp.go), tunnels that     *)
(* fail on their own, Tunnel.Close by the application, and Context.Close.  *)
(* What happens inside a dynamic tunnel is in DynamicTunnel, inside the    *)
(* other two in StaticTunnel; here each is the resources it holds, its     *)
(* goroutine if it has one, and what it does to the context's registry.    *)
(* The application closes a tunnel at most once, and not while             *)
(* Context.Close runs.                                                     *)
(***************************************************************************)
EXTENDS Registry

CONSTANTS Calls,     \* calls of New...Tunnel, and the tunnels they make
          Kind,      \* [Calls -> {"dynamic", "quiescent", "static"}]
          Name,      \* [Calls -> Names]
          WantID,    \* the TunnelID configured, 0 to have one allocated
          IDs,       \* the ID space, a set of naturals with 0
          UserCloses,\* tunnels their creator may close
          Overlap,   \* whether New...Tunnel calls may overlap
          XportsFail \* whether the transport of a quiescent tunnel may fail

Names == {Name[c] : c \in Calls}

VARIABLES reg,       \* tunnelsByName and tunnelsByID
          pc,        \* progress of the New...Tunnel call
          tid,       \* myCfg.TunnelID
          held,      \* the tunnel holds sockets, goroutines or data plane
          goroutine, \* "none", "running" or "gone"
          closeChan, \* closed
          xport,     \* a quiescent tunnel's transport: "none", "up", "down", "closed"
          closing,   \* tunnels whose Close is in progress
          closed,    \* tunnels whose Close has returned
          ctx,       \* "open", "closing" or "closed"
          todo,      \* tunnels Context.Close has yet to close
          before,    \* history: tunnels returned before Context.Close
          panicked

vars == <<reg, pc, tid, held, goroutine, closeChan, xport, closing, closed, ctx, todo, before, panicked>>
ownVars == <<reg, pc, tid, held, goroutine, closeChan, xport, closing, closed>>

Init ==
  /\ reg = NewRegistry(Names, IDs)
  /\ pc = [c \in Calls |-> "idle"]
  /\ tid = [c \in Calls |-> 0]
  /\ held = {} /\ closing = {} /\ closed = {} /\ todo = {} /\ before = {}
  /\ goroutine = [c \in Calls |-> "none"]
  /\ closeChan = {}
  /\ xport = [c \in Calls |-> "none"]
  /\ ctx = "open" /\ panicked = FALSE

unlinkTunnel(c) == reg' = unlink(reg, Name[c], tid[c])

Live == ~panicked
ctxUnchanged == UNCHANGED <<ctx, todo, before>>
-----------------------------------------------------------------------------
(* New...Tunnel: the checks, the construction, the link.                   *)

CheckName(c) ==
  /\ Live /\ ctx = "open" /\ pc[c] = "idle"
  /\ Overlap \/ \A d \in Calls : pc[d] \in {"idle", "returned", "failed"}
  /\ pc' = [pc EXCEPT ![c] = IF findByName(reg, Name[c]) THEN "failed" ELSE "named"]
  /\ UNCHANGED <<reg, tid, held, goroutine, closeChan, xport, closing, closed, panicked>>
  /\ ctxUnchanged

\* The configured ID, if it is free.  Zero is refused for the kinds that do
\* not allocate.
CheckID(c) ==
  /\ Live /\ pc[c] = "named" /\ WantID[c] # 0
  /\ IF findByID(reg, WantID[c])
       THEN pc' = [pc EXCEPT ![c] = "failed"] /\ UNCHANGED tid
       ELSE pc' = [pc EXCEPT ![c] = "checked"] /\ tid' = [tid EXCEPT ![c] = WantID[c]]
  /\ UNCHANGED <<reg, held, goroutine, closeChan, xport, closing, closed, panicked>>
  /\ ctxUnchanged

allocTid(c) ==
  /\ Live /\ pc[c] = "named" /\ WantID[c] = 0 /\ Kind[c] = "dynamic"
  /\ \/ \E i \in allocatable(reg) :
          pc' = [pc EXCEPT ![c] = "checked"] /\ tid' = [tid EXCEPT ![c] = i]
     \/ pc' = [pc EXCEPT ![c] = "failed"] /\ UNCHANGED tid
  /\ UNCHANGED <<reg, held, goroutine, closeChan, xport, closing, closed, panicked>>
  /\ ctxUnchanged

\* newDynamicTunnel, newQuiescentTunnel or newStaticTunnel succeeds.
Build(c) ==
  /\ Live /\ pc[c] = "checked"
  /\ pc' = [pc EXCEPT ![c] = "built"]
  /\ held' = held \cup {c}
  /\ goroutine' = [goroutine EXCEPT ![c] = IF Kind[c] = "static" THEN "none" ELSE "running"]
  /\ xport' = [xport EXCEPT ![c] = IF Kind[c] = "quiescent" THEN "up" ELSE "none"]
  /\ UNCHANGED <<reg, tid, closeChan, closing, closed, panicked>>
  /\ ctxUnchanged

\* ... or fails.  Without an address, or the right version, the call returns at
\* once; without a socket or a data plane the tunnel first runs its own
\* Close(), which unlinks a tunnel that was never linked.
BuildFails(c) ==
  /\ Live /\ pc[c] = "checked"
  /\ pc' = [pc EXCEPT ![c] = "failed"]
  /\ UNCHANGED reg \/ unlinkTunnel(c)
  /\ UNCHANGED <<tid, held, goroutine, closeChan, xport, closing, closed, panicked>>
  /\ ctxUnchanged

\* Mutant: the link is forgotten.
linkTunnelForgotten(c) ==
  /\ Live /\ pc[c] = "built"
  /\ pc' = [pc EXCEPT ![c] = "returned"]
  /\ UNCHANGED <<reg, tid, held, goroutine, closeChan, xport, closing, closed, panicked>>
  /\ ctxUnchanged

linkTunnel(c) ==
  /\ Live /\ pc[c] = "built"
  /\ pc' = [pc EXCEPT ![c] = "returned"]
  /\ reg' = link(reg, c, Name[c], tid[c])
  /\ UNCHANGED <<tid, held, goroutine, closeChan, xport, closing, closed, panicked>>
  /\ ctxUnchanged
-----------------------------------------------------------------------------
(* The tunnels' own goroutines.                                            *)

\* A dynamic tunnel ends: its peer or its transport gave up, or closeChan is
\* closed.  fsmActClose releases everything and unlinks.
DynamicEnds(c) ==
  /\ Live /\ Kind[c] = "dynamic" /\ goroutine[c] = "running"
  /\ goroutine' = [goroutine EXCEPT ![c] = "gone"]
  /\ held' = held \ {c}
  /\ unlinkTunnel(c)
  /\ UNCHANGED <<pc, tid, closeChan, xport, closing, closed, panicked>>
  /\ ctxUnchanged

\* Mutant: xportReader does not watch closeChan.
ReaderReturnsOnFailureOnly(c) ==
  /\ Live /\ Kind[c] = "quiescent" /\ goroutine[c] = "running" /\ xport[c] = "down"
  /\ goroutine' = [goroutine EXCEPT ![c] = "gone"]
  /\ UNCHANGED <<reg, pc, tid, held, closeChan, xport, closing, closed, panicked>>
  /\ ctxUnchanged

\* xportReader of a quiescent tunnel: on a closed closeChan it returns ...
ReaderReturns(c) ==
  /\ Live /\ Kind[c] = "quiescent" /\ goroutine[c] = "running" /\ c \in closeChan
  /\ goroutine' = [goroutine EXCEPT ![c] = "gone"]
  /\ UNCHANGED <<reg, pc, tid, held, closeChan, xport, closing, closed, panicked>>
  /\ ctxUnchanged

\* ... and when the transport fails it runs qt.close() itself.
ReaderCloses(c) ==
  /\ Live /\ Kind[c] = "quiescent" /\ goroutine[c] = "running" /\ xport[c] = "down"
  /\ goroutine' = [goroutine EXCEPT ![c] = "gone"]
  /\ xport' = [xport EXCEPT ![c] = "closed"]
  /\ held' = held \ {c}
  /\ unlinkTunnel(c)
  /\ UNCHANGED <<pc, tid, closeChan, closing, closed, panicked>>
  /\ ctxUnchanged

XportFails(c) ==
  /\ Live /\ XportsFail /\ xport[c] = "up"
  /\ xport' = [xport EXCEPT ![c] = "down"]
  /\ UNCHANGED <<reg, pc, tid, held, goroutine, closeChan, closing, closed, panicked>>
  /\ ctxUnchanged
-----------------------------------------------------------------------------
(* Tunnel.Close and Context.Close.                                         *)

\* Mutant: dynamicTunnel.Close leaves the registry to its goroutine.
StartCloseNoUnlink(c) ==
  /\ closing' = closing \cup {c}
  /\ closeChan' = IF Kind[c] = "static" THEN closeChan ELSE closeChan \cup {c}
  /\ panicked' = (Kind[c] # "static" /\ c \in closeChan)
  /\ UNCHANGED <<reg, pc, tid, held, goroutine, xport, closed>>

\* The first half of each Close: a dynamic tunnel unlinks itself at once, and
\* dynamic and quiescent ones close closeChan, which panics when done twice.
StartClose(c) ==
  /\ closing' = closing \cup {c}
  /\ closeChan' = IF Kind[c] = "static" THEN closeChan ELSE closeChan \cup {c}
  /\ panicked' = (Kind[c] # "static" /\ c \in closeChan)
  /\ IF Kind[c] = "dynamic" THEN unlinkTunnel(c) ELSE UNCHANGED reg
  /\ UNCHANGED <<pc, tid, held, goroutine, xport, closed>>

\* The second half: wait for the goroutine, and then release what it has not.
\* qt.close() closes the transport, which panics when the reader has done so.
EndClose(c) ==
  /\ Live /\ c \in closing /\ goroutine[c] # "running"
  /\ closing' = closing \ {c}
  /\ closed' = closed \cup {c}
  /\ held' = held \ {c}
  /\ panicked' = (xport[c] = "closed")
  /\ xport' = [xport EXCEPT ![c] = IF @ = "none" THEN @ ELSE "closed"]
  /\ IF Kind[c] = "dynamic" THEN UNCHANGED reg ELSE unlinkTunnel(c)
  /\ UNCHANGED <<pc, tid, goroutine, closeChan>>
  /\ ctxUnchanged

UserClose(c) ==
  /\ Live /\ ctx = "open" /\ c \in UserCloses
  /\ pc[c] = "returned" /\ c \notin closing \cup closed
  /\ StartClose(c)
  /\ ctxUnchanged

\* Context.Close takes the registry's tunnels under its lock ...
ContextClose ==
  /\ Live /\ ctx = "open" /\ closing = {}
  /\ ctx' = "closing"
  /\ todo' = Linked(reg)
  /\ reg' = takeAll(reg, tid)
  /\ before' = {c \in Calls : pc[c] = "returned"}
  /\ UNCHANGED <<pc, tid, held, goroutine, closeChan, xport, closing, closed, panicked>>

\* ... and closes them one after the other.
ContextCloseTunnel(c) ==
  /\ Live /\ ctx = "closing" /\ closing = {} /\ c \in todo
  /\ todo' = todo \ {c}
  /\ StartClose(c)
  /\ UNCHANGED <<ctx, before>>

ContextClosed ==
  /\ Live /\ ctx = "closing" /\ closing = {} /\ todo = {}
  /\ ctx' = "closed"
  /\ UNCHANGED <<ownVars, todo, before, panicked>>
-----------------------------------------------------------------------------
New(c) == CheckName(c) \/ CheckID(c) \/ allocTid(c) \/ Build(c) \/ BuildFails(c) \/ linkTunnel(c)

Next ==
  \/ \E c \in Calls : \/ New(c) \/ DynamicEnds(c) \/ ReaderReturns(c) \/ ReaderCloses(c)
                      \/ XportFails(c) \/ UserClose(c) \/ EndClose(c) \/ ContextCloseTunnel(c)
  \/ ContextClose \/ ContextClosed

Spec == Init /\ [][Next]_vars

\* The goroutines and the closing calls run.
Fairness == /\ \A c \in Calls : /\ WF_vars(c \in closeChan /\ DynamicEnds(c))
                                /\ WF_vars(ReaderReturns(c) \/ ReaderCloses(c))
                                /\ WF_vars(EndClose(c))
                                /\ WF_vars(ContextCloseTunnel(c))
            /\ WF_vars(ContextClosed)

FairSpec == Spec /\ Fairness
-----------------------------------------------------------------------------
TypeOK ==
  /\ reg.byName \in [Names -> Calls \cup {Nobody}] /\ reg.byID \in [IDs -> Calls \cup {Nobody}]
  /\ pc \in [Calls -> {"idle", "named", "checked", "built", "returned", "failed"}]
  /\ tid \in [Calls -> IDs]
  /\ held \cup closeChan \cup closing \cup closed \cup todo \cup before \subseteq Calls
  /\ goroutine \in [Calls -> {"none", "running", "gone"}]
  /\ xport \in [Calls -> {"none", "up", "down", "closed"}]
  /\ ctx \in {"open", "closing", "closed"} /\ panicked \in BOOLEAN

\* Context.Close tears down every tunnel that had been returned before it
\* was called.
ContextClosesAll == ctx = "closed" => before \cap held = {}

\* The registry follows the tunnels.  One that runs is in it under its name:
\* unlinkTunnel, run twice for another or for one never linked, has not removed
\* it.  One whose Close() has returned is not in it, even if its goroutine had
\* ended, and unlinked it, before New...Tunnel linked it.
RegistryFollowsTunnels ==
  /\ ctx = "open" =>
       \A c \in held : pc[c] = "returned" /\ c \notin closing => reg.byName[Name[c]] = c
  /\ \A c \in closed : c \notin Linked(reg)

\* Two tunnels that run do not have the same ID.
UniqueTids ==
  ctx = "open" => \A c, d \in held \ closing :
    pc[c] = "returned" /\ pc[d] = "returned" /\ tid[c] = tid[d] => c = d

\* The tunnel IDs in use are in the range the protocol allows: never 0.
TidInRange == \A c \in Calls : pc[c] = "returned" => tid[c] # 0

\* No tunnel's closeChan is closed twice, by the application and Context.Close
\* or by either and the tunnel's own end: the only step that panics is the end
\* of the Close of a quiescent tunnel, whose transport its reader had closed.
OnlyQuiescentPanics ==
  [][panicked' /\ ~panicked => \E c \in closing \ closing' : Kind[c] = "quiescent"]_vars

\* No channel is closed twice.
NeverPanics == ~panicked

\* Context.Close returns, unless the process has panicked.
ContextCloseReturns == ctx = "closing" ~> ctx = "closed" \/ panicked
=============================================================================

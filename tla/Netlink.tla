------------------------------ MODULE Netlink -------------------------------
(***************************************************************************)
(* The netlink connection all tunnels and sessions of a context share      *)
(* (internal/nll2tp/nll2tp.go).  A command is executed by the goroutine    *)
(* runConn: execute sends it the request on reqChan and receives the       *)
(* response on rspChan.  Both channels are unbuffered and shared, and      *)
(* neither a request nor a response says whose it is; the tag of a request *)
(* here is for stating that.                                               *)
(***************************************************************************)
EXTENDS Naturals

CONSTANTS Callers,   \* goroutines that call CreateManagedTunnel and the like
          MaxCalls   \* bound on the calls each makes

VARIABLES pc,        \* of each caller: "idle", "sending" or "waiting"
          calls,     \* calls each has begun; <<c, calls[c]>> tags its request
          answer,    \* tag of the request whose response it was last given
          conn,      \* runConn: "ready", "executing", "responding" or "returned"
          current,   \* tag of the request runConn has
          closing,   \* Close: "no", "waiting" for runConn, or "done"
          panicked   \* a caller was sending on reqChan when Close closed it

vars == <<pc, calls, answer, conn, current, closing, panicked>>

None == <<>>
Tag(c) == <<c, calls[c]>>

Init ==
  /\ pc = [c \in Callers |-> "idle"]
  /\ calls = [c \in Callers |-> 0]
  /\ answer = [c \in Callers |-> None]
  /\ conn = "ready" /\ current = None
  /\ closing = "no" /\ panicked = FALSE

\* A command builds its message and calls execute.  The application makes no
\* call once it has called Close.
Execute(c) ==
  /\ ~panicked /\ closing = "no"
  /\ pc[c] = "idle" /\ calls[c] < MaxCalls
  /\ pc' = [pc EXCEPT ![c] = "sending"]
  /\ calls' = [calls EXCEPT ![c] = @ + 1]
  /\ UNCHANGED <<answer, conn, current, closing, panicked>>

\* Mutant: a request is taken while the response to another is still to be
\* delivered, as a buffered channel would allow.
SendRequestEarly(c) ==
  /\ ~panicked /\ closing = "no"
  /\ pc[c] = "sending" /\ conn \in {"ready", "responding"}
  /\ pc' = [pc EXCEPT ![c] = "waiting"]
  /\ conn' = "executing"
  /\ current' = Tag(c)
  /\ UNCHANGED <<calls, answer, closing, panicked>>

\* reqChan: the caller and runConn meet.
SendRequest(c) ==
  /\ ~panicked /\ closing = "no"
  /\ pc[c] = "sending" /\ conn = "ready"
  /\ pc' = [pc EXCEPT ![c] = "waiting"]
  /\ conn' = "executing"
  /\ current' = Tag(c)
  /\ UNCHANGED <<calls, answer, closing, panicked>>

\* genetlink's Execute has returned, with messages or an error.
KernelAnswers ==
  /\ ~panicked /\ conn = "executing"
  /\ conn' = "responding"
  /\ UNCHANGED <<pc, calls, answer, current, closing, panicked>>

\* Mutant: once Close has been called nobody is answered.
TakeResponseIfOpen(c) ==
  /\ ~panicked /\ closing = "no"
  /\ pc[c] = "waiting" /\ conn = "responding"
  /\ pc' = [pc EXCEPT ![c] = "idle"]
  /\ answer' = [answer EXCEPT ![c] = current]
  /\ conn' = "ready"
  /\ UNCHANGED <<calls, current, closing, panicked>>

\* rspChan: whichever caller is waiting takes the response.
TakeResponse(c) ==
  /\ ~panicked
  /\ pc[c] = "waiting" /\ conn = "responding"
  /\ pc' = [pc EXCEPT ![c] = "idle"]
  /\ answer' = [answer EXCEPT ![c] = current]
  /\ conn' = "ready"
  /\ UNCHANGED <<calls, current, closing, panicked>>

\* Close closes reqChan, and waits for runConn.
Close ==
  /\ ~panicked /\ closing = "no"
  /\ closing' = "waiting"
  /\ panicked' = \E c \in Callers : pc[c] = "sending"
  /\ UNCHANGED <<pc, calls, answer, conn, current>>

runConnReturns ==
  /\ ~panicked /\ closing = "waiting" /\ conn = "ready"
  /\ conn' = "returned"
  /\ UNCHANGED <<pc, calls, answer, current, closing, panicked>>

CloseReturns ==
  /\ ~panicked /\ closing = "waiting" /\ conn = "returned"
  /\ closing' = "done"
  /\ UNCHANGED <<pc, calls, answer, conn, current, panicked>>

Next ==
  \/ KernelAnswers \/ Close \/ runConnReturns \/ CloseReturns
  \/ \E c \in Callers : Execute(c) \/ SendRequest(c) \/ TakeResponse(c)

Spec == Init /\ [][Next]_vars

\* The kernel answers every request, goroutines that can run do, and a channel
\* serves its blocked senders in order, so none is passed over for ever.
Fairness ==
  /\ WF_vars(KernelAnswers) /\ WF_vars(runConnReturns) /\ WF_vars(CloseReturns)
  /\ \A c \in Callers : SF_vars(SendRequest(c)) /\ WF_vars(TakeResponse(c))

FairSpec == Spec /\ Fairness
-----------------------------------------------------------------------------
TypeOK ==
  /\ pc \in [Callers -> {"idle", "sending", "waiting"}]
  /\ calls \in [Callers -> Nat]
  /\ answer \in [Callers -> (Callers \X Nat) \cup {None}]
  /\ current \in (Callers \X Nat) \cup {None}
  /\ conn \in {"ready", "executing", "responding", "returned"}
  /\ closing \in {"no", "waiting", "done"} /\ panicked \in BOOLEAN

\* A caller is given the response to its own request, though responses carry
\* nothing to tell them apart: one tunnel never takes the outcome of another's
\* CreateManagedTunnel for its own.
AnswersOwnRequest == \A c \in Callers : pc[c] = "idle" /\ calls[c] > 0 => answer[c] = Tag(c)

\* Why: while runConn has a request exactly the caller it came from waits.
OneWaits ==
  /\ conn \in {"executing", "responding"} =>
       \E c \in Callers : pc[c] = "waiting" /\ current = Tag(c)
  /\ \A c, d \in Callers : pc[c] = "waiting" /\ pc[d] = "waiting" => c = d
  /\ \A c \in Callers : pc[c] = "waiting" => conn \in {"executing", "responding"}

\* Every command returns, and so does Close, even when Close comes while a
\* command is being executed.
CallsReturn ==
  /\ \A c \in Callers : pc[c] # "idle" ~> pc[c] = "idle" \/ panicked
  /\ closing = "waiting" ~> closing = "done" \/ panicked
=============================================================================

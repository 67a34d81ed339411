--------------------------- MODULE EventHandlers ----------------------------
(***************************************************************************)
(* The event handlers of a context (l2tp/l2tp.go): RegisterEventHandler,   *)
(* UnregisterEventHandler and handleUserEvent, which every tunnel and      *)
(* session goroutine calls.  A handler is called with evtLock held for     *)
(* reading, so a writer waits for the calls under way.                     *)
(***************************************************************************)
EXTENDS Naturals, Sequences

CONSTANTS Handlers, \* one registration each, at most once
          Emitters, \* goroutines that report events
          MaxEvents \* bound on the events each reports

VARIABLES eventHandlers, \* ctx.eventHandlers
          status,        \* of each handler: "new", "registered", "unregistered"
          rest,          \* handlers a running handleUserEvent has yet to call
          called,        \* handlers it has called
          events         \* events reported so far

vars == <<eventHandlers, status, rest, called, events>>

Registered == {h \in Handlers : status[h] = "registered"}

Init ==
  /\ eventHandlers = <<>>
  /\ status = [h \in Handlers |-> "new"]
  /\ rest = [e \in Emitters |-> <<>>]
  /\ called = [e \in Emitters |-> {}]
  /\ events = [e \in Emitters |-> 0]

\* evtLock is free for a writer.
WriteLock == \A e \in Emitters : rest[e] = <<>>

RegisterEventHandler(h) ==
  /\ WriteLock /\ status[h] = "new"
  /\ eventHandlers' = Append(eventHandlers, h)
  /\ status' = [status EXCEPT ![h] = "registered"]
  /\ UNCHANGED <<rest, called, events>>

\* Mutant: the handlers after the removed one go with it.
WithoutHandlerTruncated(hs, i) == SubSeq(hs, 1, i - 1)

\* append(hs[:], hs[i+1:]...): the whole slice, then what follows entry i.
WithoutHandler(hs, i) == hs \o SubSeq(hs, i + 1, Len(hs))

\* The loop stops at the first entry that is h.
FirstEntry(h) == {i \in DOMAIN eventHandlers : /\ eventHandlers[i] = h
                                              /\ \A j \in 1 .. i - 1 : eventHandlers[j] # h}

UnregisterEventHandler(h) ==
  /\ WriteLock /\ status[h] = "registered"
  /\ eventHandlers' = IF FirstEntry(h) = {} THEN eventHandlers
                      ELSE WithoutHandler(eventHandlers, CHOOSE i \in FirstEntry(h) : TRUE)
  /\ status' = [status EXCEPT ![h] = "unregistered"]
  /\ UNCHANGED <<rest, called, events>>

\* handleUserEvent takes the lock and calls the handlers in turn.
handleUserEvent(e) ==
  /\ rest[e] = <<>> /\ events[e] < MaxEvents
  /\ events' = [events EXCEPT ![e] = @ + 1]
  /\ called' = [called EXCEPT ![e] = {}]
  /\ rest' = [rest EXCEPT ![e] = eventHandlers]
  /\ UNCHANGED <<eventHandlers, status>>

HandleEvent(e) ==
  /\ rest[e] # <<>>
  /\ called' = [called EXCEPT ![e] = @ \cup {Head(rest[e])}]
  /\ rest' = [rest EXCEPT ![e] = Tail(@)]
  /\ UNCHANGED <<eventHandlers, status, events>>

Next ==
  \/ \E h \in Handlers : RegisterEventHandler(h) \/ UnregisterEventHandler(h)
  \/ \E e \in Emitters : handleUserEvent(e) \/ HandleEvent(e)

Spec == Init /\ [][Next]_vars
-----------------------------------------------------------------------------
\* Every registered handler has been called, or is about to be, by every
\* handleUserEvent under way: removing one handler loses no other.
RegisteredAreCalled ==
  \A e \in Emitters : rest[e] # <<>> =>
    \A h \in Registered : h \in called[e] \/ \E i \in DOMAIN rest[e] : rest[e][i] = h

\* On return from UnregisterEventHandler the handler is not called again.
UnregisteredNotCalled ==
  \A e \in Emitters : rest[e] # <<>> => status[Head(rest[e])] # "unregistered"
=============================================================================

--------------------------- MODULE LibraryProofs ----------------------------
(***************************************************************************)
(* Proofs about the components of Library, for any number of callers,      *)
(* tunnels, sessions and handlers.                                         *)
(***************************************************************************)
EXTENDS Library, Sequences, TLAPS

-----------------------------------------------------------------------------
(* The netlink connection: any number of callers, making any number of     *)
(* calls, are each given the response to their own request.                *)

NetlinkInv == TypeOK /\ OneWaits /\ AnswersOwnRequest

(* Initially nobody has called.                                            *)
LEMMA NetlinkInit == Init => NetlinkInv
<1> SUFFICES ASSUME Init PROVE NetlinkInv
  BY Zenon
<1>1. TypeOK
  BY Zenon DEF Init, TypeOK
<1>2. OneWaits
  BY Zenon DEF Init, OneWaits
<1>3. AnswersOwnRequest
  BY DEF Init, AnswersOwnRequest
<1> QED
  BY <1>1, <1>2, <1>3, Zenon DEF NetlinkInv

(* Each step keeps the invariant: a request is taken only when nobody waits,*)
(* and the response goes to the one caller that does.                      *)
LEMMA NetlinkStep == NetlinkInv /\ [Next]_vars => NetlinkInv'
<1> SUFFICES ASSUME NetlinkInv, [Next]_vars PROVE NetlinkInv'
  BY Zenon
<1> USE DEF NetlinkInv, TypeOK, OneWaits, AnswersOwnRequest, Tag
<1>1. CASE UNCHANGED vars
  BY <1>1, Zenon DEF vars
<1>2. CASE KernelAnswers
  BY <1>2, Zenon DEF KernelAnswers
<1>3. CASE Close
  BY <1>3, Zenon DEF Close
<1>4. CASE runConnReturns
  BY <1>4, Zenon DEF runConnReturns
<1>5. CASE CloseReturns
  BY <1>5, Zenon DEF CloseReturns
<1>6. ASSUME NEW c \in Callers, Execute(c) PROVE NetlinkInv'
  BY <1>6 DEF Execute
<1>7. ASSUME NEW c \in Callers, SendRequest(c) PROVE NetlinkInv'
  BY <1>7, Zenon DEF SendRequest
<1>8. ASSUME NEW c \in Callers, TakeResponse(c) PROVE NetlinkInv'
  BY <1>8, Zenon DEF TakeResponse
<1> QED
  BY <1>1, <1>2, <1>3, <1>4, <1>5, <1>6, <1>7, <1>8, Zenon DEF Next

(* execute gives every caller the response to its own request, for any set *)
(* of callers: rspChan needs no tags because runConn serves one request at *)
(* a time.                                                                 *)
THEOREM ResponsesMatch == Spec => []AnswersOwnRequest
<1>1. NetlinkInv => AnswersOwnRequest
  BY Zenon DEF NetlinkInv
<1> QED
  BY <1>1, NetlinkInit, NetlinkStep, PTL DEF Spec

(* While runConn has a request exactly the caller that sent it waits.      *)
THEOREM ExactlyOneWaits == Spec => []OneWaits
<1>1. NetlinkInv => OneWaits
  BY Zenon DEF NetlinkInv
<1> QED
  BY <1>1, NetlinkInit, NetlinkStep, PTL DEF Spec

-----------------------------------------------------------------------------
(* The event handlers.                                                     *)

(* A registered handler is in the slice, and so is called by whoever walks *)
(* the slice.                                                              *)
HandlersInv ==
    /\ eventHandlers \in Seq(Handlers)
    /\ status \in [Handlers -> {"new", "registered", "unregistered"}]
    /\ rest \in [Emitters -> Seq(Handlers)] /\ called \in [Emitters -> SUBSET Handlers]
    /\ \A h \in H!Registered : \E i \in DOMAIN eventHandlers : eventHandlers[i] = h
    /\ RegisteredAreCalled

(* WithoutHandler keeps every entry of the slice.                          *)
LEMMA KeepsEntries ==
    ASSUME NEW q \in Seq(Handlers), NEW i \in DOMAIN q
    PROVE  /\ H!WithoutHandler(q, i) \in Seq(Handlers)
           /\ \A k \in DOMAIN q : /\ k \in DOMAIN H!WithoutHandler(q, i)
                                  /\ H!WithoutHandler(q, i)[k] = q[k]
<1> DEFINE t == SubSeq(q, i + 1, Len(q))
<1>1. t \in Seq(Handlers)
  OBVIOUS
<1> HIDE DEF t
<1>2. /\ q \o t \in Seq(Handlers)
      /\ \A k \in DOMAIN q : k \in DOMAIN (q \o t) /\ (q \o t)[k] = q[k]
  BY <1>1
<1> QED
  BY <1>2, Zenon DEF H!WithoutHandler, t

(* While no handleUserEvent is under way the claim is empty; the writers   *)
(* wait for that.                                                          *)
LEMMA WriterKeeps ==
    ASSUME HandlersInv, H!WriteLock, UNCHANGED <<rest, called>>
    PROVE  RegisteredAreCalled'
  BY Zenon DEF HandlersInv, H!WriteLock, RegisteredAreCalled, H!RegisteredAreCalled

(* Each step keeps the invariant.                                          *)
LEMMA HandlersStep == HandlersInv /\ [H!Next]_(H!vars) => HandlersInv'
<1> SUFFICES ASSUME HandlersInv, [H!Next]_(H!vars) PROVE HandlersInv'
  BY Zenon
<1>1. CASE UNCHANGED H!vars
  BY <1>1, ZenonT(60) DEF H!vars, HandlersInv, H!Registered, RegisteredAreCalled, H!RegisteredAreCalled
<1>2. ASSUME NEW h \in Handlers, H!RegisterEventHandler(h) PROVE HandlersInv'
  <2>1. /\ eventHandlers' = Append(eventHandlers, h)
        /\ status' = [status EXCEPT ![h] = "registered"]
        /\ UNCHANGED <<rest, called>> /\ H!WriteLock
    BY <1>2, Zenon DEF H!RegisterEventHandler
  <2>2. RegisteredAreCalled'
    BY <2>1, WriterKeeps, Zenon
  <2>3. /\ Append(eventHandlers, h)[Len(eventHandlers) + 1] = h
        /\ Len(eventHandlers) + 1 \in DOMAIN Append(eventHandlers, h)
        /\ \A i \in DOMAIN eventHandlers : /\ i \in DOMAIN Append(eventHandlers, h)
                                           /\ Append(eventHandlers, h)[i] = eventHandlers[i]
    BY DEF HandlersInv
  <2>4. \A g \in H!Registered' : g = h \/ g \in H!Registered
    BY <2>1, Zenon DEF H!Registered, HandlersInv
  <2>5. \A g \in H!Registered' : \E i \in DOMAIN eventHandlers' : eventHandlers'[i] = g
    BY <2>1, <2>3, <2>4, Zenon DEF HandlersInv
  <2> QED
    BY <2>1, <2>2, <2>5 DEF HandlersInv
<1>3. ASSUME NEW h \in Handlers, H!UnregisterEventHandler(h) PROVE HandlersInv'
  <2>1. /\ eventHandlers' = IF H!FirstEntry(h) = {} THEN eventHandlers
                            ELSE H!WithoutHandler(eventHandlers, CHOOSE i \in H!FirstEntry(h) : TRUE)
        /\ status' = [status EXCEPT ![h] = "unregistered"]
        /\ UNCHANGED <<rest, called>> /\ H!WriteLock
    BY <1>3, Zenon DEF H!UnregisterEventHandler
  <2>2. RegisteredAreCalled'
    BY <2>1, WriterKeeps, Zenon
  <2>3. eventHandlers' = eventHandlers \/ \E i \in DOMAIN eventHandlers :
                                            eventHandlers' = H!WithoutHandler(eventHandlers, i)
    BY <2>1, Zenon DEF H!FirstEntry
  <2>4. /\ eventHandlers' \in Seq(Handlers)
        /\ \A k \in DOMAIN eventHandlers : /\ k \in DOMAIN eventHandlers'
                                           /\ eventHandlers'[k] = eventHandlers[k]
    <3>1. CASE eventHandlers' = eventHandlers
      BY <3>1, Zenon DEF HandlersInv
    <3>2. CASE eventHandlers' # eventHandlers
      <4>1. PICK i \in DOMAIN eventHandlers : eventHandlers' = H!WithoutHandler(eventHandlers, i)
        BY <2>3, <3>2, Zenon
      <4>2. PICK q \in Seq(Handlers) : q = eventHandlers
        BY Zenon DEF HandlersInv
      <4> QED
        BY <4>1, <4>2, KeepsEntries, SMTT(60)
    <3> QED
      BY <3>1, <3>2, Zenon
  <2>5. \A g \in H!Registered' : g \in H!Registered
    BY <2>1, Zenon DEF H!Registered, HandlersInv
  <2>6. \A g \in H!Registered' : \E k \in DOMAIN eventHandlers' : eventHandlers'[k] = g
    BY <2>4, <2>5, Zenon DEF HandlersInv
  <2> QED
    BY <2>1, <2>2, <2>4, <2>6, Zenon DEF HandlersInv
<1>4. ASSUME NEW e \in Emitters, H!handleUserEvent(e) PROVE HandlersInv'
  <2>1. /\ called' = [called EXCEPT ![e] = {}] /\ rest' = [rest EXCEPT ![e] = eventHandlers]
        /\ UNCHANGED <<eventHandlers, status>>
    BY <1>4, Zenon DEF H!handleUserEvent
  <2>2. RegisteredAreCalled'
    BY <2>1 DEF HandlersInv, RegisteredAreCalled, H!RegisteredAreCalled, H!Registered
  <2> QED
    BY <2>1, <2>2, Zenon DEF HandlersInv, H!Registered
<1>5. ASSUME NEW e \in Emitters, H!HandleEvent(e) PROVE HandlersInv'
  <2>1. /\ rest[e] # <<>> /\ called' = [called EXCEPT ![e] = @ \cup {Head(rest[e])}]
        /\ rest' = [rest EXCEPT ![e] = Tail(@)] /\ UNCHANGED <<eventHandlers, status>>
    BY <1>5, Zenon DEF H!HandleEvent
  <2>2. rest[e] \in Seq(Handlers)
    BY Zenon DEF HandlersInv
  <2>3. ASSUME NEW i \in DOMAIN rest[e]
        PROVE  rest[e][i] = Head(rest[e]) \/ \E k \in DOMAIN Tail(rest[e]) : Tail(rest[e])[k] = rest[e][i]
    <3>1. CASE i = 1
      BY <2>1, <2>2, <3>1
    <3>2. CASE i # 1
      <4>1. i - 1 \in DOMAIN Tail(rest[e]) /\ Tail(rest[e])[i - 1] = rest[e][i]
        BY <2>1, <2>2, <3>2
      <4> QED
        BY <4>1, Zenon
    <3> QED
      BY <3>1, <3>2, Zenon
  <2>4. RegisteredAreCalled'
    BY <2>1, <2>3 DEF HandlersInv, RegisteredAreCalled, H!RegisteredAreCalled, H!Registered
  <2>5. Head(rest[e]) \in Handlers /\ Tail(rest[e]) \in Seq(Handlers)
    BY <2>1, <2>2
  <2> QED
    BY <2>1, <2>4, <2>5, Zenon DEF HandlersInv, H!Registered
<1> QED
  BY <1>1, <1>2, <1>3, <1>4, <1>5, Zenon DEF H!Next

(* handleUserEvent calls every registered handler, for any number of them  *)
(* and of goroutines that report events: UnregisterEventHandler, which     *)
(* keeps the entry it is to remove, never loses another.                   *)
THEOREM HandlersAllCalled == H!Spec => []RegisteredAreCalled
<1>1. H!Init => HandlersInv
  BY DEF H!Init, HandlersInv, H!Registered, RegisteredAreCalled, H!RegisteredAreCalled
<1>2. HandlersInv => RegisteredAreCalled
  BY Zenon DEF HandlersInv
<1> QED
  BY <1>1, <1>2, HandlersStep, PTL DEF H!Spec

-----------------------------------------------------------------------------
(* The sessions of a static or quiescent tunnel.                           *)

(* The entry of a session's name.                                          *)
At(s) == sReg.byName[SessionName[s]]

(* The reader does not close the tunnel: it has none, or does not fail.    *)
Steady == kind = "static" \/ ~ReaderFails

SessionTypes ==
    /\ sReg.byName \in [S!Names -> Sessions \cup {S!Nobody}]
    /\ sPc \in [Sessions -> {"idle", "checked", "failed", "up", "returned", "closed"}]
    /\ dp \in [Sessions -> {"none", "up", "down"}]
    /\ sTodo \in SUBSET Sessions /\ (sTodo # {} => tpc = "closing")
    /\ kind \in {"static", "quiescent"} /\ tpc \in {"open", "closing", "closed"}
    /\ open \in BOOLEAN /\ released \in BOOLEAN

(* Entries are sessions that have been returned, each under its own name;  *)
(* and before there is a tunnel nobody has called.                         *)
EntriesInv ==
    /\ \A n \in S!Names : sReg.byName[n] # S!Nobody =>
         SessionName[sReg.byName[n]] = n /\ sPc[sReg.byName[n]] = "returned"
    /\ ~open => /\ kind = "static" /\ tpc = "closed" /\ ~released
                /\ \A s \in Sessions : sPc[s] = "idle" /\ At(s) = S!Nobody

(* At most one NewSession runs, and its name is still free.                *)
CallInv ==
    /\ \A s \in Sessions : sPc[s] \in {"checked", "up"} => At(s) = S!Nobody
    /\ \A s, t \in Sessions :
         sPc[s] \in {"checked", "up"} /\ sPc[t] \in {"checked", "up"} => s = t

(* Of a tunnel that only the application closes: while it is open all the  *)
(* sessions returned are linked, and from then on none is.                 *)
SteadyInv ==
    Steady => /\ tpc = "open" => \A s \in Sessions : sPc[s] = "returned" => At(s) = s
              /\ tpc # "open" => \A s \in Sessions : At(s) = S!Nobody /\ sPc[s] \notin {"checked", "up"}
              /\ open /\ tpc # "open" => released
              /\ \A s \in sTodo : sPc[s] = "returned"
              /\ open /\ tpc # "closed" => tunnelDp = "up"

(* Where a session in the data plane is.                                   *)
KeptInv ==
    \A s \in Sessions :
      /\ dp[s] = "up" => sPc[s] = "up" \/ At(s) = s \/ s \in sTodo
      /\ sPc[s] \in {"idle", "checked", "failed"} => dp[s] # "up"

EventTypes == sessionEv \in [Sessions -> Seq({"up", "down"})]

(* Which events have been reported of a session, from where it is.         *)
EventsInv ==
    Steady => \A s \in Sessions :
      /\ sPc[s] \in {"idle", "checked", "failed"} => sessionEv[s] = <<>>
      /\ sPc[s] = "up" => sessionEv[s] = <<"up">>
      /\ sPc[s] = "returned" =>
           sessionEv[s] = IF At(s) = s \/ s \in sTodo THEN <<"up">> ELSE <<"up", "down">>
      /\ sPc[s] = "closed" => sessionEv[s] = <<"up", "down">>

(* No two sessions have one name, or the reader does not fail.             *)
NamesApart ==
    ReaderFails => \A s, t \in Sessions : SessionName[s] = SessionName[t] => s = t

SessionsInv == SessionTypes /\ EntriesInv /\ CallInv /\ SteadyInv /\ EventTypes /\ EventsInv

(* Sequences of one length with the same entries are equal.                *)
LEMMA SameEntries ==
    ASSUME NEW T, NEW q \in Seq(T), NEW r \in Seq(T), Len(q) = Len(r), \A i \in 1 .. Len(q) : q[i] = r[i]
    PROVE  q = r
  OBVIOUS

(* The events of a session are these two.                                  *)
LEMMA UpThenDown == Append(<<"up">>, "down") = <<"up", "down">>
<1> DEFINE Kinds == {"up", "down"}
<1>1. <<"up">> \in Seq(Kinds) /\ <<"up", "down">> \in Seq(Kinds) /\ "down" \in Kinds
  OBVIOUS
<1>2. /\ Append(<<"up">>, "down") \in Seq(Kinds) /\ Len(Append(<<"up">>, "down")) = 2
      /\ Append(<<"up">>, "down")[1] = "up" /\ Append(<<"up">>, "down")[2] = "down"
  BY <1>1
<1>3. Len(<<"up", "down">>) = 2 /\ <<"up", "down">>[1] = "up" /\ <<"up", "down">>[2] = "down"
  BY Zenon
<1>4. \A i \in 1 .. 2 : Append(<<"up">>, "down")[i] = <<"up", "down">>[i]
  BY <1>2, <1>3
<1> HIDE DEF Kinds
<1> QED
  BY <1>1, <1>2, <1>3, <1>4, SameEntries, Zenon

(* Each step keeps the invariant.                                          *)
LEMMA SessionsStep == SessionsInv /\ [S!Next]_(S!vars) => SessionsInv'
<1> SUFFICES ASSUME SessionsInv, [S!Next]_(S!vars) PROVE SessionsInv'
  BY Zenon
<1> USE LibraryAssumption DEF SessionsInv, SessionTypes, S!Names, S!Nobody, At
<1>0. EventTypes'
  <2>1. \A q \in Seq({"up", "down"}) : \A e \in {"up", "down"} : Append(q, e) \in Seq({"up", "down"})
    OBVIOUS
  <2>2. CASE UNCHANGED sessionEv
    BY <2>2, Zenon DEF EventTypes
  <2>3. CASE \E s \in Sessions : \E e \in {"up", "down"} :
               sessionEv' = [sessionEv EXCEPT ![s] = Append(@, e)]
    BY <2>1, <2>3 DEF EventTypes
  <2> QED
    BY <2>2, <2>3, Zenon DEF S!Next, S!vars, S!tunnelVars, S!NewTunnel, S!Close, S!beginClose,
                      S!ReaderCloses, S!FinishClose, S!CheckSession, S!newStaticSession,
                      S!newStaticSessionFails, S!linkSession, S!CloseSession, S!Kill,
                      S!closeStaticSession
<1>1. ASSUME UNCHANGED S!vars PROVE SessionsInv'
  <2>1. SessionTypes'
    BY <1>1, Zenon DEF S!vars
  <2>2. EntriesInv'
    BY <1>1, Zenon DEF S!vars, EntriesInv
  <2>3. CallInv'
    BY <1>1, Zenon DEF S!vars, EntriesInv, CallInv
  <2>4. SteadyInv'
    BY <1>1, Zenon DEF S!vars, EntriesInv, CallInv, SteadyInv, Steady
  <2>5. EventsInv'
    BY <1>1, Zenon DEF S!vars, EntriesInv, CallInv, SteadyInv, EventsInv, Steady
  <2> QED
    BY <1>0, <2>1, <2>2, <2>3, <2>4, <2>5, Zenon
<1>2. ASSUME S!NewTunnel("static") PROVE SessionsInv'
  <2>1. SessionTypes'
    BY <1>2, Zenon DEF S!NewTunnel, EntriesInv
  <2>2. EntriesInv'
    BY <1>2, Zenon DEF S!NewTunnel, EntriesInv
  <2>3. CallInv'
    BY <1>2, Zenon DEF S!NewTunnel, EntriesInv, CallInv
  <2>4. SteadyInv'
    BY <1>2, Zenon DEF S!NewTunnel, EntriesInv, CallInv, SteadyInv, Steady
  <2>5. EventsInv'
    BY <1>2, Zenon DEF S!NewTunnel, EntriesInv, CallInv, SteadyInv, EventsInv, Steady
  <2> QED
    BY <1>0, <2>1, <2>2, <2>3, <2>4, <2>5, Zenon
<1>3. ASSUME S!NewTunnel("quiescent") PROVE SessionsInv'
  <2>1. SessionTypes'
    BY <1>3, Zenon DEF S!NewTunnel, EntriesInv
  <2>2. EntriesInv'
    BY <1>3, Zenon DEF S!NewTunnel, EntriesInv
  <2>3. CallInv'
    BY <1>3, Zenon DEF S!NewTunnel, EntriesInv, CallInv
  <2>4. SteadyInv'
    BY <1>3, Zenon DEF S!NewTunnel, EntriesInv, CallInv, SteadyInv, Steady
  <2>5. EventsInv'
    BY <1>3, Zenon DEF S!NewTunnel, EntriesInv, CallInv, SteadyInv, EventsInv, Steady
  <2> QED
    BY <1>0, <2>1, <2>2, <2>3, <2>4, <2>5, Zenon
<1>4. ASSUME S!Close PROVE SessionsInv'
  <2>1. SessionTypes'
    BY <1>4 DEF S!Close, S!beginClose, S!takeAll, S!Linked, S!CanCall
  <2>2. EntriesInv'
    BY <1>4, Zenon DEF S!Close, S!beginClose, S!takeAll, S!Linked, S!CanCall, EntriesInv
  <2>3. CallInv'
    BY <1>4, Zenon DEF S!Close, S!beginClose, S!takeAll, S!Linked, S!CanCall, EntriesInv, CallInv
  <2>4. SteadyInv'
    BY <1>4 DEF S!Close, S!beginClose, S!takeAll, S!Linked, S!CanCall, EntriesInv, CallInv,
                SteadyInv, Steady
  <2>5. EventsInv'
    BY <1>4 DEF S!Close, S!beginClose, S!takeAll, S!Linked, S!CanCall, EntriesInv, CallInv,
                SteadyInv, EventsInv, Steady
  <2> QED
    BY <1>0, <2>1, <2>2, <2>3, <2>4, <2>5, Zenon
<1>5. ASSUME S!ReaderCloses PROVE SessionsInv'
  <2>1. SessionTypes'
    BY <1>5 DEF S!ReaderCloses, S!beginClose, S!takeAll, S!Linked
  <2>2. EntriesInv'
    BY <1>5, Zenon DEF S!ReaderCloses, S!beginClose, S!takeAll, S!Linked, EntriesInv
  <2>3. CallInv'
    BY <1>5 DEF S!ReaderCloses, S!beginClose, S!takeAll, S!Linked, EntriesInv, CallInv
  <2>4. SteadyInv'
    BY <1>5, Zenon DEF S!ReaderCloses, S!beginClose, S!takeAll, S!Linked, EntriesInv, CallInv, SteadyInv,
                Steady
  <2>5. EventsInv'
    BY <1>5, Zenon DEF S!ReaderCloses, S!beginClose, S!takeAll, S!Linked, EntriesInv, CallInv, SteadyInv,
                EventsInv, Steady
  <2> QED
    BY <1>0, <2>1, <2>2, <2>3, <2>4, <2>5, Zenon
<1>6. ASSUME S!FinishClose PROVE SessionsInv'
  <2>1. SessionTypes'
    BY <1>6, Zenon DEF S!FinishClose
  <2>2. EntriesInv'
    BY <1>6, Zenon DEF S!FinishClose, EntriesInv
  <2>3. CallInv'
    BY <1>6, Zenon DEF S!FinishClose, EntriesInv, CallInv
  <2>4. SteadyInv'
    BY <1>6, Zenon DEF S!FinishClose, EntriesInv, CallInv, SteadyInv, Steady
  <2>5. EventsInv'
    BY <1>6, Zenon DEF S!FinishClose, EntriesInv, CallInv, SteadyInv, EventsInv, Steady
  <2> QED
    BY <1>0, <2>1, <2>2, <2>3, <2>4, <2>5, Zenon
<1>7. ASSUME NEW s \in Sessions, S!CheckSession(s) PROVE SessionsInv'
  <2>1. SessionTypes'
    BY <1>7, Zenon DEF S!CheckSession, S!CanCall, S!findByName, S!tunnelVars
  <2>2. EntriesInv'
    BY <1>7 DEF S!CheckSession, S!CanCall, S!findByName, S!tunnelVars, EntriesInv
  <2>3. CallInv'
    BY <1>7 DEF S!CheckSession, S!CanCall, S!findByName, S!tunnelVars, EntriesInv, CallInv
  <2>4. SteadyInv'
    BY <1>7 DEF S!CheckSession, S!CanCall, S!findByName, S!tunnelVars, EntriesInv, CallInv,
                SteadyInv, Steady
  <2>5. EventsInv'
    BY <1>7 DEF S!CheckSession, S!CanCall, S!findByName, S!tunnelVars, EntriesInv, CallInv,
                SteadyInv, EventsInv, Steady
  <2> QED
    BY <1>0, <2>1, <2>2, <2>3, <2>4, <2>5, Zenon
<1>8. ASSUME NEW s \in Sessions, S!newStaticSession(s) PROVE SessionsInv'
  <2>1. SessionTypes'
    BY <1>8, Zenon DEF S!newStaticSession, S!tunnelVars
  <2>2. EntriesInv'
    BY <1>8 DEF S!newStaticSession, S!tunnelVars, EntriesInv
  <2>3. CallInv'
    BY <1>8 DEF S!newStaticSession, S!tunnelVars, EntriesInv, CallInv
  <2>4. SteadyInv'
    BY <1>8 DEF S!newStaticSession, S!tunnelVars, EntriesInv, CallInv, SteadyInv, Steady
  <2>5. EventsInv'
    <3>1. SUFFICES ASSUME Steady, NEW t \in Sessions
                   PROVE  /\ sPc'[t] \in {"idle", "checked", "failed"} => sessionEv'[t] = <<>>
                          /\ sPc'[t] = "up" => sessionEv'[t] = <<"up">>
                          /\ sPc'[t] = "returned" =>
                               sessionEv'[t] = IF At(t)' = t \/ t \in sTodo'
                                               THEN <<"up">> ELSE <<"up", "down">>
                          /\ sPc'[t] = "closed" => sessionEv'[t] = <<"up", "down">>
      BY <1>8, Zenon DEF EventsInv, Steady, S!newStaticSession, S!tunnelVars
    <3>2. t # s => sessionEv'[t] = sessionEv[t]
      BY <1>8, Zenon DEF EventTypes, S!newStaticSession, S!tunnelVars
    <3>3. CASE t # s
      BY <1>8, <3>1, <3>2, <3>3 DEF S!newStaticSession, S!tunnelVars, EntriesInv, CallInv,
                                    SteadyInv, EventsInv
    <3>4. sessionEv'[s] = Append(sessionEv[s], "up")
      BY <1>8, Zenon DEF EventTypes, S!newStaticSession, S!tunnelVars
    <3>5. sessionEv[s] = <<>>
      BY <1>8, <3>1, Zenon DEF S!newStaticSession, S!tunnelVars, EntriesInv, SteadyInv, EventsInv
    <3>6. sessionEv'[s] = <<"up">>
      BY <3>4, <3>5
    <3>7. CASE t = s
      BY <1>8, <3>1, <3>6, <3>7 DEF S!newStaticSession, S!tunnelVars, EntriesInv, CallInv, SteadyInv
    <3> QED
      BY <3>3, <3>7, Zenon
  <2> QED
    BY <1>0, <2>1, <2>2, <2>3, <2>4, <2>5, Zenon
<1>9. ASSUME NEW s \in Sessions, S!newStaticSessionFails(s) PROVE SessionsInv'
  <2>1. SessionTypes'
    BY <1>9, Zenon DEF S!newStaticSessionFails, S!tunnelVars
  <2>2. EntriesInv'
    BY <1>9 DEF S!newStaticSessionFails, S!tunnelVars, EntriesInv
  <2>3. CallInv'
    BY <1>9 DEF S!newStaticSessionFails, S!tunnelVars, EntriesInv, CallInv
  <2>4. SteadyInv'
    BY <1>9 DEF S!newStaticSessionFails, S!tunnelVars, EntriesInv, CallInv, SteadyInv, Steady
  <2>5. EventsInv'
    BY <1>9 DEF S!newStaticSessionFails, S!tunnelVars, EntriesInv, CallInv, SteadyInv, EventsInv,
                Steady
  <2> QED
    BY <1>0, <2>1, <2>2, <2>3, <2>4, <2>5, Zenon
<1>10. ASSUME NEW s \in Sessions, S!linkSession(s) PROVE SessionsInv'
  <2>1. SessionTypes'
    BY <1>10, Zenon DEF S!linkSession, S!link, S!tunnelVars
  <2>2. EntriesInv'
    BY <1>10 DEF S!linkSession, S!link, S!tunnelVars, EntriesInv
  <2>3. CallInv'
    BY <1>10 DEF S!linkSession, S!link, S!tunnelVars, EntriesInv, CallInv
  <2>4. SteadyInv'
    BY <1>10 DEF S!linkSession, S!link, S!tunnelVars, EntriesInv, CallInv, SteadyInv, Steady
  <2>5. EventsInv'
    <3>1. /\ sPc[s] = "up" /\ sPc'[s] = "returned" /\ UNCHANGED <<sessionEv, sTodo, kind>>
          /\ At(s)' = s /\ \A t \in Sessions : t # s => sPc'[t] = sPc[t]
      BY <1>10, Zenon DEF S!linkSession, S!link, S!tunnelVars
    <3>2. ASSUME NEW t \in Sessions, t # s, sPc[t] = "returned" PROVE (At(t) = t) <=> (At(t)' = t)
      BY <1>10, <3>2 DEF S!linkSession, S!link, EntriesInv, CallInv
    <3> QED
      BY <3>1, <3>2 DEF EventsInv, Steady
  <2> QED
    BY <1>0, <2>1, <2>2, <2>3, <2>4, <2>5, Zenon
<1>11. ASSUME NEW s \in Sessions, S!CloseSession(s) PROVE SessionsInv'
  <2>1. SessionTypes'
    BY <1>11, Zenon DEF S!CloseSession, S!closeStaticSession, S!unlink, S!CanCall, S!tunnelVars
  <2>2. EntriesInv'
    BY <1>11 DEF S!CloseSession, S!closeStaticSession, S!unlink, S!CanCall, S!tunnelVars, EntriesInv
  <2>3. CallInv'
    BY <1>11 DEF S!CloseSession, S!closeStaticSession, S!unlink, S!CanCall, S!tunnelVars,
                 EntriesInv, CallInv
  <2>4. SteadyInv'
    BY <1>11 DEF S!CloseSession, S!closeStaticSession, S!unlink, S!CanCall, S!tunnelVars,
                 EntriesInv, CallInv, SteadyInv, Steady
  <2>5. EventsInv'
    <3>1. SUFFICES ASSUME Steady, NEW t \in Sessions
                   PROVE  /\ sPc'[t] \in {"idle", "checked", "failed"} => sessionEv'[t] = <<>>
                          /\ sPc'[t] = "up" => sessionEv'[t] = <<"up">>
                          /\ sPc'[t] = "returned" =>
                               sessionEv'[t] = IF At(t)' = t \/ t \in sTodo'
                                               THEN <<"up">> ELSE <<"up", "down">>
                          /\ sPc'[t] = "closed" => sessionEv'[t] = <<"up", "down">>
      BY <1>11, Zenon DEF EventsInv, Steady, S!CloseSession, S!closeStaticSession, S!unlink, S!CanCall,
                   S!tunnelVars
    <3>2. t # s => sessionEv'[t] = sessionEv[t]
      BY <1>11, Zenon DEF EventTypes, S!CloseSession, S!closeStaticSession, S!unlink, S!CanCall,
                   S!tunnelVars
    <3>3. CASE t # s
      BY <1>11, <3>1, <3>2, <3>3 DEF S!CloseSession, S!closeStaticSession, S!unlink, S!CanCall,
                                     S!tunnelVars, EntriesInv, CallInv, SteadyInv, EventsInv
    <3>4. sessionEv'[s] = Append(sessionEv[s], "down")
      BY <1>11, Zenon DEF EventTypes, S!CloseSession, S!closeStaticSession, S!unlink, S!CanCall,
                   S!tunnelVars
    <3>5. sessionEv[s] = <<"up">>
      BY <1>11, <3>1, Zenon DEF S!CloseSession, S!closeStaticSession, S!unlink, S!CanCall, S!tunnelVars,
                         EntriesInv, SteadyInv, EventsInv
    <3>6. sessionEv'[s] = <<"up", "down">>
      BY ONLY <3>4, <3>5, UpThenDown, Zenon
    <3>7. CASE t = s
      BY <1>11, <3>1, <3>6, <3>7 DEF S!CloseSession, S!closeStaticSession, S!unlink, S!CanCall,
                                     S!tunnelVars, EntriesInv, CallInv, SteadyInv
    <3> QED
      BY <3>3, <3>7, Zenon
  <2> QED
    BY <1>0, <2>1, <2>2, <2>3, <2>4, <2>5, Zenon
<1>12. ASSUME NEW s \in Sessions, S!Kill(s) PROVE SessionsInv'
  <2>1. SessionTypes'
    BY <1>12, Zenon DEF S!Kill, S!closeStaticSession, S!unlink
  <2>2. EntriesInv'
    BY <1>12, Zenon DEF S!Kill, S!closeStaticSession, S!unlink, EntriesInv
  <2>3. CallInv'
    BY <1>12 DEF S!Kill, S!closeStaticSession, S!unlink, EntriesInv, CallInv
  <2>4. SteadyInv'
    BY <1>12 DEF S!Kill, S!closeStaticSession, S!unlink, EntriesInv, CallInv, SteadyInv, Steady
  <2>5. EventsInv'
    <3>1. SUFFICES ASSUME Steady, NEW t \in Sessions
                   PROVE  /\ sPc'[t] \in {"idle", "checked", "failed"} => sessionEv'[t] = <<>>
                          /\ sPc'[t] = "up" => sessionEv'[t] = <<"up">>
                          /\ sPc'[t] = "returned" =>
                               sessionEv'[t] = IF At(t)' = t \/ t \in sTodo'
                                               THEN <<"up">> ELSE <<"up", "down">>
                          /\ sPc'[t] = "closed" => sessionEv'[t] = <<"up", "down">>
      BY <1>12, Zenon DEF EventsInv, Steady, S!Kill, S!closeStaticSession, S!unlink
    <3>2. t # s => sessionEv'[t] = sessionEv[t]
      BY <1>12, Zenon DEF EventTypes, S!Kill, S!closeStaticSession, S!unlink
    <3>3. CASE t # s
      BY <1>12, <3>1, <3>2, <3>3 DEF S!Kill, S!closeStaticSession, S!unlink, EntriesInv, CallInv,
                                     SteadyInv, EventsInv
    <3>4. sessionEv'[s] = Append(sessionEv[s], "down")
      BY <1>12, Zenon DEF EventTypes, S!Kill, S!closeStaticSession, S!unlink
    <3>5. sessionEv[s] = <<"up">>
      BY <1>12, <3>1, ZenonT(60) DEF S!Kill, S!closeStaticSession, S!unlink, EntriesInv, SteadyInv, EventsInv
    <3>6. sessionEv'[s] = <<"up", "down">>
      BY ONLY <3>4, <3>5, UpThenDown, Zenon
    <3>7. CASE t = s
      <4>1. At(s)' = S!Nobody /\ s \notin sTodo' /\ sPc'[s] = "returned"
        BY <1>12, <3>1 DEF S!Kill, S!closeStaticSession, S!unlink, SteadyInv
      <4>2. s # S!Nobody
        BY Zenon
      <4> QED
        BY ONLY <3>6, <3>7, <4>1, <4>2, Zenon
    <3> QED
      BY <3>3, <3>7, Zenon
  <2> QED
    BY <1>0, <2>1, <2>2, <2>3, <2>4, <2>5, Zenon
<1> QED
  BY <1>1, <1>2, <1>3, <1>4, <1>5, <1>6, <1>7, <1>8, <1>9, <1>10, <1>11, <1>12, Zenon DEF S!Next

(* Each step keeps track of the sessions: what it unlinks by name it takes *)
(* down, or the name is not another session's.                             *)
LEMMA KeptStep ==
    ASSUME NamesApart
    PROVE  SessionsInv /\ KeptInv /\ [S!Next]_(S!vars) => KeptInv'
<1> SUFFICES ASSUME SessionsInv, KeptInv, [S!Next]_(S!vars) PROVE KeptInv'
  BY Zenon
<1> USE LibraryAssumption DEF SessionsInv, SessionTypes, S!Names, S!Nobody, At
<1>1. ASSUME UNCHANGED S!vars PROVE KeptInv'
  BY <1>1, Zenon DEF S!vars, KeptInv
<1>2. ASSUME S!NewTunnel("static") PROVE KeptInv'
  BY <1>2, Zenon DEF S!NewTunnel, KeptInv, EntriesInv, CallInv
<1>3. ASSUME S!NewTunnel("quiescent") PROVE KeptInv'
  BY <1>3, Zenon DEF S!NewTunnel, KeptInv, EntriesInv, CallInv
<1>4. ASSUME S!Close PROVE KeptInv'
  BY <1>4 DEF S!Close, S!beginClose, S!takeAll, S!Linked, S!CanCall, KeptInv, EntriesInv, CallInv
<1>5. ASSUME S!ReaderCloses PROVE KeptInv'
  BY <1>5 DEF S!ReaderCloses, S!beginClose, S!takeAll, S!Linked, KeptInv, EntriesInv, CallInv
<1>6. ASSUME S!FinishClose PROVE KeptInv'
  BY <1>6, Zenon DEF S!FinishClose, KeptInv, EntriesInv, CallInv
<1>7. ASSUME NEW s \in Sessions, S!CheckSession(s) PROVE KeptInv'
  BY <1>7 DEF S!CheckSession, S!CanCall, S!findByName, S!tunnelVars, KeptInv, EntriesInv, CallInv
<1>8. ASSUME NEW s \in Sessions, S!newStaticSession(s) PROVE KeptInv'
  BY <1>8 DEF S!newStaticSession, S!tunnelVars, KeptInv, EntriesInv, CallInv
<1>9. ASSUME NEW s \in Sessions, S!newStaticSessionFails(s) PROVE KeptInv'
  BY <1>9 DEF S!newStaticSessionFails, S!tunnelVars, KeptInv, EntriesInv, CallInv
<1>10. ASSUME NEW s \in Sessions, S!linkSession(s) PROVE KeptInv'
  BY <1>10 DEF S!linkSession, S!link, S!tunnelVars, KeptInv, EntriesInv, CallInv
<1>11. ASSUME NEW s \in Sessions, S!CloseSession(s) PROVE KeptInv'
  BY <1>11 DEF S!CloseSession, S!closeStaticSession, S!unlink, S!CanCall, S!tunnelVars, KeptInv,
               EntriesInv, CallInv, SteadyInv, Steady, NamesApart
<1>12. ASSUME NEW s \in Sessions, S!Kill(s) PROVE KeptInv'
  BY <1>12 DEF S!Kill, S!closeStaticSession, S!unlink, KeptInv, EntriesInv, CallInv, SteadyInv,
               Steady, NamesApart
<1> QED
  BY <1>1, <1>2, <1>3, <1>4, <1>5, <1>6, <1>7, <1>8, <1>9, <1>10, <1>11, <1>12, Zenon DEF S!Next

(* Initially there is no tunnel, and nobody has called.                    *)
LEMMA SessionsInit == S!Init => SessionsInv /\ KeptInv
<1> SUFFICES ASSUME S!Init PROVE SessionsInv /\ KeptInv
  BY Zenon
<1> USE DEF S!Init, S!Names, S!Nobody, At
<1>1. sReg.byName = [n \in S!Names |-> S!Nobody]
  BY Zenon DEF S!NewRegistry
<1>2. \A s \in Sessions : At(s) = S!Nobody
  BY <1>1, Zenon
<1>3. SessionTypes
  BY <1>1, Zenon DEF SessionTypes
<1>4. EventTypes
  <2>1. <<>> \in Seq({"up", "down"}) /\ sessionEv = [s \in Sessions |-> <<>>]
    OBVIOUS
  <2> QED
    BY ONLY <2>1, Zenon DEF EventTypes
<1>5. EntriesInv /\ CallInv /\ SteadyInv
  BY <1>1, <1>2, Zenon DEF EntriesInv, CallInv, SteadyInv
<1>6. EventsInv /\ KeptInv
  BY <1>2, Zenon DEF EventsInv, KeptInv
<1> QED
  BY <1>3, <1>4, <1>5, <1>6, Zenon DEF SessionsInv

(* The two events are different reports.                                   *)
LEMMA NotJustUp == <<>> # <<"up">> /\ <<"up", "down">> # <<"up">>
<1>1. Len(<<>>) = 0 /\ Len(<<"up">>) = 1 /\ Len(<<"up", "down">>) = 2
  BY Zenon
<1> QED
  BY <1>1, Zenon

(* Every session of a static tunnel that was up is reported down, once, by *)
(* the time the tunnel is closed, whatever names and IDs the sessions ask  *)
(* for: closeAllSessions and Session.Close do not both report it.          *)
THEOREM StaticDownOnce == S!Spec => []OneDownPerUp
<1>1. SessionsInv => OneDownPerUp
  <2> SUFFICES ASSUME SessionsInv, kind = "static", NEW s \in Sessions
               PROVE  /\ sessionEv[s] \in {<<>>, <<"up">>, <<"up", "down">>}
                      /\ open /\ tpc = "closed" => sessionEv[s] # <<"up">>
    BY Zenon DEF OneDownPerUp, S!OneDownPerUp
  <2>1. \/ sessionEv[s] \in {<<>>, <<"up", "down">>}
        \/ sessionEv[s] = <<"up">> /\ (sPc[s] = "up" \/ At(s) = s \/ s \in sTodo)
    BY Zenon DEF SessionsInv, SessionTypes, EventsInv, Steady
  <2>2. tpc = "closed" => sPc[s] # "up" /\ At(s) # s /\ s \notin sTodo
    BY LibraryAssumption DEF SessionsInv, SessionTypes, SteadyInv, Steady, S!Nobody
  <2> QED
    BY <2>1, <2>2, NotJustUp, Zenon
<1> QED
  BY <1>1, SessionsInit, SessionsStep, PTL DEF S!Spec

(* No session in the data plane is lost track of, for any number of        *)
(* sessions of which no two have one name, or if the reader of a quiescent *)
(* tunnel does not fail (unlinkSession deletes whoever has the name).      *)
THEOREM SessionsTracked == NamesApart => (S!Spec => []NoSessionLost)
<1> SUFFICES ASSUME NamesApart PROVE S!Spec => []NoSessionLost
  BY Zenon
<1>1. SessionsInv /\ KeptInv => NoSessionLost
  BY LibraryAssumption DEF SessionsInv, SessionTypes, EntriesInv, SteadyInv, Steady, KeptInv,
                           NoSessionLost, S!NoSessionLost, S!Linked, At, S!Names, S!Nobody
<1>2. SessionsInv /\ KeptInv /\ [S!Next]_(S!vars) => KeptInv'
  BY KeptStep, Zenon
<1> QED
  BY <1>1, <1>2, SessionsInit, SessionsStep, PTL DEF S!Spec

-----------------------------------------------------------------------------
(* The tunnels of a context.                                               *)

(* The entry of a tunnel's name.                                           *)
Entry(c) == reg.byName[TunnelName[c]]

(* What New...Tunnel has done by the time it is where it is; a tunnel is   *)
(* closed once it has been returned, and only quiescent ones have an       *)
(* xport.                                                                  *)
ProgressInv ==
    /\ \A c \in held : cPc[c] \in {"built", "returned"}
    /\ \A c \in cClosing \cup closed \cup before : cPc[c] = "returned"
    /\ \A c \in Calls : xport[c] # "none" => Kind[c] = "quiescent"

(* Entries are tunnels that have been returned, each under its own name.   *)
(* A tunnel that Close is done with, or that Context.Close has taken, is   *)
(* not there; nor is a dynamic one from the start of its Close.            *)
UnlinkedInv ==
    /\ \A n \in C!Names : reg.byName[n] # C!Nobody =>
         TunnelName[reg.byName[n]] = n /\ cPc[reg.byName[n]] = "returned"
    /\ \A c \in todo : cPc[c] = "returned"
    /\ \A c \in Calls : Entry(c) = c => /\ c \notin closed \cup todo
                                        /\ c \in cClosing => Kind[c] # "dynamic"

(* closeChan is closed once: Context.Close takes no tunnel that is being   *)
(* closed, or has been.                                                    *)
OnceInv ==
    /\ closeChan \subseteq cClosing \cup closed
    /\ todo \cap (cClosing \cup closed) = {}
    /\ todo # {} => ctx = "closing"

ContextInv == C!TypeOK /\ ProgressInv /\ UnlinkedInv /\ OnceInv

(* No two tunnels are given one name.                                      *)
DistinctNames == \A c, d \in Calls : TunnelName[c] = TunnelName[d] => c = d

(* A tunnel that runs is in the registry.                                  *)
RunningInv ==
    ctx = "open" => \A c \in held : cPc[c] = "returned" /\ c \notin cClosing => Entry(c) = c

(* Context.Close has every tunnel that is left to close in hand.           *)
InHandInv ==
    /\ RunningInv
    /\ ctx = "closing" => before \cap held \subseteq todo \cup cClosing
    /\ ContextClosesAll

(* The entry of c's name becomes x, and no other entry changes.            *)
Becomes(c, x) ==
    /\ reg'.byName \in [C!Names -> Calls \cup {C!Nobody}]
    /\ reg'.byID \in [TunnelIDs -> Calls \cup {C!Nobody}]
    /\ reg'.byName[TunnelName[c]] = x
    /\ \A n \in C!Names \ {TunnelName[c]} : reg'.byName[n] = reg.byName[n]

(* unlinkTunnel clears the entry of one name.                              *)
LEMMA Unlinks ==
    ASSUME C!TypeOK, NEW c \in Calls, C!unlinkTunnel(c)
    PROVE  Becomes(c, C!Nobody)
<1>1. /\ reg'.byName = [reg.byName EXCEPT ![TunnelName[c]] = C!Nobody]
      /\ reg'.byID = [reg.byID EXCEPT ![tid[c]] = C!Nobody]
  BY Zenon DEF C!unlinkTunnel, C!unlink
<1>2. /\ reg.byName \in [C!Names -> Calls \cup {C!Nobody}]
      /\ reg.byID \in [TunnelIDs -> Calls \cup {C!Nobody}]
  BY Zenon DEF C!TypeOK
<1>3. TunnelName[c] \in C!Names
  BY Zenon DEF C!Names
<1> QED
  BY <1>1, <1>2, <1>3, Zenon DEF Becomes

(* linkTunnel sets it.                                                     *)
LEMMA Links ==
    ASSUME C!TypeOK, NEW c \in Calls, C!linkTunnel(c)
    PROVE  Becomes(c, c)
<1>1. /\ reg'.byName = [reg.byName EXCEPT ![TunnelName[c]] = c] /\ reg'.byID = [reg.byID EXCEPT ![tid[c]] = c]
  BY Zenon DEF C!linkTunnel, C!link
<1>2. /\ reg.byName \in [C!Names -> Calls \cup {C!Nobody}]
      /\ reg.byID \in [TunnelIDs -> Calls \cup {C!Nobody}]
  BY Zenon DEF C!TypeOK
<1>3. TunnelName[c] \in C!Names
  BY Zenon DEF C!Names
<1>4. reg'.byName \in [C!Names -> Calls \cup {C!Nobody}]
  BY <1>1, <1>2, Zenon
<1>5. reg'.byID \in [TunnelIDs -> Calls \cup {C!Nobody}]
  BY <1>1, <1>2, Zenon
<1> QED
  BY <1>1, <1>2, <1>3, <1>4, <1>5, Zenon DEF Becomes

(* Context.Close clears all of them, and has the tunnels they were.        *)
LEMMA TakesAll ==
    ASSUME C!TypeOK, C!ContextClose
    PROVE  /\ reg'.byName \in [C!Names -> Calls \cup {C!Nobody}]
           /\ reg'.byID \in [TunnelIDs -> Calls \cup {C!Nobody}]
           /\ \A n \in C!Names : reg'.byName[n] = C!Nobody
           /\ \A c \in todo' : c # C!Nobody /\ \E n \in C!Names : reg.byName[n] = c
           /\ \A n \in C!Names : reg.byName[n] # C!Nobody => reg.byName[n] \in todo'
<1>1. /\ reg'.byName = [n \in DOMAIN reg.byName |-> C!Nobody]
      /\ reg'.byID = [i \in DOMAIN reg.byID |->
                        IF \E o \in C!Linked(reg) : tid[o] = i THEN C!Nobody ELSE reg.byID[i]]
      /\ todo' = C!Linked(reg)
  BY Zenon DEF C!ContextClose, C!takeAll
<1>2. /\ reg.byName \in [C!Names -> Calls \cup {C!Nobody}]
      /\ reg.byID \in [TunnelIDs -> Calls \cup {C!Nobody}]
  BY Zenon DEF C!TypeOK
<1>3. DOMAIN reg.byName = C!Names /\ DOMAIN reg.byID = TunnelIDs
  BY <1>2, Zenon
<1>4. todo' = {reg.byName[n] : n \in C!Names} \ {C!Nobody}
  BY <1>1, <1>3, Zenon DEF C!Linked
<1>5. reg'.byID \in [TunnelIDs -> Calls \cup {C!Nobody}]
  <2>1. \A i \in TunnelIDs :
          (IF \E o \in C!Linked(reg) : tid[o] = i THEN C!Nobody ELSE reg.byID[i]) \in Calls \cup {C!Nobody}
    BY <1>2, Zenon
  <2> QED
    BY <1>1, <1>3, <2>1, Zenon
<1> QED
  BY <1>1, <1>3, <1>4, <1>5, Zenon

(* Clearing entries, as each Close and each end of a tunnel does, leaves   *)
(* the registry as it should be, if a dynamic tunnel that starts to close  *)
(* clears its own.                                                         *)
LEMMA StillUnlinked ==
    ASSUME C!TypeOK, UnlinkedInv, \A n \in C!Names : reg'.byName[n] \in {C!Nobody, reg.byName[n]},
           \A d \in Calls : cPc[d] = "returned" => cPc'[d] = "returned",
           todo' \subseteq todo, C!Nobody \notin Calls,
           \A d \in closed' : d \in closed \/ reg'.byName[TunnelName[d]] # d,
           \A d \in cClosing' : d \in cClosing \/ (Kind[d] = "dynamic" => reg'.byName[TunnelName[d]] = C!Nobody)
    PROVE  UnlinkedInv'
<1>1. ASSUME NEW n \in C!Names, reg'.byName[n] # C!Nobody
      PROVE  TunnelName[reg'.byName[n]] = n /\ cPc'[reg'.byName[n]] = "returned"
  <2>1. reg'.byName[n] = reg.byName[n]
    BY <1>1, Zenon
  <2>2. reg.byName \in [C!Names -> Calls \cup {C!Nobody}]
    BY Zenon DEF C!TypeOK
  <2>3. PICK d \in Calls : d = reg.byName[n]
    BY <1>1, <2>1, <2>2, Zenon
  <2>4. TunnelName[d] = n /\ cPc[d] = "returned"
    BY <1>1, <2>1, <2>3, Zenon DEF UnlinkedInv
  <2> QED
    BY <2>1, <2>3, <2>4, Zenon
<1>2. ASSUME NEW d \in Calls, reg'.byName[TunnelName[d]] = d
      PROVE  d \notin closed' \cup todo' /\ (d \in cClosing' => Kind[d] # "dynamic")
  <2>1. reg.byName[TunnelName[d]] = d /\ reg'.byName[TunnelName[d]] # C!Nobody
    BY <1>2, Zenon DEF C!Names
  <2>2. d \notin closed \cup todo /\ (d \in cClosing => Kind[d] # "dynamic")
    BY <2>1, Zenon DEF UnlinkedInv, Entry
  <2>3. d \notin closed'
    BY <1>2, <2>2, Zenon
  <2>4. d \notin todo'
    BY <2>2, Zenon
  <2>5. d \in cClosing' => Kind[d] # "dynamic"
    BY <2>1, <2>2, Zenon
  <2> QED
    BY <2>3, <2>4, <2>5, Zenon
<1>3. \A d \in todo' : cPc'[d] = "returned"
  <2>1. todo \subseteq Calls
    BY Zenon DEF C!TypeOK
  <2> QED
    BY <2>1, Zenon DEF UnlinkedInv
<1> QED
  BY <1>1, <1>2, <1>3, Zenon DEF UnlinkedInv, Entry

(* No other tunnel's entry is touched, if names are distinct.              *)
LEMMA OthersKept ==
    ASSUME DistinctNames, NEW c \in Calls, NEW x, reg' = reg \/ Becomes(c, x)
    PROVE  \A d \in Calls \ {c} : Entry(d)' = Entry(d)
<1>1. \A d \in Calls \ {c} : TunnelName[d] \in C!Names \ {TunnelName[c]}
  BY Zenon DEF DistinctNames, C!Names
<1> QED
  BY <1>1, Zenon DEF Becomes, Entry

(* Each step keeps the invariant.                                          *)
LEMMA ContextStep == ContextInv /\ [C!Next]_(C!vars) => ContextInv'
<1> SUFFICES ASSUME ContextInv, [C!Next]_(C!vars) PROVE ContextInv'
  BY Zenon
<1> USE LibraryAssumption DEF ContextInv, C!Names, C!Nobody, C!Live, Entry
<1>1. ASSUME UNCHANGED C!vars PROVE ContextInv'
  <2>1. C!TypeOK'
    BY <1>1, Zenon DEF C!vars, C!TypeOK
  <2>2. ProgressInv'
    BY <1>1, Zenon DEF C!vars, C!TypeOK, ProgressInv
  <2>3. UnlinkedInv'
    BY <1>1, Zenon DEF C!vars, C!TypeOK, UnlinkedInv
  <2>4. OnceInv'
    BY <1>1, Zenon DEF C!vars, OnceInv
  <2> QED
    BY <2>1, <2>2, <2>3, <2>4, Zenon
<1>2. ASSUME NEW c \in Calls, C!CheckName(c) PROVE ContextInv'
  <2>1. C!TypeOK'
    BY <1>2, Zenon DEF C!CheckName, C!ctxUnchanged, C!TypeOK
  <2>2. ProgressInv'
    BY <1>2, Zenon DEF C!CheckName, C!ctxUnchanged, C!TypeOK, ProgressInv
  <2>3. UnlinkedInv'
    BY <1>2, Zenon DEF C!CheckName, C!ctxUnchanged, C!TypeOK, UnlinkedInv
  <2>4. OnceInv'
    BY <1>2, Zenon DEF C!CheckName, C!ctxUnchanged, OnceInv
  <2> QED
    BY <2>1, <2>2, <2>3, <2>4, Zenon
<1>3. ASSUME NEW c \in Calls, C!CheckID(c) PROVE ContextInv'
  <2>1. C!TypeOK'
    BY <1>3, SMTT(60) DEF C!CheckID, C!ctxUnchanged, C!TypeOK
  <2>2. ProgressInv'
    BY <1>3, SMTT(60) DEF C!CheckID, C!ctxUnchanged, C!TypeOK, ProgressInv
  <2>3. UnlinkedInv'
    <3>1. UNCHANGED <<closed, todo, cClosing>> /\ \A d \in Calls : cPc[d] = "returned" => cPc'[d] = "returned"
      <4>1. UNCHANGED <<closed, todo, cClosing>> /\ cPc[c] = "named" /\ \E x : cPc' = [cPc EXCEPT ![c] = x]
        BY <1>3, Zenon DEF C!CheckID, C!ctxUnchanged
      <4>2. DOMAIN cPc = Calls
        BY Zenon DEF C!TypeOK
      <4> QED
        BY <4>1, <4>2, Zenon
    <3>2. \A n \in C!Names : reg'.byName[n] \in {C!Nobody, reg.byName[n]}
      BY <1>3, Zenon DEF C!CheckID
    <3> QED
      BY <3>1, <3>2, StillUnlinked, Zenon
  <2>4. OnceInv'
    BY <1>3, Zenon DEF C!CheckID, C!ctxUnchanged, OnceInv
  <2> QED
    BY <2>1, <2>2, <2>3, <2>4, Zenon
<1>4. ASSUME NEW c \in Calls, C!allocTid(c) PROVE ContextInv'
  <2>1. C!TypeOK'
    BY <1>4, SMTT(60) DEF C!allocTid, C!allocatable, C!ctxUnchanged, C!TypeOK
  <2>2. ProgressInv'
    BY <1>4, SMTT(60) DEF C!allocTid, C!allocatable, C!ctxUnchanged, C!TypeOK, ProgressInv
  <2>3. UnlinkedInv'
    <3>1. UNCHANGED <<closed, todo, cClosing>> /\ \A d \in Calls : cPc[d] = "returned" => cPc'[d] = "returned"
      <4>1. UNCHANGED <<closed, todo, cClosing>> /\ cPc[c] = "named" /\ \E x : cPc' = [cPc EXCEPT ![c] = x]
        BY <1>4, Zenon DEF C!allocTid, C!ctxUnchanged
      <4>2. DOMAIN cPc = Calls
        BY Zenon DEF C!TypeOK
      <4> QED
        BY <4>1, <4>2, Zenon
    <3>2. \A n \in C!Names : reg'.byName[n] \in {C!Nobody, reg.byName[n]}
      BY <1>4, Zenon DEF C!allocTid
    <3> QED
      BY <3>1, <3>2, StillUnlinked, Zenon
  <2>4. OnceInv'
    BY <1>4, ZenonT(60) DEF C!allocTid, C!allocatable, C!ctxUnchanged, OnceInv
  <2> QED
    BY <2>1, <2>2, <2>3, <2>4, Zenon
<1>5. ASSUME NEW c \in Calls, C!Build(c) PROVE ContextInv'
  <2>1. C!TypeOK'
    BY <1>5, SMTT(60) DEF C!Build, C!ctxUnchanged, C!TypeOK
  <2>2. ProgressInv'
    BY <1>5, SMTT(60) DEF C!Build, C!ctxUnchanged, C!TypeOK, ProgressInv
  <2>3. UnlinkedInv'
    BY <1>5, Zenon DEF C!Build, C!ctxUnchanged, C!TypeOK, UnlinkedInv
  <2>4. OnceInv'
    BY <1>5, Zenon DEF C!Build, C!ctxUnchanged, OnceInv
  <2> QED
    BY <2>1, <2>2, <2>3, <2>4, Zenon
<1>6. ASSUME NEW c \in Calls, C!BuildFails(c) PROVE ContextInv'
  <2>0. reg' = reg \/ Becomes(c, C!Nobody)
    BY <1>6, Unlinks, Zenon DEF C!BuildFails
  <2>1. C!TypeOK'
    BY <1>6, <2>0, Zenon DEF C!BuildFails, Becomes, C!ctxUnchanged, C!TypeOK
  <2>2. ProgressInv'
    BY <1>6, Zenon DEF C!BuildFails, C!ctxUnchanged, C!TypeOK, ProgressInv
  <2>3. UnlinkedInv'
    <3>1. UNCHANGED <<closed, todo, cClosing>> /\ \A d \in Calls : cPc[d] = "returned" => cPc'[d] = "returned"
      BY <1>6, Zenon DEF C!BuildFails, C!ctxUnchanged, C!TypeOK
    <3>2. \A n \in C!Names : reg'.byName[n] \in {C!Nobody, reg.byName[n]}
      BY <2>0, Zenon DEF Becomes
    <3> QED
      BY <3>1, <3>2, StillUnlinked, Zenon
  <2>4. OnceInv'
    BY <1>6, Zenon DEF C!BuildFails, C!ctxUnchanged, OnceInv
  <2> QED
    BY <2>1, <2>2, <2>3, <2>4, Zenon
<1>7. ASSUME NEW c \in Calls, C!linkTunnel(c) PROVE ContextInv'
  <2>0. Becomes(c, c)
    BY <1>7, Links, Zenon
  <2>1. C!TypeOK'
    BY <1>7, <2>0, Zenon DEF C!linkTunnel, Becomes, C!ctxUnchanged, C!TypeOK
  <2>2. ProgressInv'
    BY <1>7, Zenon DEF C!linkTunnel, C!ctxUnchanged, C!TypeOK, ProgressInv
  <2>3. UnlinkedInv'
    <3>1. /\ UNCHANGED <<closed, todo, cClosing>> /\ cPc[c] # "returned" /\ cPc'[c] = "returned"
          /\ \A d \in Calls : cPc[d] = "returned" => cPc'[d] = "returned"
      BY <1>7, Zenon DEF C!linkTunnel, C!ctxUnchanged, C!TypeOK
    <3>2. c \notin closed \cup todo \cup cClosing
      BY <3>1, Zenon DEF ProgressInv, UnlinkedInv
    <3>3. ASSUME NEW n \in C!Names, reg'.byName[n] # C!Nobody
          PROVE  TunnelName[reg'.byName[n]] = n /\ cPc'[reg'.byName[n]] = "returned"
      <4>1. CASE n = TunnelName[c]
        BY <2>0, <3>1, <4>1, Zenon DEF Becomes
      <4>2. CASE n # TunnelName[c]
        <5>1. reg'.byName[n] = reg.byName[n]
          BY <2>0, <4>2, Zenon DEF Becomes
        <5>2. PICK d \in Calls : d = reg.byName[n]
          BY <3>3, <5>1, Zenon DEF C!TypeOK
        <5>3. TunnelName[d] = n /\ cPc[d] = "returned"
          BY <3>3, <5>1, <5>2, Zenon DEF UnlinkedInv
        <5> QED
          BY <3>1, <5>1, <5>2, <5>3, Zenon
      <4> QED
        BY <4>1, <4>2, Zenon
    <3>4. \A d \in todo : cPc'[d] = "returned"
      <4>1. todo \subseteq Calls
        BY Zenon DEF C!TypeOK
      <4> QED
        BY <3>1, <4>1, Zenon DEF UnlinkedInv
    <3>5. ASSUME NEW d \in Calls, reg'.byName[TunnelName[d]] = d
          PROVE  d = c \/ Entry(d) = d
      BY <2>0, <3>5, Zenon DEF Becomes
    <3>6. \A d \in Calls : reg'.byName[TunnelName[d]] = d =>
            d \notin closed \cup todo /\ (d \in cClosing => Kind[d] # "dynamic")
      BY <3>2, <3>5, Zenon DEF UnlinkedInv
    <3> QED
      BY <3>1, <3>3, <3>4, <3>6, Zenon DEF UnlinkedInv
  <2>4. OnceInv'
    BY <1>7, Zenon DEF C!linkTunnel, C!ctxUnchanged, OnceInv
  <2> QED
    BY <2>1, <2>2, <2>3, <2>4, Zenon
<1>8. ASSUME NEW c \in Calls, C!DynamicEnds(c) PROVE ContextInv'
  <2>0. Becomes(c, C!Nobody)
    BY <1>8, Unlinks, Zenon DEF C!DynamicEnds
  <2>1. C!TypeOK'
    BY <1>8, <2>0, Zenon DEF C!DynamicEnds, Becomes, C!ctxUnchanged, C!TypeOK
  <2>2. ProgressInv'
    BY <1>8, Zenon DEF C!DynamicEnds, C!ctxUnchanged, C!TypeOK, ProgressInv
  <2>3. UnlinkedInv'
    <3>1. \A n \in C!Names : reg'.byName[n] \in {C!Nobody, reg.byName[n]}
      BY <2>0, Zenon DEF Becomes
    <3>2. UNCHANGED <<cPc, closed, todo, cClosing>>
      BY <1>8, Zenon DEF C!DynamicEnds, C!ctxUnchanged
    <3> QED
      BY <3>1, <3>2, StillUnlinked, Zenon
  <2>4. OnceInv'
    BY <1>8, Zenon DEF C!DynamicEnds, C!ctxUnchanged, OnceInv
  <2> QED
    BY <2>1, <2>2, <2>3, <2>4, Zenon
<1>9. ASSUME NEW c \in Calls, C!ReaderReturns(c) PROVE ContextInv'
  <2>1. C!TypeOK'
    BY <1>9, Zenon DEF C!ReaderReturns, C!ctxUnchanged, C!TypeOK
  <2>2. ProgressInv'
    BY <1>9, Zenon DEF C!ReaderReturns, C!ctxUnchanged, C!TypeOK, ProgressInv
  <2>3. UnlinkedInv'
    BY <1>9, Zenon DEF C!ReaderReturns, C!ctxUnchanged, C!TypeOK, UnlinkedInv
  <2>4. OnceInv'
    BY <1>9, Zenon DEF C!ReaderReturns, C!ctxUnchanged, OnceInv
  <2> QED
    BY <2>1, <2>2, <2>3, <2>4, Zenon
<1>10. ASSUME NEW c \in Calls, C!ReaderCloses(c) PROVE ContextInv'
  <2>0. Becomes(c, C!Nobody)
    BY <1>10, Unlinks, Zenon DEF C!ReaderCloses
  <2>1. C!TypeOK'
    BY <1>10, <2>0, Zenon DEF C!ReaderCloses, Becomes, C!ctxUnchanged, C!TypeOK
  <2>2. ProgressInv'
    BY <1>10, SMTT(60) DEF C!ReaderCloses, C!ctxUnchanged, C!TypeOK, ProgressInv
  <2>3. UnlinkedInv'
    <3>1. \A n \in C!Names : reg'.byName[n] \in {C!Nobody, reg.byName[n]}
      BY <2>0, Zenon DEF Becomes
    <3>2. UNCHANGED <<cPc, closed, todo, cClosing>>
      BY <1>10, Zenon DEF C!ReaderCloses, C!ctxUnchanged
    <3> QED
      BY <3>1, <3>2, StillUnlinked, Zenon
  <2>4. OnceInv'
    BY <1>10, Zenon DEF C!ReaderCloses, C!ctxUnchanged, OnceInv
  <2> QED
    BY <2>1, <2>2, <2>3, <2>4, Zenon
<1>11. ASSUME NEW c \in Calls, C!XportFails(c) PROVE ContextInv'
  <2>1. C!TypeOK'
    BY <1>11, Zenon DEF C!XportFails, C!ctxUnchanged, C!TypeOK
  <2>2. ProgressInv'
    BY <1>11, SMTT(60) DEF C!XportFails, C!ctxUnchanged, C!TypeOK, ProgressInv
  <2>3. UnlinkedInv'
    BY <1>11, Zenon DEF C!XportFails, C!ctxUnchanged, C!TypeOK, UnlinkedInv
  <2>4. OnceInv'
    BY <1>11, Zenon DEF C!XportFails, C!ctxUnchanged, OnceInv
  <2> QED
    BY <2>1, <2>2, <2>3, <2>4, Zenon
<1>12. ASSUME NEW c \in Calls, C!UserClose(c) PROVE ContextInv'
  <2>0. IF Kind[c] = "dynamic" THEN Becomes(c, C!Nobody) ELSE reg' = reg
    BY <1>12, Unlinks, ZenonT(60) DEF C!UserClose, C!StartClose
  <2>1. C!TypeOK'
    BY <1>12, <2>0, SMTT(60) DEF C!UserClose, C!StartClose, Becomes, C!ctxUnchanged, C!TypeOK
  <2>2. ProgressInv'
    BY <1>12, Zenon DEF C!UserClose, C!StartClose, C!ctxUnchanged, C!TypeOK, ProgressInv
  <2>3. UnlinkedInv'
    <3>1. /\ \A n \in C!Names : reg'.byName[n] \in {C!Nobody, reg.byName[n]}
          /\ Kind[c] = "dynamic" => reg'.byName[TunnelName[c]] = C!Nobody
      BY <2>0, Zenon DEF Becomes
    <3>2. UNCHANGED <<cPc, closed, todo>> /\ cClosing' = cClosing \cup {c}
      BY <1>12, Zenon DEF C!UserClose, C!StartClose, C!ctxUnchanged
    <3> QED
      BY <3>1, <3>2, StillUnlinked, Zenon
  <2>4. OnceInv'
    BY <1>12, Zenon DEF C!UserClose, C!StartClose, C!ctxUnchanged, OnceInv
  <2> QED
    BY <2>1, <2>2, <2>3, <2>4, Zenon
<1>13. ASSUME NEW c \in Calls, C!EndClose(c) PROVE ContextInv'
  <2>0. IF Kind[c] = "dynamic" THEN reg' = reg ELSE Becomes(c, C!Nobody)
    BY <1>13, Unlinks, Zenon DEF C!EndClose
  <2>1. C!TypeOK'
    <3>1. /\ UNCHANGED <<cPc, tid, goroutine, closeChan, ctx, todo, before>>
          /\ held' \subseteq held /\ cClosing' \subseteq cClosing /\ closed' = closed \cup {c}
      BY <1>13, Zenon DEF C!EndClose, C!ctxUnchanged
    <3>2. /\ reg'.byName \in [C!Names -> Calls \cup {C!Nobody}]
          /\ reg'.byID \in [TunnelIDs -> Calls \cup {C!Nobody}]
      BY <2>0, Zenon DEF Becomes, C!TypeOK
    <3>3. xport' \in [Calls -> {"none", "up", "down", "closed"}] /\ cPanicked' \in BOOLEAN
      <4>1. xport \in [Calls -> {"none", "up", "down", "closed"}]
        BY Zenon DEF C!TypeOK
      <4>2. /\ cPanicked' = (xport[c] = "closed")
            /\ xport' = [xport EXCEPT ![c] = IF @ = "none" THEN @ ELSE "closed"]
        BY <1>13, Zenon DEF C!EndClose
      <4> QED
        BY ONLY <4>1, <4>2, c \in Calls, SMT
    <3> QED
      <4>1. before \cup todo \cup cClosing \cup closed \cup closeChan \cup held \subseteq Calls
        BY Zenon DEF C!TypeOK
      <4>2. before' \cup todo' \cup cClosing' \cup closed' \cup closeChan' \cup held' \subseteq Calls
        BY <3>1, <4>1, ZenonT(60)
      <4> QED
        BY <3>1, <3>2, <3>3, <4>1, <4>2, Zenon DEF C!TypeOK
  <2>2. ProgressInv'
    BY <1>13, SMTT(60) DEF C!EndClose, C!ctxUnchanged, C!TypeOK, ProgressInv
  <2>3. UnlinkedInv'
    <3>1. cPc' = cPc /\ todo' = todo /\ closed' = closed \cup {c} /\ cClosing' = cClosing \ {c} /\ c \in cClosing
      BY <1>13, Zenon DEF C!EndClose, C!ctxUnchanged
    <3>2. \A n \in C!Names : reg'.byName[n] \in {C!Nobody, reg.byName[n]}
      BY <2>0, Zenon DEF Becomes
    <3>3. reg'.byName[TunnelName[c]] # c
      <4>1. CASE Kind[c] = "dynamic"
        BY <2>0, <3>1, <4>1, Zenon DEF UnlinkedInv
      <4>2. CASE Kind[c] # "dynamic"
        BY <2>0, <4>2, ZenonT(60) DEF Becomes
      <4> QED
        BY <4>1, <4>2, Zenon
    <3> QED
      BY <3>1, <3>2, <3>3, StillUnlinked, Zenon
  <2>4. OnceInv'
    BY <1>13, SMTT(60) DEF C!EndClose, C!ctxUnchanged, C!TypeOK, ProgressInv, OnceInv
  <2> QED
    BY <2>1, <2>2, <2>3, <2>4, Zenon
<1>14. ASSUME NEW c \in Calls, C!ContextCloseTunnel(c) PROVE ContextInv'
  <2>0. IF Kind[c] = "dynamic" THEN Becomes(c, C!Nobody) ELSE reg' = reg
    BY <1>14, Unlinks, Zenon DEF C!ContextCloseTunnel, C!StartClose
  <2>1. C!TypeOK'
    <3>1. /\ UNCHANGED <<cPc, tid, held, goroutine, xport, closed, ctx, before>>
          /\ todo' \subseteq todo /\ cClosing' = cClosing \cup {c} /\ closeChan' \subseteq closeChan \cup {c}
          /\ cPanicked' = (Kind[c] # "static" /\ c \in closeChan)
      BY <1>14, Zenon DEF C!ContextCloseTunnel, C!StartClose
    <3>2. /\ reg'.byName \in [C!Names -> Calls \cup {C!Nobody}]
          /\ reg'.byID \in [TunnelIDs -> Calls \cup {C!Nobody}]
      BY <2>0, ZenonT(60) DEF Becomes, C!TypeOK
    <3> QED
      <4>1. /\ before \cup todo \cup cClosing \cup closed \cup closeChan \cup held \subseteq Calls
            /\ cPanicked' \in BOOLEAN
        BY <3>1, Zenon DEF C!TypeOK
      <4>2. before' \cup todo' \cup cClosing' \cup closed' \cup closeChan' \cup held' \subseteq Calls
        BY <3>1, <4>1, Zenon
      <4> QED
        BY <3>1, <3>2, <4>1, <4>2, Zenon DEF C!TypeOK
  <2>2. ProgressInv'
    BY <1>14, SMTT(60) DEF C!ContextCloseTunnel, C!StartClose, C!TypeOK, ProgressInv, UnlinkedInv
  <2>3. UnlinkedInv'
    <3>1. /\ \A n \in C!Names : reg'.byName[n] \in {C!Nobody, reg.byName[n]}
          /\ Kind[c] = "dynamic" => reg'.byName[TunnelName[c]] = C!Nobody
      BY <2>0, Zenon DEF Becomes
    <3>2. cPc' = cPc /\ closed' = closed /\ todo' = todo \ {c} /\ cClosing' = cClosing \cup {c}
      BY <1>14, Zenon DEF C!ContextCloseTunnel, C!StartClose
    <3> QED
      BY <3>1, <3>2, StillUnlinked, Zenon
  <2>4. OnceInv'
    BY <1>14, Zenon DEF C!ContextCloseTunnel, C!StartClose, OnceInv
  <2> QED
    BY <2>1, <2>2, <2>3, <2>4, Zenon
<1>15. ASSUME C!ContextClose PROVE ContextInv'
  <2>1. /\ ctx' = "closing" /\ before' = {c \in Calls : cPc[c] = "returned"} /\ cClosing = {}
        /\ UNCHANGED <<cPc, tid, held, goroutine, closeChan, xport, cClosing, closed, cPanicked>>
    BY <1>15, Zenon DEF C!ContextClose
  <2>2. /\ reg'.byName \in [C!Names -> Calls \cup {C!Nobody}]
        /\ reg'.byID \in [TunnelIDs -> Calls \cup {C!Nobody}]
        /\ \A n \in C!Names : reg'.byName[n] = C!Nobody
    BY <1>15, TakesAll, Zenon
  <2>3. \A c \in todo' : c \in Calls /\ cPc[c] = "returned" /\ Entry(c) = c
    <3> SUFFICES ASSUME NEW c \in todo' PROVE c \in Calls /\ cPc[c] = "returned" /\ Entry(c) = c
      OBVIOUS
    <3>1. PICK n \in C!Names : reg.byName[n] = c /\ c # C!Nobody
      BY <1>15, TakesAll, Zenon
    <3>2. c \in Calls
      BY <3>1, Zenon DEF C!TypeOK
    <3>3. TunnelName[c] = n /\ cPc[c] = "returned"
      BY <3>1, Zenon DEF UnlinkedInv
    <3> QED
      BY <3>1, <3>2, <3>3, ZenonT(60) DEF Entry
  <2>4. C!TypeOK'
    BY <2>1, <2>2, <2>3, Zenon DEF C!TypeOK
  <2>5. ProgressInv'
    BY <2>1, Zenon DEF C!TypeOK, ProgressInv
  <2>6. UnlinkedInv'
    <3>1. ASSUME NEW c \in Calls PROVE reg'.byName[TunnelName[c]] # c
      <4>1. reg'.byName[TunnelName[c]] = C!Nobody
        BY <2>2, Zenon
      <4> QED
        BY <4>1, Zenon
    <3> QED
      BY <2>1, <2>2, <2>3, <3>1, Zenon DEF UnlinkedInv, Entry
  <2>7. OnceInv'
    <3>1. \A c \in todo' : c \notin closed
      BY <2>3, Zenon DEF UnlinkedInv
    <3>2. closeChan' \subseteq cClosing' \cup closed'
      BY <2>1, Zenon DEF OnceInv
    <3>3. todo' \cap (cClosing' \cup closed') = {}
      BY <2>1, <3>1, Zenon
    <3> QED
      BY <2>1, <3>2, <3>3, Zenon DEF OnceInv
  <2> QED
    BY <2>4, <2>5, <2>6, <2>7, Zenon
<1>16. ASSUME C!ContextClosed PROVE ContextInv'
  <2>1. C!TypeOK'
    BY <1>16, Zenon DEF C!ContextClosed, C!ownVars, C!TypeOK
  <2>2. ProgressInv'
    BY <1>16, Zenon DEF C!ContextClosed, C!ownVars, C!TypeOK, ProgressInv
  <2>3. UnlinkedInv'
    BY <1>16, Zenon DEF C!ContextClosed, C!ownVars, C!TypeOK, UnlinkedInv
  <2>4. OnceInv'
    BY <1>16, Zenon DEF C!ContextClosed, C!ownVars, OnceInv
  <2> QED
    BY <2>1, <2>2, <2>3, <2>4, Zenon
<1> QED
  BY <1>1, <1>2, <1>3, <1>4, <1>5, <1>6, <1>7, <1>8, <1>9, <1>10, <1>11, <1>12, <1>13, <1>14, <1>15, <1>16, Zenon
  DEF C!Next, C!New

(* So does Context.Close, if names are distinct.                           *)
LEMMA InHandStep == DistinctNames /\ ContextInv /\ InHandInv /\ [C!Next]_(C!vars) => InHandInv'
<1> SUFFICES ASSUME DistinctNames, ContextInv, InHandInv, [C!Next]_(C!vars) PROVE InHandInv'
  BY Zenon
<1> USE LibraryAssumption DEF ContextInv, C!Names, C!Nobody, C!Live, Entry
<1>1. ASSUME UNCHANGED C!vars PROVE InHandInv'
  <2>1. RunningInv'
    BY <1>1, Zenon DEF C!vars, C!TypeOK, ProgressInv, DistinctNames, InHandInv, RunningInv
  <2>2. ContextClosesAll' /\ (ctx' = "closing" => before' \cap held' \subseteq todo' \cup cClosing')
    BY <1>1, Zenon DEF C!vars, C!TypeOK, ProgressInv, InHandInv, ContextClosesAll, C!ContextClosesAll
  <2> QED
    BY <2>1, <2>2, Zenon DEF InHandInv
<1>2. ASSUME NEW c \in Calls, C!CheckName(c) PROVE InHandInv'
  <2>1. RunningInv'
    BY <1>2, ZenonT(60) DEF C!CheckName, C!ctxUnchanged, C!TypeOK, ProgressInv, DistinctNames, InHandInv,
                             RunningInv
  <2>2. ContextClosesAll' /\ (ctx' = "closing" => before' \cap held' \subseteq todo' \cup cClosing')
    BY <1>2, Zenon DEF C!CheckName, C!ctxUnchanged, C!TypeOK, ProgressInv, InHandInv, ContextClosesAll,
                       C!ContextClosesAll
  <2> QED
    BY <2>1, <2>2, Zenon DEF InHandInv
<1>3. ASSUME NEW c \in Calls, C!CheckID(c) PROVE InHandInv'
  <2>1. RunningInv'
    BY <1>3, SMTT(60) DEF C!CheckID, C!ctxUnchanged, C!TypeOK, ProgressInv, DistinctNames, InHandInv, RunningInv
  <2>2. ContextClosesAll' /\ (ctx' = "closing" => before' \cap held' \subseteq todo' \cup cClosing')
    BY <1>3, Zenon DEF C!CheckID, C!ctxUnchanged, C!TypeOK, ProgressInv, InHandInv, ContextClosesAll,
                       C!ContextClosesAll
  <2> QED
    BY <2>1, <2>2, Zenon DEF InHandInv
<1>4. ASSUME NEW c \in Calls, C!allocTid(c) PROVE InHandInv'
  <2>1. RunningInv'
    BY <1>4, SMTT(60) DEF C!allocTid, C!allocatable, C!ctxUnchanged, C!TypeOK, ProgressInv, DistinctNames,
                       InHandInv, RunningInv
  <2>2. ContextClosesAll' /\ (ctx' = "closing" => before' \cap held' \subseteq todo' \cup cClosing')
    BY <1>4, Zenon DEF C!allocTid, C!allocatable, C!ctxUnchanged, C!TypeOK, ProgressInv, InHandInv,
                       ContextClosesAll, C!ContextClosesAll
  <2> QED
    BY <2>1, <2>2, Zenon DEF InHandInv
<1>5. ASSUME NEW c \in Calls, C!Build(c) PROVE InHandInv'
  <2>1. RunningInv'
    BY <1>5, SMTT(60) DEF C!Build, C!ctxUnchanged, C!TypeOK, ProgressInv, DistinctNames, InHandInv, RunningInv
  <2>2. ContextClosesAll' /\ (ctx' = "closing" => before' \cap held' \subseteq todo' \cup cClosing')
    BY <1>5, SMTT(60) DEF C!Build, C!ctxUnchanged, C!TypeOK, ProgressInv, InHandInv, ContextClosesAll,
                       C!ContextClosesAll
  <2> QED
    BY <2>1, <2>2, Zenon DEF InHandInv
<1>6. ASSUME NEW c \in Calls, C!BuildFails(c) PROVE InHandInv'
  <2>0. reg' = reg \/ Becomes(c, C!Nobody)
    BY <1>6, Unlinks, Zenon DEF C!BuildFails
  <2>1. RunningInv'
    <3>1. /\ UNCHANGED <<cClosing, ctx>> /\ held' \subseteq held /\ held \subseteq Calls
          /\ cPc' = [cPc EXCEPT ![c] = "failed"] /\ DOMAIN cPc = Calls
      BY <1>6, Zenon DEF C!BuildFails, C!ctxUnchanged, C!TypeOK
    <3>2. \A d \in Calls \ {c} : Entry(d)' = Entry(d) /\ cPc'[d] = cPc[d]
      BY <2>0, <3>1, OthersKept, Zenon
    <3>3. cPc'[c] = "failed"
      BY <3>1, Zenon
    <3> QED
      BY <3>1, <3>2, <3>3, Zenon DEF InHandInv, RunningInv
  <2>2. ContextClosesAll' /\ (ctx' = "closing" => before' \cap held' \subseteq todo' \cup cClosing')
    BY <1>6, Zenon DEF C!BuildFails, C!ctxUnchanged, C!TypeOK, ProgressInv, InHandInv, ContextClosesAll,
                       C!ContextClosesAll
  <2> QED
    BY <2>1, <2>2, Zenon DEF InHandInv
<1>7. ASSUME NEW c \in Calls, C!linkTunnel(c) PROVE InHandInv'
  <2>0. Becomes(c, c)
    BY <1>7, Links, Zenon
  <2>1. RunningInv'
    <3>1. /\ UNCHANGED <<held, cClosing, ctx>> /\ held \subseteq Calls
          /\ cPc' = [cPc EXCEPT ![c] = "returned"] /\ DOMAIN cPc = Calls
      BY <1>7, Zenon DEF C!linkTunnel, C!ctxUnchanged, C!TypeOK
    <3>2. \A d \in Calls \ {c} : Entry(d)' = Entry(d) /\ cPc'[d] = cPc[d]
      BY <2>0, <3>1, OthersKept, Zenon
    <3>3. Entry(c)' = c
      BY <2>0, Zenon DEF Becomes, Entry
    <3> QED
      BY <3>1, <3>2, <3>3, Zenon DEF InHandInv, RunningInv
  <2>2. ContextClosesAll' /\ (ctx' = "closing" => before' \cap held' \subseteq todo' \cup cClosing')
    BY <1>7, Zenon DEF C!linkTunnel, C!ctxUnchanged, C!TypeOK, ProgressInv, InHandInv, ContextClosesAll,
                       C!ContextClosesAll
  <2> QED
    BY <2>1, <2>2, Zenon DEF InHandInv
<1>8. ASSUME NEW c \in Calls, C!DynamicEnds(c) PROVE InHandInv'
  <2>0. Becomes(c, C!Nobody)
    BY <1>8, Unlinks, Zenon DEF C!DynamicEnds
  <2>1. RunningInv'
    <3>1. UNCHANGED <<cPc, cClosing, ctx>> /\ held' = held \ {c} /\ held \subseteq Calls
      BY <1>8, Zenon DEF C!DynamicEnds, C!ctxUnchanged, C!TypeOK
    <3>2. \A d \in Calls \ {c} : Entry(d)' = Entry(d)
      BY <2>0, OthersKept, Zenon
    <3> QED
      BY <3>1, <3>2, Zenon DEF InHandInv, RunningInv
  <2>2. ContextClosesAll' /\ (ctx' = "closing" => before' \cap held' \subseteq todo' \cup cClosing')
    BY <1>8, SMTT(60) DEF C!DynamicEnds, C!ctxUnchanged, C!TypeOK, ProgressInv, InHandInv, ContextClosesAll,
                       C!ContextClosesAll
  <2> QED
    BY <2>1, <2>2, Zenon DEF InHandInv
<1>9. ASSUME NEW c \in Calls, C!ReaderReturns(c) PROVE InHandInv'
  <2>1. RunningInv'
    BY <1>9, Zenon DEF C!ReaderReturns, C!ctxUnchanged, C!TypeOK, ProgressInv, DistinctNames, InHandInv, RunningInv
  <2>2. ContextClosesAll' /\ (ctx' = "closing" => before' \cap held' \subseteq todo' \cup cClosing')
    BY <1>9, Zenon DEF C!ReaderReturns, C!ctxUnchanged, C!TypeOK, ProgressInv, InHandInv,
                       ContextClosesAll, C!ContextClosesAll
  <2> QED
    BY <2>1, <2>2, Zenon DEF InHandInv
<1>10. ASSUME NEW c \in Calls, C!ReaderCloses(c) PROVE InHandInv'
  <2>0. Becomes(c, C!Nobody)
    BY <1>10, Unlinks, Zenon DEF C!ReaderCloses
  <2>1. RunningInv'
    <3>1. UNCHANGED <<cPc, cClosing, ctx>> /\ held' = held \ {c} /\ held \subseteq Calls
      BY <1>10, Zenon DEF C!ReaderCloses, C!ctxUnchanged, C!TypeOK
    <3>2. \A d \in Calls \ {c} : Entry(d)' = Entry(d)
      BY <2>0, OthersKept, Zenon
    <3> QED
      BY <3>1, <3>2, Zenon DEF InHandInv, RunningInv
  <2>2. ContextClosesAll' /\ (ctx' = "closing" => before' \cap held' \subseteq todo' \cup cClosing')
    BY <1>10, SMTT(60) DEF C!ReaderCloses, C!ctxUnchanged, C!TypeOK, ProgressInv, InHandInv,
                        ContextClosesAll, C!ContextClosesAll
  <2> QED
    BY <2>1, <2>2, Zenon DEF InHandInv
<1>11. ASSUME NEW c \in Calls, C!XportFails(c) PROVE InHandInv'
  <2>1. RunningInv'
    BY <1>11, Zenon DEF C!XportFails, C!ctxUnchanged, C!TypeOK, ProgressInv, DistinctNames, InHandInv, RunningInv
  <2>2. ContextClosesAll' /\ (ctx' = "closing" => before' \cap held' \subseteq todo' \cup cClosing')
    BY <1>11, Zenon DEF C!XportFails, C!ctxUnchanged, C!TypeOK, ProgressInv, InHandInv, ContextClosesAll,
                        C!ContextClosesAll
  <2> QED
    BY <2>1, <2>2, Zenon DEF InHandInv
<1>12. ASSUME NEW c \in Calls, C!UserClose(c) PROVE InHandInv'
  <2>0. IF Kind[c] = "dynamic" THEN Becomes(c, C!Nobody) ELSE reg' = reg
    BY <1>12, Unlinks, Zenon DEF C!UserClose, C!StartClose
  <2>1. RunningInv'
    <3>1. UNCHANGED <<cPc, held, ctx>> /\ cClosing' = cClosing \cup {c} /\ held \subseteq Calls
      BY <1>12, Zenon DEF C!UserClose, C!StartClose, C!ctxUnchanged, C!TypeOK
    <3>2. \A d \in Calls \ {c} : Entry(d)' = Entry(d)
      BY <2>0, OthersKept, Zenon
    <3> QED
      BY <3>1, <3>2, Zenon DEF InHandInv, RunningInv
  <2>2. ContextClosesAll' /\ (ctx' = "closing" => before' \cap held' \subseteq todo' \cup cClosing')
    BY <1>12, Zenon DEF C!UserClose, C!StartClose, C!ctxUnchanged, C!TypeOK, ProgressInv, InHandInv,
                        ContextClosesAll, C!ContextClosesAll
  <2> QED
    BY <2>1, <2>2, Zenon DEF InHandInv
<1>13. ASSUME NEW c \in Calls, C!EndClose(c) PROVE InHandInv'
  <2>0. IF Kind[c] = "dynamic" THEN reg' = reg ELSE Becomes(c, C!Nobody)
    BY <1>13, Unlinks, Zenon DEF C!EndClose
  <2>1. RunningInv'
    <3>1. UNCHANGED <<cPc, ctx>> /\ held' = held \ {c} /\ cClosing' = cClosing \ {c} /\ held \subseteq Calls
      BY <1>13, Zenon DEF C!EndClose, C!ctxUnchanged, C!TypeOK
    <3>2. \A d \in Calls \ {c} : Entry(d)' = Entry(d)
      BY <2>0, OthersKept, Zenon
    <3> QED
      BY <3>1, <3>2, Zenon DEF InHandInv, RunningInv
  <2>2. ContextClosesAll' /\ (ctx' = "closing" => before' \cap held' \subseteq todo' \cup cClosing')
    BY <1>13, SMTT(60) DEF C!EndClose, C!ctxUnchanged, C!TypeOK, ProgressInv, InHandInv, ContextClosesAll,
                        C!ContextClosesAll
  <2> QED
    BY <2>1, <2>2, Zenon DEF InHandInv
<1>14. ASSUME NEW c \in Calls, C!ContextCloseTunnel(c) PROVE InHandInv'
  <2>0. IF Kind[c] = "dynamic" THEN Becomes(c, C!Nobody) ELSE reg' = reg
    BY <1>14, Unlinks, SMTT(60) DEF C!ContextCloseTunnel, C!StartClose
  <2>1. RunningInv'
    BY <1>14, <2>0, Zenon DEF C!ContextCloseTunnel, C!StartClose, Becomes, C!TypeOK, ProgressInv,
                                 DistinctNames, InHandInv, RunningInv
  <2>2. ContextClosesAll' /\ (ctx' = "closing" => before' \cap held' \subseteq todo' \cup cClosing')
    BY <1>14, Zenon DEF C!ContextCloseTunnel, C!StartClose, C!TypeOK, ProgressInv, InHandInv,
                        ContextClosesAll, C!ContextClosesAll
  <2> QED
    BY <2>1, <2>2, Zenon DEF InHandInv
<1>15. ASSUME C!ContextClose PROVE InHandInv'
  <2>1. RunningInv'
    BY <1>15, TakesAll, Zenon DEF C!ContextClose, C!TypeOK, ProgressInv, DistinctNames, InHandInv, RunningInv
  <2>2. ContextClosesAll' /\ (ctx' = "closing" => before' \cap held' \subseteq todo' \cup cClosing')
    <3>1. /\ ctx = "open" /\ ctx' = "closing" /\ before' = {c \in Calls : cPc[c] = "returned"}
          /\ cClosing = {} /\ UNCHANGED <<held, cClosing, cPc>>
      BY <1>15, Zenon DEF C!ContextClose
    <3>2. ASSUME NEW c \in before' \cap held' PROVE c \in todo'
      <4>1. c \in Calls /\ Entry(c) = c
        BY <3>1, <3>2, Zenon DEF InHandInv, RunningInv
      <4>2. \A n \in C!Names : reg.byName[n] # C!Nobody => reg.byName[n] \in todo'
        BY <1>15, TakesAll, Zenon
      <4>3. TunnelName[c] \in C!Names /\ c # C!Nobody
        BY <4>1, Zenon
      <4> QED
        BY <4>1, <4>2, <4>3, Zenon
    <3> QED
      BY <3>1, <3>2, Zenon DEF ContextClosesAll, C!ContextClosesAll
  <2> QED
    BY <2>1, <2>2, Zenon DEF InHandInv
<1>16. ASSUME C!ContextClosed PROVE InHandInv'
  <2>1. RunningInv'
    BY <1>16, Zenon DEF C!ContextClosed, C!ownVars, C!TypeOK, ProgressInv, DistinctNames, InHandInv, RunningInv
  <2>2. ContextClosesAll' /\ (ctx' = "closing" => before' \cap held' \subseteq todo' \cup cClosing')
    BY <1>16, SMTT(60) DEF C!ContextClosed, C!ownVars, C!TypeOK, ProgressInv, InHandInv, ContextClosesAll,
                        C!ContextClosesAll
  <2> QED
    BY <2>1, <2>2, Zenon DEF InHandInv
<1> QED
  BY <1>1, <1>2, <1>3, <1>4, <1>5, <1>6, <1>7, <1>8, <1>9, <1>10, <1>11, <1>12, <1>13, <1>14, <1>15, <1>16, Zenon
  DEF C!Next, C!New

(* Initially nobody has called.                                            *)
LEMMA ContextInit == C!Init => ContextInv /\ InHandInv
<1> SUFFICES ASSUME C!Init PROVE ContextInv /\ InHandInv
  BY Zenon
<1> USE LibraryAssumption DEF C!Init, C!Names, C!Nobody
<1>1. reg.byName = [n \in C!Names |-> C!Nobody] /\ reg.byID = [i \in TunnelIDs |-> C!Nobody]
  BY Zenon DEF C!NewRegistry
<1>2. C!TypeOK
  BY <1>1, ZenonT(60) DEF C!TypeOK
<1>3. ProgressInv /\ UnlinkedInv
  BY <1>1, Zenon DEF ProgressInv, UnlinkedInv, Entry
<1>4. OnceInv /\ InHandInv
  BY <1>1, Zenon DEF OnceInv, InHandInv, RunningInv,
                     ContextClosesAll, C!ContextClosesAll
<1> QED
  BY <1>2, <1>3, <1>4, Zenon DEF ContextInv

(* No tunnel's closeChan is closed twice, for any tunnels, whatever their  *)
(* names and IDs and however Tunnel.Close, Context.Close and the tunnels'  *)
(* own ends interleave: the only step that panics is the end of the Close  *)
(* of a quiescent tunnel.                                                  *)
THEOREM CloseChanOnce == C!Spec => OnlyQuiescentPanics
<1>1. ASSUME ContextInv, C!Next, cPanicked', ~cPanicked
      PROVE  \E c \in cClosing \ cClosing' : Kind[c] = "quiescent"
  <2> USE <1>1
  <2>1. ASSUME NEW c \in Calls, C!UserClose(c) PROVE FALSE
    BY <2>1, Zenon DEF C!UserClose, C!StartClose, ContextInv, OnceInv
  <2>2. ASSUME NEW c \in Calls, C!ContextCloseTunnel(c) PROVE FALSE
    BY <2>2, Zenon DEF C!ContextCloseTunnel, C!StartClose, ContextInv, OnceInv
  <2>3. ASSUME NEW c \in Calls, C!EndClose(c) PROVE c \in cClosing \ cClosing' /\ Kind[c] = "quiescent"
    <3>1. c \in cClosing /\ cClosing' = cClosing \ {c} /\ xport[c] = "closed"
      BY <2>3, Zenon DEF C!EndClose
    <3>2. Kind[c] = "quiescent"
      BY <3>1, SMT DEF ContextInv, ProgressInv
    <3> QED
      BY <3>1, <3>2, Zenon
  <2>4. ASSUME NEW c \in Calls, C!New(c) PROVE FALSE
    BY <2>4, Zenon DEF C!New, C!CheckName, C!CheckID, C!allocTid, C!Build, C!BuildFails, C!linkTunnel
  <2>5. ASSUME NEW c \in Calls, C!DynamicEnds(c) \/ C!ReaderReturns(c) \/ C!ReaderCloses(c) \/ C!XportFails(c)
        PROVE  FALSE
    BY <2>5, Zenon DEF C!DynamicEnds, C!ReaderReturns, C!ReaderCloses, C!XportFails
  <2>6. ASSUME C!ContextClose \/ C!ContextClosed PROVE FALSE
    BY <2>6, Zenon DEF C!ContextClose, C!ContextClosed
  <2> QED
    BY <2>1, <2>2, <2>3, <2>4, <2>5, <2>6, Zenon DEF C!Next
<1>2. ContextInv /\ [C!Next]_(C!vars) =>
        [cPanicked' /\ ~cPanicked => \E c \in cClosing \ cClosing' : Kind[c] = "quiescent"]_(C!vars)
  BY <1>1, Zenon
<1> QED
  BY <1>2, ContextInit, ContextStep, PTL DEF C!Spec, OnlyQuiescentPanics, C!OnlyQuiescentPanics

(* Context.Close tears down every tunnel that New...Tunnel had returned,   *)
(* for any number of tunnels with distinct names.                          *)
THEOREM AllClosed == DistinctNames => (C!Spec => []ContextClosesAll)
<1> SUFFICES ASSUME DistinctNames PROVE C!Spec => []ContextClosesAll
  BY Zenon
<1>1. ContextInv /\ InHandInv /\ [C!Next]_(C!vars) => InHandInv'
  BY InHandStep, Zenon
<1>2. InHandInv => ContextClosesAll
  BY Zenon DEF InHandInv
<1> QED
  BY <1>1, <1>2, ContextInit, ContextStep, PTL DEF C!Spec

(* The registry holds every tunnel that runs and none whose Close has      *)
(* returned, for any number of tunnels with distinct names, whether or not *)
(* their IDs collide.                                                      *)
THEOREM RegistryFollows == DistinctNames => (C!Spec => []RegistryFollowsTunnels)
<1> SUFFICES ASSUME DistinctNames PROVE C!Spec => []RegistryFollowsTunnels
  BY Zenon
<1>1. ContextInv /\ InHandInv /\ [C!Next]_(C!vars) => InHandInv'
  BY InHandStep, Zenon
<1>2. ContextInv /\ InHandInv => RegistryFollowsTunnels
  <2> SUFFICES ASSUME ContextInv, InHandInv PROVE RegistryFollowsTunnels
    BY Zenon
  <2>1. DOMAIN reg.byName = C!Names
    BY Zenon DEF ContextInv, C!TypeOK
  <2>2. ASSUME NEW c \in closed, c \in C!Linked(reg) PROVE FALSE
    <3>1. PICK n \in C!Names : reg.byName[n] = c /\ c # C!Nobody
      BY <2>1, <2>2, Zenon DEF C!Linked
    <3>2. c \in Calls /\ Entry(c) = c
      BY <3>1, Zenon DEF ContextInv, C!TypeOK, UnlinkedInv, Entry
    <3> QED
      BY <2>2, <3>2, Zenon DEF ContextInv, UnlinkedInv
  <2> QED
    BY <2>2, Zenon DEF InHandInv, RunningInv, Entry, RegistryFollowsTunnels, C!RegistryFollowsTunnels
<1> QED
  BY <1>1, <1>2, ContextInit, ContextStep, PTL DEF C!Spec
=============================================================================

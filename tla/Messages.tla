------------------------------ MODULE Messages ------------------------------
(***************************************************************************)
(* Control messages (l2tp/msg.go): the builders, the bytes a message is    *)
(* sent as, what parseMessageBuffer makes of a frame, and validation.  A   *)
(* frame goes from a sender that builds with this code, perhaps adding     *)
(* AVPs as another implementation may, to a receiver that parses it.       *)
(***************************************************************************)
EXTENDS Avp, SequencesExt

CONSTANTS Kinds,       \* the messages built, of those of Build
          IDs,         \* tunnel and session IDs, assigned or the peer's
          HostNames,
          ResultCodes,
          Extras,      \* AVPs a peer may add to a message
          Payloads,    \* payloads a peer may give the last AVP of a message
          MaxMessages  \* bound on the messages of a frame

VARIABLES phase, frame, \* the messages sent
          extended,     \* the peer has added to the last one
          buf, received

vars == <<phase, frame, extended, buf, received>>

v2TidSidMax == 65535
headerLen == 12
-----------------------------------------------------------------------------
(* What each message must and may hold.                                    *)

Sccrq == 1
Sccrp == 2
Scccn == 3
Stopccn == 4
Hello == 6
Icrq == 10
Icrp == 11
Iccn == 12
Cdn == 14
Ack == 20

mustExist(ver, t) ==
  CASE ver = 3 /\ t = Hello            -> {0}
    [] ver = 2 /\ t \in {Sccrq, Sccrp} -> {0, 2, 3, 7, 9}
    [] ver = 2 /\ t \in {Scccn, Hello} -> {0}
    [] ver = 2 /\ t = Stopccn          -> {0, 1, 9}
    [] ver = 2 /\ t = Icrq             -> {0, 14, 15}
    [] ver = 2 /\ t = Icrp             -> {0, 14}
    [] ver = 2 /\ t = Iccn             -> {0, 19, 24}
    [] ver = 2 /\ t = Cdn              -> {0, 1, 14}
    [] OTHER                           -> {}

mayExist(ver, t) ==
  CASE ver = 3 /\ t = Hello -> {36, 59}
    [] ver = 2 /\ t = Sccrq -> {4, 5, 6, 8, 10, 11}
    [] ver = 2 /\ t = Sccrp -> {4, 5, 6, 8, 10, 11, 13}
    [] ver = 2 /\ t = Scccn -> {13}
    [] ver = 2 /\ t = Icrq  -> {18, 21, 22, 23, 25}
    [] ver = 2 /\ t = Iccn  -> (26..33) \cup {37, 38, 39}
    [] ver = 2 /\ t = Cdn   -> {avpTypeQ931CauseCode}
    [] OTHER                -> {}

\* The message's type; one without AVPs is an acknowledgement.
getType(m) == IF m.avps = << >> THEN Ack ELSE decode(m.avps[1]).v

\* Mutant: an AVP the specification names is not decoded.
validateAvpsUndecoded(avps, ver, t) ==
  /\ \A i \in DOMAIN avps :
       avps[i].type \in mustExist(ver, t) \cup mayExist(ver, t) \/ ~avps[i].mand
  /\ mustExist(ver, t) \subseteq {avps[i].type : i \in DOMAIN avps}

validateAvps(avps, ver, t) ==
  /\ \A i \in DOMAIN avps :
       IF avps[i].type \in mustExist(ver, t) \cup mayExist(ver, t)
       THEN decode(avps[i]).ok ELSE ~avps[i].mand
  /\ mustExist(ver, t) \subseteq {avps[i].type : i \in DOMAIN avps}

\* A type without a specification has no mandatory AVP here: not even its own.
validate(m) == mustExist(m.ver, getType(m)) # {} /\ validateAvps(m.avps, m.ver, getType(m))
-----------------------------------------------------------------------------
(* The builders.                                                           *)

V(type, v) == [type |-> type, v |-> v]

newV2ControlMessage(tid, sid) ==
  IF tid > v2TidSidMax \/ sid > v2TidSidMax THEN Err
  ELSE Ok([ver |-> 2, len |-> headerLen, id |-> <<tid, sid>>, avps |-> << >>])

newV3ControlMessage(ccid, avps) ==
  Ok([ver |-> 3, id |-> <<ccid \div 65536, ccid % 65536>>, avps |-> avps,
      len |-> headerLen + FoldSeq(LAMBDA a, n : n + a.totalLen, 0, avps)])

\* Mutant: the message's length does not grow.
appendAvpShort(m, a) == [m EXCEPT !.avps = Append(@, a)]

appendAvp(m, a) == [m EXCEPT !.avps = Append(@, a), !.len = (@ + a.totalLen) % 65536]

buildV2Msg(ptid, psid, in) ==
  LET avps == [i \in DOMAIN in |-> newAvp(in[i][1], in[i][2])]
      msg == newV2ControlMessage(ptid, psid)
  IN IF ~msg.ok \/ \E i \in DOMAIN avps : ~avps[i].ok THEN Err
     ELSE Ok(FoldLeft(LAMBDA m, a : appendAvp(m, a.v), msg.v, avps))

hostNameAvp(host) == <<avpTypeHostName, V("string", host)>>
framingAvp == <<avpTypeFramingCap, V("uint32", 3)>>
versionAvp == <<avpTypeProtocolVersion, V("bytes", <<1, 0>>)>>
tunnelIDAvp(tid) == <<avpTypeTunnelID, V("uint16", tid % 65536)>>

newV2Sccrq(tid, host) ==
  buildV2Msg(0, 0, << <<avpTypeMessage, V("msgid", Sccrq)>>, versionAvp, hostNameAvp(host),
                      framingAvp, tunnelIDAvp(tid) >>)

newV2Sccrp(tid, ptid, host) ==
  buildV2Msg(ptid, 0, << <<avpTypeMessage, V("msgid", Sccrp)>>, versionAvp, framingAvp,
                         hostNameAvp(host), tunnelIDAvp(tid) >>)

newV2Scccn(ptid) == buildV2Msg(ptid, 0, << <<avpTypeMessage, V("msgid", Scccn)>> >>)
newV2Hello(ptid) == buildV2Msg(ptid, 0, << <<avpTypeMessage, V("msgid", Hello)>> >>)

newV2Stopccn(rc, tid, ptid) ==
  buildV2Msg(ptid, 0, << <<avpTypeMessage, V("msgid", Stopccn)>>,
                         tunnelIDAvp(tid),
                         <<avpTypeResultCode, V("resultcode", rc)>> >>)

newV2Icrq(serial, ptid, sid) ==
  buildV2Msg(ptid, 0, << <<avpTypeMessage, V("msgid", Icrq)>>,
                         <<avpTypeSessionID, V("uint16", sid % 65536)>>,
                         <<avpTypeCallSerialNumber, V("uint32", serial)>> >>)

newV2Icrp(ptid, sid, psid) ==
  buildV2Msg(ptid, psid, << <<avpTypeMessage, V("msgid", Icrp)>>,
                            <<avpTypeSessionID, V("uint16", sid % 65536)>> >>)

newV2Iccn(ptid, psid) ==
  buildV2Msg(ptid, psid, << <<avpTypeMessage, V("msgid", Iccn)>>,
                            <<avpTypeConnectSpeed, V("uint32", 0)>>,
                            <<avpTypeFramingType, V("uint32", 3)>> >>)

newV2Cdn(ptid, rc, sid, psid) ==
  buildV2Msg(ptid, psid, << <<avpTypeMessage, V("msgid", Cdn)>>,
                            <<avpTypeResultCode, V("resultcode", rc)>>,
                            <<avpTypeSessionID, V("uint16", sid % 65536)>> >>)

newV3Hello(ccid) == newV3ControlMessage(ccid, << newAvp(avpTypeMessage, V("msgid", Hello)).v >>)
-----------------------------------------------------------------------------
(* To bytes and back.                                                      *)

\* Ns and Nr are the transport's: see Transport.
toBytes(m) ==
  uint16Bytes(51200 + m.ver) \o uint16Bytes(m.len)
    \o uint16Bytes(m.id[1]) \o uint16Bytes(m.id[2]) \o uint16Bytes(0) \o uint16Bytes(0)
    \o FlattenSeq([i \in DOMAIN m.avps |-> avpBytes(m.avps[i])])

\* bytesToV2CtlMsg and bytesToV3CtlMsg: b holds the len bytes of the message.
\* A v2 message that is all header has no AVPs.
bytesToCtlMsg(b, ver) ==
  LET avps == parseAVPBuffer(SubSeq(b, headerLen + 1, Len(b)))
      msg(a) == Ok([ver |-> ver, len |-> Len(b), avps |-> a,
                    id |-> <<uint16At(b, 5), uint16At(b, 7)>>])
  IN CASE Len(b) < headerLen -> Err
       [] Len(b) = headerLen /\ ver = 2 -> msg(<< >>)
       [] OTHER -> IF avps.ok /\ avps.v[1].type # avpTypeMessage THEN Err
                   ELSE IF avps.ok THEN msg(avps.v) ELSE avps

\* Reads the messages from offset pos on.  The length of a message is that of
\* all of it; the reader has its first 4 bytes behind it when it steps on.
RECURSIVE messagesFrom(_, _)
messagesFrom(b, pos) ==
  IF Len(b) - pos < headerLen THEN Ok(<< >>)
  ELSE LET ver == uint16At(b, pos + 1) % 16
           len == uint16At(b, pos + 3)
           msg == bytesToCtlMsg(SubSeq(b, pos + 1, pos + len), ver)
       IN IF \/ (len - 4) % 65536 > Len(b) - pos - 4
             \/ ver \notin {2, 3}
          THEN Err
          ELSE IF ~msg.ok THEN msg
          ELSE LET rest == messagesFrom(b, pos + 4 + len) IN
               IF rest.ok THEN Ok(<<msg.v>> \o rest.v) ELSE rest

parseMessageBuffer(b) == messagesFrom(b, 0)
-----------------------------------------------------------------------------
Init == /\ phase = "build" /\ frame = << >> /\ extended = FALSE
        /\ buf = << >> /\ received = Err

\* The builder of a kind of message refuses, or its message joins the frame.
Built(msg) ==
  /\ phase = "build" /\ Len(frame) < MaxMessages
  /\ IF msg.ok THEN frame' = Append(frame, msg.v) /\ extended' = FALSE /\ UNCHANGED phase
               ELSE phase' = "refused" /\ UNCHANGED <<frame, extended>>
  /\ UNCHANGED <<buf, received>>

BuildTunnelMsg(kind, tid, ptid, host, rc) ==
  /\ kind \in Kinds
  /\ Built(CASE kind = "sccrq" -> newV2Sccrq(tid, host)
             [] kind = "sccrp" -> newV2Sccrp(tid, ptid, host)
             [] kind = "scccn" -> newV2Scccn(ptid)
             [] kind = "hello" -> newV2Hello(ptid)
             [] kind = "stopccn" -> newV2Stopccn(rc, tid, ptid)
             [] kind = "v3hello" -> newV3Hello(ptid)
             [] kind = "zlb" -> newV2ControlMessage(ptid, 0))

BuildSessionMsg(kind, ptid, sid, psid, rc) ==
  /\ kind \in Kinds
  /\ Built(CASE kind = "icrq" -> newV2Icrq(1, ptid, sid)
             [] kind = "icrp" -> newV2Icrp(ptid, sid, psid)
             [] kind = "iccn" -> newV2Iccn(ptid, psid)
             [] kind = "cdn" -> newV2Cdn(ptid, rc, sid, psid))

\* A peer's message has an AVP more, or another payload in its last one.
PeerAppends(a) ==
  /\ phase = "build" /\ frame # << >> /\ ~extended /\ Last(frame).avps # << >>
  /\ frame' = [frame EXCEPT ![Len(frame)] = appendAvp(@, a)] /\ extended' = TRUE
  /\ UNCHANGED <<phase, buf, received>>

PeerWrites(data) ==
  LET m == Last(frame)
      a == Last(m.avps)
      new == newAvpHeader(a.mand, a.vendor, a.type, data)
  IN /\ phase = "build" /\ frame # << >> /\ ~extended
     /\ Len(m.avps) > 1
     /\ frame' = [frame EXCEPT ![Len(frame)].avps[Len(m.avps)] = new,
                               ![Len(frame)].len = @ - a.totalLen + new.totalLen]
     /\ extended' = TRUE
     /\ UNCHANGED <<phase, buf, received>>

Transmit ==
  /\ phase = "build" /\ frame # << >>
  /\ phase' = "sent"
  /\ buf' = FlattenSeq([i \in DOMAIN frame |-> toBytes(frame[i])])
  /\ UNCHANGED <<frame, extended, received>>

Receive ==
  /\ phase = "sent"
  /\ phase' = "received"
  /\ received' = parseMessageBuffer(buf)
  /\ UNCHANGED <<frame, extended, buf>>

TunnelKinds == {"sccrq", "sccrp", "scccn", "hello", "stopccn", "v3hello", "zlb"}
SessionKinds == {"icrq", "icrp", "iccn", "cdn"}

Next ==
  \/ \E k \in TunnelKinds, tid \in IDs, ptid \in IDs, h \in HostNames, rc \in ResultCodes :
       BuildTunnelMsg(k, tid, ptid, h, rc)
  \/ \E k \in SessionKinds, ptid \in IDs, sid \in IDs, psid \in IDs, rc \in ResultCodes :
       BuildSessionMsg(k, ptid, sid, psid, rc)
  \/ \E a \in Extras : PeerAppends(a)
  \/ \E data \in Payloads : PeerWrites(data)
  \/ Transmit \/ Receive

Spec == Init /\ [][Next]_vars
-----------------------------------------------------------------------------
(* Properties.                                                             *)

KnownAvps(m) == SelectSeq(m.avps, LAMBDA a : Known(a.vendor, a.type))

\* A frame is read as the messages that were built: their IDs, lengths and
\* AVPs (toBytes, parseMessageBuffer, parseAVPBuffer).  One that is just what
\* the builders make is found valid, whatever the IDs, names and result codes
\* (the builders against the message specifications and the AVP table).
RoundTrip ==
  phase = "received" =>
    /\ received = Ok(frame)
    /\ ~extended => \A i \in DOMAIN frame : getType(frame[i]) = Ack \/ validate(frame[i])

\* In a message found valid the AVPs the handlers take values from are there
\* and can be read (validateAvps; fsmActOnSccrp, fsmActOnIcrp, fsmActOnStopccn,
\* fsmActOnCdn).
ValidHasWhatHandlersRead ==
  phase = "received" /\ received.ok =>
    \A i \in DOMAIN received.v :
      LET m == received.v[i]
          t == getType(m)
      IN m.ver = 2 /\ validate(m) =>
           /\ t = Sccrp => find(m.avps, avpTypeTunnelID, "uint16").ok
           /\ t = Icrp => find(m.avps, avpTypeSessionID, "uint16").ok
           /\ t \in {Stopccn, Cdn} => find(m.avps, avpTypeResultCode, "resultcode").ok

\* A message that holds the AVPs it must, readable, and else only ones it may,
\* is found valid (validateAvps and the message specifications).
MayExistIsAccepted ==
  phase = "received" /\ received.ok =>
    \A i \in DOMAIN received.v :
      LET m == received.v[i] IN
      (\A j \in DOMAIN m.avps :
         \/ m.avps[j].type \in mustExist(m.ver, getType(m)) /\ decode(m.avps[j]).ok
         \/ m.avps[j].type \in mayExist(m.ver, getType(m))) => validate(m)

\* An AVP that is not known and not mandatory is passed over: the others are
\* read as they were sent (parseAVPBuffer).
UnknownAvpIgnored ==
  phase = "received" => received = Ok([i \in DOMAIN frame |-> [frame[i] EXCEPT !.avps = KnownAvps(frame[i])]])

\* The length in an AVP's header is the number of bytes the AVP takes
\* (newAvpHeader, totalLen).
TotalLenIsBytes ==
  \A i \in DOMAIN frame : \A j \in DOMAIN frame[i].avps :
    LET a == frame[i].avps[j] IN a.totalLen = Len(avpBytes(a))
=============================================================================

------------------------------- MODULE Pppoe -------------------------------
(***************************************************************************)
(* PPPoE discovery: the packets of package pppoe, their bytes, and what    *)
(* kpppoed answers to a PADI or a PADR.  A client builds a packet, the     *)
(* server reads it into a zeroed buffer larger than the packet, parses all *)
(* of the buffer and answers, and the client reads the answer.             *)
(***************************************************************************)
EXTENDS Bytes, SequencesExt

CONSTANTS Services,   \* configured service names, as sequences of bytes
          Requested,  \* service names clients ask for
          ACName,
          SIDs,       \* session IDs that genSessionID may return
          Tags,       \* sequences of further tags that clients send
          Padding     \* zero bytes after the packet in the buffer

VARIABLES phase, sent, buf, parsed, reply, got

vars == <<phase, sent, buf, parsed, reply, got>>

PADI == 9
PADO == 7
PADR == 25
PADS == 101
PADT == 167
ServiceName == 257
ACNameTag == 258
HostUniq == 259
RelaySessionID == 272
ServiceNameError == 513
GenericError == 515

client == <<2, 0, 0, 0, 0, 1>>
server == <<2, 0, 0, 0, 0, 2>>
broadcast == <<255, 255, 255, 255, 255, 255>>
-----------------------------------------------------------------------------
(* The packets.                                                            *)

Tag(type, data) == [type |-> type, data |-> data]
Packet(src, dst, code, sid, tags) ==
  [src |-> src, dst |-> dst, code |-> code, sid |-> sid, tags |-> tags]

NewPADI(src, name) == Packet(src, broadcast, PADI, 0, <<Tag(ServiceName, name)>>)
NewPADO(src, dst, name, ac) ==
  Packet(src, dst, PADO, 0, <<Tag(ServiceName, name), Tag(ACNameTag, ac)>>)
NewPADR(src, dst, name) == Packet(src, dst, PADR, 0, <<Tag(ServiceName, name)>>)
NewPADS(src, dst, name, sid) == Packet(src, dst, PADS, sid, <<Tag(ServiceName, name)>>)
NewPADT(src, dst, sid) == Packet(src, dst, PADT, sid, << >>)

AddTag(p, type, data) == [p EXCEPT !.tags = Append(@, Tag(type, data))]

findTag(type, tags) ==
  LET at == {i \in DOMAIN tags : tags[i].type = type}
  IN IF at = {} THEN Err ELSE Ok(tags[CHOOSE i \in at : \A j \in at : i <= j])

\* Tags a packet must hold; a PADS with session ID 0 reports a failure.
mandatoryTags(p) ==
  CASE p.code \in {PADI, PADR} -> {ServiceName}
    [] p.code = PADO -> {ServiceName, ACNameTag}
    [] p.code = PADS -> IF p.sid = 0 THEN {ServiceNameError} ELSE {ServiceName}
    [] p.code = PADT -> {}

Validate(p) ==
  /\ p.code \in {PADI, PADO, PADR, PADS, PADT}
  /\ p.code \in {PADI, PADO, PADR} => p.sid = 0
  /\ p.code = PADT => p.sid # 0
  /\ \A t \in mandatoryTags(p) : findTag(t, p.tags).ok
-----------------------------------------------------------------------------
(* To bytes and back.                                                      *)

ethTypeDiscovery == 34915
pppoePacketMinLength == 20
pppoeTagMinLength == 4

tagBytes(t) == uint16Bytes(t.type) \o uint16Bytes(Len(t.data) % 65536) \o t.data
tagListBytes(p) == FlattenSeq([i \in DOMAIN p.tags |-> tagBytes(p.tags[i])])

ToBytes(p) ==
  p.dst \o p.src \o uint16Bytes(ethTypeDiscovery) \o <<17, p.code>> \o uint16Bytes(p.sid)
    \o uint16Bytes(Len(tagListBytes(p)) % 65536) \o tagListBytes(p)

RECURSIVE tagsFrom(_, _)
tagsFrom(b, pos) ==
  IF Len(b) - pos < pppoeTagMinLength THEN Ok(<< >>)
  ELSE LET length == uint16At(b, pos + 3)
           start == pos + pppoeTagMinLength
           rest == tagsFrom(b, start + length)
       IN IF length > Len(b) - start THEN Err
          ELSE IF rest.ok
               THEN Ok(<<Tag(uint16At(b, pos + 1), SubSeq(b, start + 1, start + length))>> \o rest.v)
               ELSE Err

newTagListFromBuffer(b) == tagsFrom(b, 0)

newPacketFromBuffer(hdr, payload) ==
  LET tags == newTagListFromBuffer(payload)
      p == Packet(hdr.src, hdr.dst, hdr.code, hdr.sid, tags.v)
  IN IF tags.ok /\ Validate(p) THEN Ok(p) ELSE Err

\* Frames of another type, which zeroes read as too, are passed over.
RECURSIVE packetsFrom(_, _)
packetsFrom(b, pos) ==
  IF Len(b) - pos < pppoePacketMinLength THEN Ok(<< >>)
  ELSE LET hdr == [dst |-> SubSeq(b, pos + 1, pos + 6), src |-> SubSeq(b, pos + 7, pos + 12),
                   type |-> uint16At(b, pos + 13), code |-> b[pos + 16],
                   sid |-> uint16At(b, pos + 17), length |-> uint16At(b, pos + 19)]
           start == pos + pppoePacketMinLength
           p == newPacketFromBuffer(hdr, SubSeq(b, start + 1, start + hdr.length))
           rest == packetsFrom(b, start + hdr.length)
       IN IF hdr.length > Len(b) - start \/ (hdr.type = ethTypeDiscovery /\ ~p.ok) \/ ~rest.ok
          THEN Err
          ELSE IF hdr.type = ethTypeDiscovery THEN Ok(<<p.v>> \o rest.v) ELSE rest

ParsePacketBuffer(b) == packetsFrom(b, 0)
-----------------------------------------------------------------------------
(* kpppoed's answers.                                                      *)

\* An empty name asks for any service.
mapServiceName(name) == name = << >> \/ name \in Services

echo(in, out, type) ==
  LET t == findTag(type, in.tags) IN IF t.ok THEN AddTag(out, type, t.v.data) ELSE out

\* Mutant: the relay's tag is only echoed with a host's.
appendEchoedTagsHost(in, out) ==
  IF findTag(HostUniq, in.tags).ok THEN echo(in, echo(in, out, HostUniq), RelaySessionID) ELSE out

appendEchoedTags(in, out) == echo(in, echo(in, out, HostUniq), RelaySessionID)

\* Silence if the service is not offered.
handlePADI(p) ==
  LET name == findTag(ServiceName, p.tags).v.data IN
  IF mapServiceName(name) THEN Ok(appendEchoedTags(p, NewPADO(server, p.src, name, ACName))) ELSE Err

\* The PADS of handlePADR: see Kpppoed for the session.  The session ID stays
\* as it is if the daemon could not be set up.
handlePADR(p, sid, spawned) ==
  LET name == findTag(ServiceName, p.tags).v.data
      id == IF mapServiceName(name) THEN sid ELSE 0
      pads == appendEchoedTags(p, NewPADS(server, p.src, name, id))
  IN IF id # 0 /\ spawned THEN pads ELSE AddTag(pads, ServiceNameError, <<33>>)

sendPADT(dst, sid) == AddTag(NewPADT(server, dst, sid), GenericError, <<33>>)
-----------------------------------------------------------------------------
NoPacket == Packet(client, client, 0, 0, << >>)

Init == /\ phase = "idle" /\ sent = NoPacket /\ buf = << >> /\ parsed = Err
        /\ reply = NoPacket /\ got = Err

Transmit(p, tags) ==
  /\ phase = "idle"
  /\ phase' = "sent"
  /\ sent' = [p EXCEPT !.tags = @ \o tags]
  /\ buf' = ToBytes(sent') \o [i \in 1..Padding |-> 0]
  /\ UNCHANGED <<parsed, reply, got>>

Parse ==
  /\ phase = "sent"
  /\ phase' = "parsed"
  /\ parsed' = ParsePacketBuffer(buf)
  /\ UNCHANGED <<sent, buf, reply, got>>

\* sendPacket: an answer that is not valid is not sent.
Answer(p) ==
  /\ phase = "parsed" /\ parsed.ok
  /\ reply' = p
  /\ phase' = IF Validate(p) THEN "answered" ELSE "invalid"
  /\ got' = IF Validate(p) THEN ParsePacketBuffer(ToBytes(p)) ELSE Err
  /\ UNCHANGED <<sent, buf, parsed>>

AnswerPADI == /\ parsed.ok /\ parsed.v # << >> /\ parsed.v[1].code = PADI
              /\ handlePADI(parsed.v[1]).ok
              /\ Answer(handlePADI(parsed.v[1]).v)

AnswerPADR(sid, spawned) == /\ parsed.ok /\ parsed.v # << >> /\ parsed.v[1].code = PADR
                            /\ Answer(handlePADR(parsed.v[1], sid, spawned))

Terminate(sid) == /\ parsed.ok /\ parsed.v # << >> /\ parsed.v[1].code = PADR
                  /\ sid # 0
                  /\ Answer(sendPADT(parsed.v[1].src, sid))

Next ==
  \/ \E name \in Requested, t \in Tags : \/ Transmit(NewPADI(client, name), t)
                                         \/ Transmit(NewPADR(client, server, name), t)
  \/ \E sid \in SIDs, t \in Tags : Transmit(NewPADT(client, server, sid), t)
  \/ Parse \/ AnswerPADI
  \/ \E sid \in SIDs \cup {0}, spawned \in BOOLEAN : AnswerPADR(sid, spawned)
  \/ \E sid \in SIDs : Terminate(sid)

Spec == Init /\ [][Next]_vars
-----------------------------------------------------------------------------
(* Properties.                                                             *)

\* The server parses exactly the packet the client sent, although it reads
\* into a buffer of fixed size and parses all of it (ParsePacketBuffer, run).
\* Its answer is always valid, so never dropped in sendPacket, and reaches the
\* client as built (handlePADI, handlePADR, sendPADT, Validate).  An offer or
\* confirmation returns the client's first host-uniq and relay-session-id tags
\* unchanged, whichever others it sent (appendEchoedTags).
AnswersFitRequests ==
  /\ phase # "invalid"
  /\ phase \in {"parsed", "answered"} => parsed = Ok(<<sent>>)
  /\ phase = "answered" => got = Ok(<<reply>>)
  /\ phase = "answered" /\ reply.code \in {PADO, PADS} =>
       \A type \in {HostUniq, RelaySessionID} :
         findTag(type, reply.tags) = findTag(type, sent.tags)

\* An offer advertises every configured service (handlePADI).
ServicesAdvertised ==
  phase = "answered" /\ reply.code = PADO =>
    \A s \in Services : \E i \in DOMAIN reply.tags : reply.tags[i] = Tag(ServiceName, s)
=============================================================================

---------------------------- MODULE NlAttributes ----------------------------
(***************************************************************************)
(* The netlink requests of internal/nll2tp/nll2tp.go: what a tunnel or a   *)
(* session configuration is turned into, or refused, and how the           *)
(* attributes of a session are read back.  A request is a sequence of      *)
(* attributes, each with a type and a value.                               *)
(***************************************************************************)
EXTENDS Integers, Sequences, SequencesExt

Refused == [ok |-> FALSE]
Request(attrs) == [ok |-> TRUE, attrs |-> attrs]

Attr(type, data) == [type |-> type, data |-> data]
When(cond, attr) == IF cond THEN <<attr>> ELSE <<>>

HasAttr(attrs, type) == \E i \in DOMAIN attrs : attrs[i].type = type

\* Both netlink.AttributeDecoder and the kernel let a later attribute of a type
\* override an earlier one.
AttrValue(attrs, type, default) ==
  IF HasAttr(attrs, type) THEN attrs[SelectLastInSeq(attrs, LAMBDA a : a.type = type)].data ELSE default
-----------------------------------------------------------------------------
\* Mutant: the peer's ID is not checked.
tunnelConfigOKAnyPeer(c) ==
  /\ c.tid # 0
  /\ c.version \in 2..3 /\ c.encap \in {"udp", "ip"}
  /\ c.version = 2 => c.tid <= 65535 /\ c.ptid <= 65535 /\ c.encap = "udp"

tunnelConfigOK(c) ==
  /\ c.tid # 0 /\ c.ptid # 0
  /\ c.version \in 2..3 /\ c.encap \in {"udp", "ip"}
  /\ c.version = 2 => c.tid <= 65535 /\ c.ptid <= 65535 /\ c.encap = "udp"

tunnelCreateAttr(c) ==
  <<Attr("ConnId", c.tid), Attr("PeerConnId", c.ptid), Attr("ProtoVersion", c.version),
    Attr("EncapType", c.encap)>>

\* fd < 0 is refused before anything else; callers pass the tunnel socket's.
CreateManagedTunnel(c, fd) ==
  IF fd >= 0 /\ tunnelConfigOK(c) THEN Request(Append(tunnelCreateAttr(c), Attr("Fd", fd))) ELSE Refused

\* The families are told apart by the length of the addresses.
CreateStaticTunnel(la, pa, c) ==
  IF /\ la.fam = pa.fam
     /\ c.encap = "udp" => la.port # 0 /\ pa.port # 0
     /\ tunnelConfigOK(c)
  THEN Request(tunnelCreateAttr(c) \o
               <<Attr(IF la.fam = "v4" THEN "IpSaddr" ELSE "Ip6Saddr", la.fam),
                 Attr(IF la.fam = "v4" THEN "IpDaddr" ELSE "Ip6Daddr", pa.fam),
                 Attr("UdpSport", la.port), Attr("UdpDport", pa.port)>>)
  ELSE Refused
-----------------------------------------------------------------------------
cookieOK(cookie) == Len(cookie) \in {0, 4, 8}

sessionConfigOK(c) ==
  /\ c.tid # 0 /\ c.ptid # 0 /\ c.sid # 0 /\ c.psid # 0
  /\ c.pwType # "none"
  /\ cookieOK(c.localCookie) /\ cookieOK(c.peerCookie)
  /\ c.l2SpecType \in {"none", "default"}  \* checked last, in the switch

\* Mutant: the interface name is only sent with a layer 2 sublayer.
ifNameAttrSublayer(c) == When(c.ifName # "" /\ c.l2SpecType # "none", Attr("Ifname", c.ifName))

ifNameAttr(c) == When(c.ifName # "", Attr("Ifname", c.ifName))

\* The second cookie goes out under the type of the first.
cookieAttrs(c) == When(c.localCookie # <<>>, Attr("Cookie", c.localCookie)) \o
                  When(c.peerCookie # <<>>, Attr("Cookie", c.peerCookie))

sessionCreateAttr(c) ==
  <<Attr("ConnId", c.tid), Attr("PeerConnId", c.ptid),
    Attr("SessionId", c.sid), Attr("PeerSessionId", c.psid),
    Attr("PwType", IF c.pwType = "ethvlan" THEN "eth" ELSE c.pwType)>>
  \o When(c.sendSeq, Attr("SendSeq", 1))
  \o When(c.recvSeq, Attr("RecvSeq", 1))
  \o When((c.sendSeq \/ c.recvSeq) /\ c.isLNS, Attr("LnsMode", 1))
  \o When(c.reorderTimeout > 0, Attr("RecvTimeout", c.reorderTimeout))
  \o cookieAttrs(c)
  \o ifNameAttr(c)
  \o <<Attr("L2specType", c.l2SpecType), Attr("L2specLen", IF c.l2SpecType = "none" THEN 0 ELSE 4)>>

CreateSession(c) == IF sessionConfigOK(c) THEN Request(sessionCreateAttr(c)) ELSE Refused
-----------------------------------------------------------------------------
NoInfo == [tid |-> 0, ptid |-> 0, sid |-> 0, psid |-> 0, ifName |-> "", localCookie |-> <<>>,
           peerCookie |-> <<>>, sendSeq |-> FALSE, recvSeq |-> FALSE, lnsMode |-> FALSE,
           reorderTimeout |-> 0]

sessionInfo_decode(attrs) ==
  [tid |-> AttrValue(attrs, "ConnId", 0), ptid |-> AttrValue(attrs, "PeerConnId", 0),
   sid |-> AttrValue(attrs, "SessionId", 0), psid |-> AttrValue(attrs, "PeerSessionId", 0),
   ifName |-> AttrValue(attrs, "Ifname", ""),
   localCookie |-> AttrValue(attrs, "Cookie", <<>>), peerCookie |-> AttrValue(attrs, "PeerCookie", <<>>),
   sendSeq |-> AttrValue(attrs, "SendSeq", 0) # 0, recvSeq |-> AttrValue(attrs, "RecvSeq", 0) # 0,
   lnsMode |-> AttrValue(attrs, "LnsMode", 0) # 0, reorderTimeout |-> AttrValue(attrs, "RecvTimeout", 0)]

\* GetSessionInfo walks the attributes of the answer with an empty switch.
GetSessionInfo(answer) == NoInfo
=============================================================================

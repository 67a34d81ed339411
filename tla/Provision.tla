----------------------------- MODULE Provision ------------------------------
(***************************************************************************)
(* From a configuration to the kernel: the checks of NewDynamicTunnel,     *)
(* NewQuiescentTunnel and NewStaticTunnel and the addresses they resolve   *)
(* (l2tp/l2tp.go), the tunnel socket (l2tp/controlplane.go), the netlink   *)
(* data plane (l2tp/nl_dataplane.go) and the requests it makes, for one    *)
(* tunnel and one session in it.  IDs that are in use, and the registries, *)
(* are in module Context.                                                  *)
(***************************************************************************)
EXTENDS NlAttributes

CONSTANTS Kinds,           \* of tunnel: "dynamic", "quiescent", "static"
          TunnelConfigs, SessionConfigs,
          AssignedIDs,     \* IDs a dynamic peer assigns, or that are allocated
          SocketErrors

VARIABLES kind, tcfg, scfg, \* the call
          stage,            \* how far it has come
          sal, sap,         \* the resolved addresses
          connected,        \* the tunnel socket is connected to its peer
          tunnelReq, sessionReq, \* what the kernel was asked for
          wireSid           \* the session ID sent to a dynamic peer

vars == <<kind, tcfg, scfg, stage, sal, sap, connected, tunnelReq, sessionReq, wireSid>>

NoAddr == [fam |-> "none", port |-> 0]

Init ==
  /\ kind \in Kinds /\ tcfg \in TunnelConfigs /\ scfg \in SessionConfigs
  /\ stage = "called"
  /\ sal = NoAddr /\ sap = NoAddr /\ connected = FALSE
  /\ tunnelReq = Refused /\ sessionReq = Refused /\ wireSid = 0
-----------------------------------------------------------------------------
(* The sanity checks, in l2tp.go.                                          *)

DynamicOK(c) ==
  /\ c.version # 3 => c.encap # "ip"
  /\ c.version = 2 => c.tid <= 65535
  /\ c.ptid = 0
  /\ c.peer # NoAddr

QuiescentOK(c) ==
  /\ c.version # 3 => c.encap # "ip"
  /\ c.tid # 0 /\ c.ptid # 0
  /\ c.version = 2 => c.tid <= 65535 /\ c.ptid <= 65535
  /\ c.local # NoAddr /\ c.peer # NoAddr

StaticOK(c) ==
  /\ c.version = 3
  /\ c.tid # 0 /\ c.ptid # 0
  /\ c.local # NoAddr /\ c.peer # NoAddr

SanityOK(c) == CASE kind = "dynamic" -> DynamicOK(c)
                 [] kind = "quiescent" -> QuiescentOK(c)
                 [] kind = "static" -> StaticOK(c)

\* A dynamic tunnel without an ID is given one by allocTid, which may be zero,
\* unless the version is unknown.
Check ==
  /\ stage = "called"
  /\ IF SanityOK(tcfg) /\ (kind = "dynamic" /\ tcfg.tid = 0 => tcfg.version \in {2, 3})
     THEN /\ stage' = "checked"
          /\ \E id \in IF kind = "dynamic" /\ tcfg.tid = 0 THEN AssignedIDs ELSE {tcfg.tid} :
               tcfg' = [tcfg EXCEPT !.tid = id]
     ELSE stage' = "refused" /\ UNCHANGED tcfg
  /\ UNCHANGED <<kind, scfg, sal, sap, connected, tunnelReq, sessionReq, wireSid>>

\* An address that does not resolve, or resolves to no IP, is an error.
Resolves(a) == a.fam \in {"v4", "v6"}

\* newUDPTunnelAddress keeps the port, newIPTunnelAddress drops it.
TunnelAddress(a) == IF tcfg.encap = "udp" THEN a ELSE [a EXCEPT !.port = 0]

\* newUDPAddressPair and newIPAddressPair: without a local address, the
\* unspecified one of the peer's family.
AddressPair ==
  /\ stage = "checked"
  /\ IF Resolves(tcfg.peer) /\ (tcfg.local # NoAddr => Resolves(tcfg.local))
     THEN /\ sap' = TunnelAddress(tcfg.peer)
          /\ sal' = IF tcfg.local = NoAddr THEN [fam |-> tcfg.peer.fam, port |-> 0]
                                           ELSE TunnelAddress(tcfg.local)
          /\ stage' = CASE kind = "static" -> "dataplane"
                        [] kind = "quiescent" -> "socket"
                        [] kind = "dynamic" -> IF tcfg.version = 2 THEN "socket" ELSE "refused"
     ELSE stage' = "refused" /\ UNCHANGED <<sal, sap>>
  /\ UNCHANGED <<kind, tcfg, scfg, connected, tunnelReq, sessionReq, wireSid>>
-----------------------------------------------------------------------------
(* The tunnel socket, of the family of the local address.                  *)

\* newL2tpControlPlane, bind and, for a quiescent tunnel, connect, which the
\* kernel refuses across families.
OpenSocket ==
  /\ stage = "socket"
  /\ IF kind = "quiescent" /\ sal.fam # sap.fam
     THEN stage' = "refused" /\ UNCHANGED connected
     ELSE /\ connected' = (kind = "quiescent")
          /\ stage' = IF kind = "dynamic" THEN "exchange" ELSE "dataplane"
  /\ UNCHANGED <<kind, tcfg, scfg, sal, sap, tunnelReq, sessionReq, wireSid>>

SocketFails ==
  /\ SocketErrors /\ stage = "socket"
  /\ stage' = "refused"
  /\ UNCHANGED <<kind, tcfg, scfg, sal, sap, connected, tunnelReq, sessionReq, wireSid>>

\* fsmActOnSccrp: the peer's tunnel ID, and connectTo its address, the one the
\* message came from; the socket received it, so the family is the socket's.
PeerAnswers ==
  /\ stage = "exchange"
  /\ \E id \in AssignedIDs : tcfg' = [tcfg EXCEPT !.ptid = id]
  /\ connected' = TRUE
  /\ stage' = "dataplane"
  /\ UNCHANGED <<kind, scfg, sal, sap, tunnelReq, sessionReq, wireSid>>
-----------------------------------------------------------------------------
(* nlDataPlane.                                                            *)

tunnelCfgToNl(c) == [tid |-> c.tid, ptid |-> c.ptid, version |-> c.version, encap |-> c.encap]

\* A tunnel with a socket is a managed one.
NewTunnel ==
  /\ stage = "dataplane"
  /\ tunnelReq' = IF kind = "static" THEN CreateStaticTunnel(sal, sap, tunnelCfgToNl(tcfg))
                                     ELSE CreateManagedTunnel(tunnelCfgToNl(tcfg), 3)
  /\ stage' = IF tunnelReq'.ok THEN "up" ELSE "refused"
  /\ UNCHANGED <<kind, tcfg, scfg, sal, sap, connected, sessionReq, wireSid>>

\* A PPP/AC session is a PPP session to the kernel.
sessionCfgToNl(tc, c) ==
  [tid |-> tc.tid, ptid |-> tc.ptid, sid |-> c.sid, psid |-> c.psid,
   pwType |-> IF c.pseudowire = "pppac" THEN "ppp" ELSE c.pseudowire,
   sendSeq |-> c.seqNum, recvSeq |-> c.seqNum, isLNS |-> FALSE,
   reorderTimeout |-> c.reorderTimeout, localCookie |-> c.cookie, peerCookie |-> c.peerCookie,
   ifName |-> c.interfaceName, l2SpecType |-> c.l2SpecType]

\* The checks of NewSession: a static tunnel's; a dynamic tunnel allocates.
CheckSession ==
  /\ stage = "up"
  /\ \/ /\ kind = "static" /\ (scfg.sid = 0 \/ scfg.psid = 0)
        /\ stage' = "session refused"
        /\ UNCHANGED <<scfg, wireSid>>
     \/ /\ kind = "static" => scfg.sid # 0 /\ scfg.psid # 0
        /\ kind # "dynamic"
        /\ stage' = "session"
        /\ UNCHANGED <<scfg, wireSid>>
     \/ /\ kind = "dynamic"
        /\ \E id \in IF scfg.sid = 0 THEN AssignedIDs ELSE {scfg.sid} :
             /\ scfg' = [scfg EXCEPT !.sid = id]
             /\ wireSid' = id % 65536  \* newV2Icrq converts to uint16
        /\ stage' = "session exchange"
  /\ UNCHANGED <<kind, tcfg, sal, sap, connected, tunnelReq, sessionReq>>

\* fsmActOnIcrp: the peer's session ID.
PeerAcceptsSession ==
  /\ stage = "session exchange"
  /\ \E id \in AssignedIDs : scfg' = [scfg EXCEPT !.psid = id]
  /\ stage' = "session"
  /\ UNCHANGED <<kind, tcfg, sal, sap, connected, tunnelReq, sessionReq, wireSid>>

NewSession ==
  /\ stage = "session"
  /\ sessionReq' = CreateSession(sessionCfgToNl(tcfg, scfg))
  /\ stage' = IF sessionReq'.ok THEN "session up" ELSE "session refused"
  /\ UNCHANGED <<kind, tcfg, scfg, sal, sap, connected, tunnelReq, wireSid>>

Next ==
  \/ Check \/ AddressPair \/ OpenSocket \/ SocketFails \/ PeerAnswers
  \/ NewTunnel \/ CheckSession \/ PeerAcceptsSession \/ NewSession

Spec == Init /\ [][Next]_vars
-----------------------------------------------------------------------------
\* What the kernel is asked for is a tunnel of the protocol, whichever way it
\* was configured: non-zero IDs that fit the version, L2TPv2 over UDP only, and
\* for a tunnel without a socket two addresses of one family with UDP ports.
KernelTunnelValid ==
  tunnelReq.ok =>
    LET v(type) == AttrValue(tunnelReq.attrs, type, 0) IN
    /\ v("ConnId") > 0 /\ v("PeerConnId") > 0
    /\ v("ProtoVersion") = 2 => /\ v("ConnId") < 65536 /\ v("PeerConnId") < 65536
                                /\ v("EncapType") = "udp"
    /\ HasAttr(tunnelReq.attrs, "Fd") => connected
    /\ ~HasAttr(tunnelReq.attrs, "Fd") =>
         /\ HasAttr(tunnelReq.attrs, "IpSaddr") <=> HasAttr(tunnelReq.attrs, "IpDaddr")
         /\ v("EncapType") = "udp" => v("UdpSport") # 0 /\ v("UdpDport") # 0

\* Reading the session's attributes back gives what was configured, by way of
\* sessionCfgToNl, sessionCreateAttr and sessionInfo_decode.
SessionAttrsDecode ==
  sessionReq.ok /\ scfg.peerCookie = <<>> =>
    sessionInfo_decode(sessionReq.attrs) =
      [tid |-> tcfg.tid, ptid |-> tcfg.ptid, sid |-> scfg.sid, psid |-> scfg.psid,
       ifName |-> scfg.interfaceName, localCookie |-> scfg.cookie, peerCookie |-> <<>>,
       sendSeq |-> scfg.seqNum, recvSeq |-> scfg.seqNum, lnsMode |-> FALSE,
       reorderTimeout |-> scfg.reorderTimeout]

\* peer_cookie is the cookie the peer's messages are checked against.
PeerCookieIsPeers ==
  sessionReq.ok => /\ sessionInfo_decode(sessionReq.attrs).peerCookie = scfg.peerCookie
                   /\ sessionInfo_decode(sessionReq.attrs).localCookie = scfg.cookie

\* The session IDs of an L2TPv2 tunnel are 16 bit, so that the ID a dynamic
\* peer is sent is the one the data plane uses.
V2SessionIDs16Bit ==
  sessionReq.ok /\ tcfg.version = 2 =>
    scfg.sid \in 1..65535 /\ (kind = "dynamic" => wireSid = scfg.sid)

\* GetSessionInfo retrieves what the kernel knows of the session: the kernel
\* answers with the attributes the session was made with.
SessionInfoRetrieved ==
  sessionReq.ok => GetSessionInfo(sessionReq.attrs).ifName = scfg.interfaceName
=============================================================================

------------------------------ MODULE MCCodecs ------------------------------
(***************************************************************************)
(* The components that turn data from one form into another, in one        *)
(* instance for TLC with inputs at the edges of what each accepts: a       *)
(* behaviour is one of one of them, and leaves the others alone.           *)
(***************************************************************************)
EXTENDS Avp, FiniteSetsExt

VARIABLES part,
          phase, frame, extended, buf, received,
          pPhase, sent, pBuf, parsed, reply, got,
          top, tunnelTable, sessionTable, todo, level, tunnelCfg, sessionCfg,
          kind, tcfg, scfg, stage, sal, sap, connected, tunnelReq, sessionReq, wireSid

-----------------------------------------------------------------------------
(* Control messages.  A peer may add a receive window size or a challenge  *)
(* response, which some messages may hold and others may not.              *)

ResultCodes == {[result |-> 2, errCode |-> 3, errMsg |-> << >>], [result |-> 1, errCode |-> 0, errMsg |-> <<98, 97>>]}
Optional == {newAvpHeader(TRUE, IETF, 10, <<0, 4>>), newAvpHeader(TRUE, IETF, 13, <<1, 2, 3>>)}

M == INSTANCE Messages
       WITH Kinds <- {"sccrq", "sccrp", "scccn", "hello", "stopccn", "v3hello", "zlb",
                      "icrq", "icrp", "iccn", "cdn"},
            IDs <- {0, 1, 256, 65535, 65536},
            HostNames <- {<<104>>, <<104, 111, 115, 116>>},
            ResultCodes <- ResultCodes,
            Extras <- Optional,
            Payloads <- {<< >>, <<0>>, <<0, 7>>, <<0, 7, 1>>, <<0, 0, 0, 1>>},
            MaxMessages <- 1
-----------------------------------------------------------------------------
(* PPPoE packets, with tags of types the package does and does not know.   *)

HostTag == [type |-> 259, data |-> <<1, 2>>]
OtherHostTag == [type |-> 259, data |-> << >>]
RelayTag == [type |-> 272, data |-> <<3>>]
UnknownTag == [type |-> 4660, data |-> <<0, 0, 0, 0>>]
EOLTag == [type |-> 0, data |-> << >>]

P == INSTANCE Pppoe
       WITH Services <- {<<65>>, <<66, 66>>},
            Requested <- {<< >>, <<65>>, <<66, 66>>, <<67>>},
            ACName <- <<97, 99>>,
            SIDs <- {1, 256, 65534},
            Tags <- {<< >>, <<HostTag>>, <<RelayTag>>, <<UnknownTag>>, <<HostTag, RelayTag>>,
                     <<RelayTag, HostTag>>, <<OtherHostTag, HostTag>>, <<UnknownTag, RelayTag, EOLTag>>},
            Padding <- 45,
            phase <- pPhase, buf <- pBuf
-----------------------------------------------------------------------------
(* Configuration files: tables of up to two keys at each level, with       *)
(* values at the edges of what each key accepts, and of the wrong type.    *)

MaxUint32 == 131071
Num(n) == [t |-> "int64", n |-> n]
Big(n) == [t |-> "uint64", n |-> n]
Str(s) == [t |-> "string", s |-> s]
Arr(a) == [t |-> "array", a |-> a]
Bool(b) == [t |-> "bool", b |-> b]
Table == [t |-> "table"]
ByteArr(n) == Arr([i \in 1..n |-> Num(255)])

TunnelValues ==
  [local |-> {Str("a"), Num(1)}, version |-> {Str("l2tpv2"), Str("l2tpv1"), Num(2)},
   encap |-> {Str("ip"), Str("gre")},
   tid |-> {Num(0), Num(-1), Big(MaxUint32), Big(MaxUint32 + 1), Str("1")},
   window_size |-> {Num(65535), Num(65536)}, retry_timeout |-> {Big(MaxUint32), Bool(TRUE)},
   max_retries |-> {Num(3)}, framing_caps |-> {Arr(<<Str("sync"), Str("sync")>>), Arr(<<>>), Arr(<<Num(1)>>), Str("sync")},
   session |-> {Table, Num(1)}, other |-> {Num(1)}]

SessionValues ==
  [sid |-> {Num(-1), Big(MaxUint32), Big(MaxUint32 + 1)}, pseudowire |-> {Str("pppac"), Str("atm")},
   seqnum |-> {Bool(TRUE), Num(1)}, cookie |-> {ByteArr(8), Arr(<<Num(256)>>), Arr(<<Num(-1)>>)},
   l2spec_type |-> {Str("none"), Str("")}, interface_name |-> {Str("l2tpeth42"), Num(42)},
   pppoe_session_id |-> {Num(65535), Num(65536)}, pppoe_peer_mac |-> {ByteArr(6)},
   reorder_timeout |-> {Num(0), Str("0")}, pppd_args |-> {Str("f"), Num(1)}, other |-> {Num(1)}]

\* Every table with the keys of K and values of the given sets.
TablesOver(K, values) == {f \in [K -> UNION {values[k] : k \in K}] : \A k \in K : f[k] \in values[k]}
TablesOf(n, values) == UNION {TablesOver(K, values) : K \in UNION {kSubset(i, DOMAIN values) : i \in 0..n}}

NoTable == [k \in {} |-> Table]
AnyTop == {NoTable, [tunnel |-> Table], [tunnel |-> Num(1)], [tunnel |-> Table, other |-> Num(1)]}
AnyTunnel == TablesOf(2, TunnelValues)
AnySession == TablesOf(2, SessionValues)
WithSession == {[session |-> Table], [session |-> Table, tid |-> Num(1)]}

\* Either the tunnel's table varies or the session's.
Files == (AnyTop \X AnyTunnel \X {NoTable}) \cup ({[tunnel |-> Table]} \X WithSession \X AnySession)

F == INSTANCE ConfigFile
       WITH CustomKeys <- {"pppd_args"}, TopTables <- AnyTop,
            TunnelTables <- AnyTunnel, SessionTables <- AnySession
-----------------------------------------------------------------------------
(* Tunnel and session configurations: every combination of values at the   *)
(* edges of the checks.                                                    *)

Addr(f, p) == [fam |-> f, port |-> p]
Unset == Addr("none", 0)
Cookie(n) == [i \in 1..n |-> 1]

AnyTunnelConfig ==
  [version : {0, 2, 3}, encap : {"udp", "ip"}, tid : {0, 65535, 65536}, ptid : {0, 1, 65536},
   local : {Unset, Addr("v4", 1701), Addr("v4", 0), Addr("v6", 0)}, peer : {Unset, Addr("bad", 0), Addr("v4", 1701)}]

GoodTunnelConfig ==
  [version : {2, 3}, encap : {"udp"}, tid : {7}, ptid : {0, 9},
   local : {Addr("v4", 1701)}, peer : {Addr("v4", 1701)}]

PlainSessionConfig ==
  [sid : {7}, psid : {9}, pseudowire : {"ppp"}, seqNum : {FALSE}, reorderTimeout : {0},
   cookie : {<<>>}, peerCookie : {<<>>}, interfaceName : {"l2tp0"}, l2SpecType : {"none"}]

AnySessionConfig ==
  [sid : {0, 7}, psid : {0, 9}, pseudowire : {"none", "ppp", "pppac", "eth", "ethvlan"},
   seqNum : BOOLEAN, reorderTimeout : {0, 20}, cookie : {Cookie(n) : n \in {0, 4, 5}},
   peerCookie : {<<>>}, interfaceName : {"", "l2tp0"}, l2SpecType : {"none", "default", "other"}]

\* Either the tunnel's configuration varies or the session's.
Configs == (AnyTunnelConfig \X PlainSessionConfig) \cup (GoodTunnelConfig \X AnySessionConfig)

V == INSTANCE Provision
       WITH Kinds <- {"dynamic", "quiescent", "static"},
            TunnelConfigs <- AnyTunnelConfig \cup GoodTunnelConfig, SessionConfigs <- AnySessionConfig,
            AssignedIDs <- {0, 1, 65535}, SocketErrors <- TRUE
-----------------------------------------------------------------------------
mVars == <<phase, frame, extended, buf, received>>
pVars == <<pPhase, sent, pBuf, parsed, reply, got>>
fVars == <<top, tunnelTable, sessionTable, todo, level, tunnelCfg, sessionCfg>>
vVars == <<kind, tcfg, scfg, stage, sal, sap, connected, tunnelReq, sessionReq, wireSid>>

\* One input for a component that is left alone.
InputsOf(p, inputs) == IF part = p THEN inputs ELSE {CHOOSE i \in inputs : TRUE}

Init ==
  /\ part \in {"messages", "pppoe", "config", "provision"}
  /\ M!Init /\ P!Init
  /\ \E f \in InputsOf("config", Files) : top = f[1] /\ tunnelTable = f[2] /\ sessionTable = f[3]
  /\ F!Init
  /\ \E c \in InputsOf("provision", Configs) : tcfg = c[1] /\ scfg = c[2]
  /\ kind \in InputsOf("provision", {"dynamic", "quiescent", "static"})
  /\ V!Init

Next ==
  /\ UNCHANGED part
  /\ IF part = "messages" THEN M!Next ELSE UNCHANGED mVars
  /\ IF part = "pppoe" THEN P!Next ELSE UNCHANGED pVars
  /\ IF part = "config" THEN F!Next ELSE UNCHANGED fVars
  /\ IF part = "provision" THEN V!Next ELSE UNCHANGED vVars

Spec == Init /\ [][Next]_<<part, mVars, pVars, fVars, vVars>>
-----------------------------------------------------------------------------
(* The properties of the instances, under their own names.                 *)

\* parseMessageBuffer reads from a message's bytes what toBytes wrote, and what
\* the builders make a receiver running the same code finds valid.
RoundTrip == M!RoundTrip

\* In a message that validate accepts, the AVPs that the handlers read are
\* present and can be decoded.
ValidHasWhatHandlersRead == M!ValidHasWhatHandlersRead

\* kpppoed parses the packet that was sent, padding and all, and answers with a
\* valid packet that echoes the client's tags.
AnswersFitRequests == P!AnswersFitRequests

\* A configuration file is loaded exactly when all of it is legal, whatever
\* the order in which its maps are walked, and then holds every value, whole.
LoadedAsWritten == F!LoadedAsWritten

\* Whatever was configured, the kernel is asked only for a tunnel that the
\* protocol allows.
KernelTunnelValid == V!KernelTunnelValid

\* The attributes of a session request decode to what was configured.
SessionAttrsDecode == V!SessionAttrsDecode
=============================================================================

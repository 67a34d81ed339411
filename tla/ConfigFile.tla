----------------------------- MODULE ConfigFile -----------------------------
(***************************************************************************)
(* Loading a configuration file (config/config.go): newConfig,             *)
(* loadTunnels, newTunnelConfig, loadSessions and newSessionConfig walk Go *)
(* maps, whose iteration order is arbitrary, and convert each value.  One  *)
(* tunnel table with one session table stands for any number, since tables *)
(* share nothing.  A value is a record of its TOML type t and its content. *)
(***************************************************************************)
EXTENDS Integers, Sequences, SequencesExt

CONSTANTS MaxUint32,   \* 2^32-1; smaller for TLC, whose integers are 32 bits
          CustomKeys,  \* session keys the application's ConfigParser takes
          TopTables, TunnelTables, SessionTables  \* what a file may hold

VARIABLES top, tunnelTable, sessionTable,  \* the input
          todo,        \* keys of each level not visited yet
          level,       \* "top", "tunnel" or "session", or "done" or "failed"
          tunnelCfg, sessionCfg            \* what has been stored, by key

vars == <<top, tunnelTable, sessionTable, todo, level, tunnelCfg, sessionCfg>>
-----------------------------------------------------------------------------
(* The conversions: a value, or an error.                                  *)

Ok(x) == [ok |-> TRUE, val |-> x]
Error == [ok |-> FALSE]

\* Mutant: a number too large is cut to size.
toUintTruncated(v, max) == IF v.t \in {"int64", "uint64"} THEN Ok(v.n % (max + 1)) ELSE Error

\* toByte, toUint16 and toUint32, which are alike.
toUint(v, max) == IF v.t \in {"int64", "uint64"} /\ v.n \in 0..max THEN Ok(v.n) ELSE Error

toString(v) == IF v.t = "string" THEN Ok(v.s) ELSE Error
toBool(v) == IF v.t = "bool" THEN Ok(v.b) ELSE Error

toEnum(v, legal) == IF v.t = "string" /\ v.s \in legal THEN Ok(v.s) ELSE Error
toVersion(v) == toEnum(v, {"l2tpv2", "l2tpv3"})
toEncapType(v) == toEnum(v, {"udp", "ip"})
toPseudowireType(v) == toEnum(v, {"ppp", "eth", "pppac"})
toL2SpecType(v) == toEnum(v, {"none", "default"})

\* The results for the elements of an array, put together; any bad one is
\* an error.
toArray(elems) ==
  IF \A i \in DOMAIN elems : elems[i].ok THEN Ok([i \in DOMAIN elems |-> elems[i].val]) ELSE Error
toBytes(v) ==
  IF v.t = "array" THEN toArray([i \in DOMAIN v.a |-> toUint(v.a[i], 255)]) ELSE Error

\* The capabilities are or-ed together: order and repetition are lost.
toFramingCaps(v) ==
  LET caps == IF v.t = "array"
              THEN toArray([i \in DOMAIN v.a |-> toEnum(v.a[i], {"sync", "async"})]) ELSE Error
  IN IF caps.ok THEN Ok(ToSet(caps.val)) ELSE Error

\* A duration is stored in nanoseconds, from milliseconds; kept in ms here.
toDurationMs(v) == toUint(v, MaxUint32)
toCCID(v) == toUint(v, MaxUint32)
-----------------------------------------------------------------------------
(* What a key does: store a value, leave the field alone, or fail.         *)

Stored(r) == IF r.ok THEN [r EXCEPT !.ok = "store"] ELSE [ok |-> "fail"]
Ignored == [ok |-> "ignore"]

\* pppoe_peer_mac declares an err of its own, so its errors are lost.
pppoePeerMac(v) ==
  LET mac == toBytes(v) IN IF mac.ok /\ Len(mac.val) = 6 THEN Stored(mac) ELSE Ignored

sessionKey(k, v) ==
  CASE k \in {"sid", "psid"} -> Stored(toCCID(v))
    [] k = "pseudowire" -> Stored(toPseudowireType(v))
    [] k = "seqnum" -> Stored(toBool(v))
    [] k = "reorder_timeout" -> Stored(toDurationMs(v))
    [] k \in {"cookie", "peer_cookie"} -> Stored(toBytes(v))
    [] k = "interface_name" -> Stored(toString(v))
    [] k = "l2spec_type" -> Stored(toL2SpecType(v))
    [] k = "pppoe_session_id" -> Stored(toUint(v, 65535))
    [] k = "pppoe_peer_mac" -> pppoePeerMac(v)
    [] OTHER -> IF k \in CustomKeys THEN Stored(toString(v)) ELSE Stored(Error)

\* max_retries too has an err of its own.
maxRetries(v) == IF toUint(v, 65535).ok THEN Stored(toUint(v, 65535)) ELSE Ignored

tunnelKey(k, v) ==
  CASE k \in {"local", "peer", "host_name"} -> Stored(toString(v))
    [] k = "encap" -> Stored(toEncapType(v))
    [] k = "version" -> Stored(toVersion(v))
    [] k \in {"tid", "ptid"} -> Stored(toCCID(v))
    [] k = "window_size" -> Stored(toUint(v, 65535))
    [] k \in {"hello_timeout", "retry_timeout"} -> Stored(toDurationMs(v))
    [] k = "max_retries" -> maxRetries(v)
    [] k = "framing_caps" -> Stored(toFramingCaps(v))
    [] OTHER -> Stored(Error)   \* no application takes other tunnel keys
-----------------------------------------------------------------------------
Empty == [k \in {} |-> 0]
With(cfg, k, x) == [j \in DOMAIN cfg \cup {k} |-> IF j = k THEN x ELSE cfg[j]]

Defaults == [framing_caps |-> {"sync", "async"}]

Init ==
  /\ top \in TopTables /\ tunnelTable \in TunnelTables /\ sessionTable \in SessionTables
  /\ todo = [top |-> DOMAIN top, tunnel |-> {}, session |-> {}]
  /\ level = "top"
  /\ tunnelCfg = Empty /\ sessionCfg = Empty

Visit(l, k) == level = l /\ k \in todo[l]

Fails == level' = "failed" /\ UNCHANGED <<tunnelCfg, sessionCfg, todo>>

\* "tunnel" must be a table of named tables; other keys are the ConfigParser's,
\* and no application but kpppoed takes one.
TopKey(k) ==
  /\ Visit("top", k)
  /\ IF k = "tunnel" /\ top[k].t = "table"
     THEN /\ level' = "tunnel"
          /\ todo' = [todo EXCEPT !.top = @ \ {k}, !.tunnel = DOMAIN tunnelTable]
          /\ tunnelCfg' = Defaults
          /\ UNCHANGED sessionCfg
     ELSE Fails
  /\ UNCHANGED <<top, tunnelTable, sessionTable>>

TunnelKey(k) ==
  /\ Visit("tunnel", k) /\ k # "session"
  /\ LET r == tunnelKey(k, tunnelTable[k]) IN
     \/ r.ok = "fail" /\ Fails
     \/ /\ r.ok # "fail"
        /\ tunnelCfg' = IF r.ok = "store" THEN With(tunnelCfg, k, r.val) ELSE tunnelCfg
        /\ todo' = [todo EXCEPT !.tunnel = @ \ {k}]
        /\ UNCHANGED <<level, sessionCfg>>
  /\ UNCHANGED <<top, tunnelTable, sessionTable>>

loadSessions ==
  /\ Visit("tunnel", "session")
  /\ IF tunnelTable["session"].t = "table"
     THEN /\ level' = "session"
          /\ todo' = [todo EXCEPT !.tunnel = @ \ {"session"}, !.session = DOMAIN sessionTable]
          /\ UNCHANGED <<tunnelCfg, sessionCfg>>
     ELSE Fails
  /\ UNCHANGED <<top, tunnelTable, sessionTable>>

SessionKey(k) ==
  /\ Visit("session", k)
  /\ LET r == sessionKey(k, sessionTable[k]) IN
     \/ r.ok = "fail" /\ Fails
     \/ /\ r.ok # "fail"
        /\ sessionCfg' = IF r.ok = "store" THEN With(sessionCfg, k, r.val) ELSE sessionCfg
        /\ todo' = [todo EXCEPT !.session = @ \ {k}]
        /\ UNCHANGED <<level, tunnelCfg>>
  /\ UNCHANGED <<top, tunnelTable, sessionTable>>

\* A map has been walked: back to the one it is in.
WalkEnds ==
  /\ level \in {"top", "tunnel", "session"} /\ todo[level] = {}
  /\ level' = CASE level = "session" -> "tunnel" [] level = "tunnel" -> "top" [] level = "top" -> "done"
  /\ UNCHANGED <<top, tunnelTable, sessionTable, todo, tunnelCfg, sessionCfg>>

Keys(tables) == UNION {DOMAIN t : t \in tables}

Next ==
  \/ \E k \in Keys(TopTables) : TopKey(k)
  \/ \E k \in Keys(TunnelTables) : TunnelKey(k)
  \/ loadSessions
  \/ \E k \in Keys(SessionTables) : SessionKey(k)
  \/ WalkEnds

Spec == Init /\ [][Next]_vars
-----------------------------------------------------------------------------
(* What the package's documentation says a file may contain.               *)

IsUint(v, max) == v.t \in {"int64", "uint64"} /\ v.n >= 0 /\ v.n <= max
IsString(v) == v.t = "string"
IsOneOf(v, legal) == v.t = "string" /\ v.s \in legal
IsBytes(v) == v.t = "array" /\ \A i \in DOMAIN v.a : IsUint(v.a[i], 255)

LegalTunnel(k, v) ==
  CASE k \in {"local", "peer", "host_name"} -> IsString(v)
    [] k = "encap" -> IsOneOf(v, {"udp", "ip"})
    [] k = "version" -> IsOneOf(v, {"l2tpv2", "l2tpv3"})
    [] k \in {"tid", "ptid", "hello_timeout", "retry_timeout"} -> IsUint(v, MaxUint32)
    [] k \in {"window_size", "max_retries"} -> IsUint(v, 65535)
    [] k = "framing_caps" -> v.t = "array" /\ \A i \in DOMAIN v.a : IsOneOf(v.a[i], {"sync", "async"})
    [] k = "session" -> v.t = "table"
    [] OTHER -> FALSE

LegalSession(k, v) ==
  CASE k \in {"sid", "psid", "reorder_timeout"} -> IsUint(v, MaxUint32)
    [] k = "pseudowire" -> IsOneOf(v, {"ppp", "eth", "pppac"})
    [] k = "seqnum" -> v.t = "bool"
    [] k \in {"cookie", "peer_cookie"} -> IsBytes(v)
    [] k = "pppoe_peer_mac" -> IsBytes(v) /\ Len(v.a) = 6
    [] k = "l2spec_type" -> IsOneOf(v, {"none", "default"})
    [] k = "pppoe_session_id" -> IsUint(v, 65535)
    [] k = "interface_name" \/ k \in CustomKeys -> IsString(v)
    [] OTHER -> FALSE

\* The content of a value, whatever its TOML representation.
Content(v) ==
  CASE v.t \in {"int64", "uint64"} -> v.n [] v.t = "bool" -> v.b [] v.t = "string" -> v.s
    [] v.t = "array" -> [i \in DOMAIN v.a |-> IF v.a[i].t = "string" THEN v.a[i].s ELSE v.a[i].n]

LegalFile ==
  /\ DOMAIN top \subseteq {"tunnel"} /\ \A k \in DOMAIN top : top[k].t = "table"
  /\ "tunnel" \in DOMAIN top =>
       /\ \A k \in DOMAIN tunnelTable : LegalTunnel(k, tunnelTable[k])
       /\ "session" \in DOMAIN tunnelTable =>
            \A k \in DOMAIN sessionTable : LegalSession(k, sessionTable[k])

\* A file is loaded exactly when every value in it is legal, in whatever order
\* the maps are walked: one bad value anywhere refuses the whole file (the
\* error returns of newConfig and the functions it calls).  A loaded
\* configuration says what the file says: each key that was written holds its
\* value, whole, and the framing capabilities default to both.
LoadedAsWritten ==
  /\ level = "done" => LegalFile
  /\ level = "failed" => ~LegalFile
  /\ level = "done" /\ "tunnel" \in DOMAIN top =>
       /\ \A k \in DOMAIN tunnelTable \ {"session", "framing_caps"} :
            k \in DOMAIN tunnelCfg /\ tunnelCfg[k] = Content(tunnelTable[k])
       /\ tunnelCfg["framing_caps"] = IF "framing_caps" \in DOMAIN tunnelTable
                                      THEN ToSet(Content(tunnelTable["framing_caps"]))
                                      ELSE {"sync", "async"}
       /\ "session" \in DOMAIN tunnelTable =>
            \A k \in DOMAIN sessionTable :
              k \in DOMAIN sessionCfg /\ sessionCfg[k] = Content(sessionTable[k])

\* A number that does not fit the type it is stored in is refused.
NumbersRangeChecked ==
  level = "done" /\ "tunnel" \in DOMAIN top /\ "max_retries" \in DOMAIN tunnelTable =>
    LegalTunnel("max_retries", tunnelTable["max_retries"])

\* A MAC address that is not six bytes long is refused.
MacChecked ==
  level = "done" /\ {"tunnel"} \subseteq DOMAIN top /\ "session" \in DOMAIN tunnelTable
  /\ "pppoe_peer_mac" \in DOMAIN sessionTable =>
    LegalSession("pppoe_peer_mac", sessionTable["pppoe_peer_mac"])
=============================================================================

-------------------------------- MODULE Avp --------------------------------
(***************************************************************************)
(* Attribute value pairs (l2tp/avp.go), the body of L2TP control messages: *)
(* what is written for a value and what is read back.                      *)
(***************************************************************************)
EXTENDS Bytes

avpTypeMessage == 0
avpTypeResultCode == 1
avpTypeProtocolVersion == 2
avpTypeFramingCap == 3
avpTypeHostName == 7
avpTypeTunnelID == 9
avpTypeQ931CauseCode == 12
avpTypeSessionID == 14
avpTypeCallSerialNumber == 15
avpTypeFramingType == 19
avpTypeConnectSpeed == 24

\* Whether an AVP of the type is sent with the M bit.
MandatoryTypes == {0, 1, 3, 4, 7} \cup (9..19) \cup (21..24) \cup (34..36) \cup {39}

dataTypeOf(t) ==
  CASE t = 0                                          -> "msgid"
    [] t = 1                                          -> "resultcode"
    [] t \in {6, 9, 10, 14, 29} \cup (68..71)         -> "uint16"
    [] t \in {3, 4, 15, 16, 17, 18, 19, 24, 25, 38, 60, 61, 63, 64} -> "uint32"
    [] t \in {74, 75}                                 -> "uint64"
    [] t \in {7, 8, 21, 22, 23, 30, 37}               -> "string"
    [] t \in {2, 5, 11, 13, 26, 27, 28, 31, 32, 33, 36, 59, 65, 66, 72, 73} -> "bytes"
    [] t = 39                                         -> "empty"
    [] t \in {12, 20, 34, 35, 62}                     -> "unimplemented"
    [] OTHER                                          -> "illegal"

\* getAVPInfo: the table has every type from 0 to 75 of the IETF's.
IETF == 0
Known(vendor, t) == vendor = IETF /\ t \in 0..75
-----------------------------------------------------------------------------
(* Writing.                                                                *)

encodeResultCode(rc) == uint16Bytes(rc.result) \o uint16Bytes(rc.errCode) \o rc.errMsg

\* A value is given with its Go type, which must be the AVP's.  The case for
\* AVPs without a value leaves ok unset: they are refused too.
encodePayload(t, value) ==
  CASE value.type # dataTypeOf(t) -> Err
    [] value.type \in {"uint16", "msgid"} -> Ok(uint16Bytes(value.v))
    [] value.type = "uint32" -> Ok(uint32Bytes(value.v))
    [] value.type \in {"string", "bytes"} -> Ok(value.v)
    [] value.type = "resultcode" -> Ok(encodeResultCode(value.v))
    [] OTHER -> Err

avpHeaderLen == 6

\* The length takes 10 bits of its field.
newAvpHeader(mand, vendor, t, data) ==
  [mand |-> mand, vendor |-> vendor, type |-> t,
   totalLen |-> (Len(data) + avpHeaderLen) % 1024, data |-> data]

newAvp(t, value) ==
  LET buf == encodePayload(t, value) IN
  IF Known(IETF, t) /\ buf.ok
  THEN Ok(newAvpHeader(t \in MandatoryTypes, IETF, t, buf.v)) ELSE Err

avpBytes(a) ==
  uint16Bytes((IF a.mand THEN 32768 ELSE 0) + a.totalLen)
    \o uint16Bytes(a.vendor) \o uint16Bytes(a.type) \o a.data
-----------------------------------------------------------------------------
(* Reading.                                                                *)

\* Reads the AVPs from offset pos on.  One that is not known is passed over by
\* the length of its header.  A length shorter than the header's is no bound
\* of a slice.
RECURSIVE parseFrom(_, _)
parseFrom(b, pos) ==
  IF Len(b) - pos < avpHeaderLen THEN Ok(<< >>)
  ELSE LET flagLen == uint16At(b, pos + 1)
           mand == flagLen >= 32768
           totalLen == flagLen % 1024
           vendor == uint16At(b, pos + 3)
           t == uint16At(b, pos + 5)
           a == [mand |-> mand, vendor |-> vendor, type |-> t, totalLen |-> totalLen,
                 data |-> SubSeq(b, pos + avpHeaderLen + 1, pos + totalLen)]
       IN CASE ~Known(vendor, t) /\ mand -> Err
            [] ~Known(vendor, t) /\ ~mand -> parseFrom(b, pos + avpHeaderLen)
            [] Known(vendor, t) /\ totalLen > Len(b) - pos -> Err
            [] Known(vendor, t) /\ totalLen < avpHeaderLen -> Panic
            [] OTHER -> LET rest == parseFrom(b, pos + totalLen) IN
                        IF rest.ok THEN Ok(<<a>> \o rest.v) ELSE rest

parseAVPBuffer(b) ==
  LET avps == parseFrom(b, 0) IN IF avps = Ok(<< >>) THEN Err ELSE avps

toUint(data, size) ==
  IF Len(data) # size THEN Err
  ELSE Ok(IF size = 2 THEN uint16At(data, 1) ELSE 65536 * uint16At(data, 1) + uint16At(data, 3))

toResultCode(data) ==
  IF Len(data) < 2 \/ Len(data) = 3 THEN Err
  ELSE Ok([result |-> uint16At(data, 1),
           errCode |-> IF Len(data) > 2 THEN uint16At(data, 3) ELSE 0,
           errMsg |-> SubSeq(data, 5, Len(data))])

decode(a) ==
  LET dt == dataTypeOf(a.type) IN
  CASE dt = "empty" -> Ok(<< >>)
    [] dt \in {"uint16", "msgid"} -> toUint(a.data, 2)
    [] dt = "uint32" -> toUint(a.data, 4)
    [] dt = "uint64" -> IF Len(a.data) = 8 THEN Ok(a.data) ELSE Err
    [] dt \in {"string", "bytes"} -> Ok(a.data)
    [] dt = "resultcode" -> toResultCode(a.data)
    [] OTHER -> Err

\* findAvp and the find functions for each type: the first AVP of the type.
find(avps, t, dt) ==
  LET at == {i \in DOMAIN avps : avps[i].vendor = IETF /\ avps[i].type = t}
  IN IF at = {} \/ dataTypeOf(t) # dt THEN Err
     ELSE decode(avps[CHOOSE i \in at : \A j \in at : i <= j])
=============================================================================

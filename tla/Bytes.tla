------------------------------- MODULE Bytes -------------------------------
(***************************************************************************)
(* Buffers as sequences of bytes, numbers in network byte order as         *)
(* encoding/binary writes and reads them, and results that may be errors.  *)
(***************************************************************************)
EXTENDS Integers, Sequences

Ok(v) == [ok |-> TRUE, v |-> v]
Err == [ok |-> FALSE, v |-> << >>]
Panic == [ok |-> FALSE, v |-> <<"panic">>]

uint16Bytes(n) == <<n \div 256, n % 256>>

\* Numbers of 32 bits stay below 2^31.
uint32Bytes(n) == uint16Bytes(n \div 65536) \o uint16Bytes(n % 65536)

uint16At(b, i) == 256 * b[i] + b[i + 1]
=============================================================================

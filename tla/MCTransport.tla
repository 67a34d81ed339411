---------------------------- MODULE MCTransport ----------------------------
(* Instances of Transport for TLC.                                         *)
EXTENDS Transport

OneWay1  == [n \in Node |-> IF n = "a" THEN 1 ELSE 0]
OneWay2  == [n \in Node |-> IF n = "a" THEN 2 ELSE 0]
OneWay3  == [n \in Node |-> IF n = "a" THEN 3 ELSE 0]
OneWay5  == [n \in Node |-> IF n = "a" THEN 5 ELSE 0]
BothWays == [n \in Node |-> 1]
Nobody   == {}
Both     == Node
JustA    == {"a"}
=============================================================================

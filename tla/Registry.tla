------------------------------ MODULE Registry ------------------------------
(***************************************************************************)
(* The pair of maps, by name and by ID, in which a context keeps its       *)
(* tunnels and a tunnel its sessions (l2tp/l2tp.go).  Each operation runs  *)
(* under the lock of the maps, so an operator is one atomic step; a check  *)
(* and the link that relies on it are two.  An object o has name[o] and    *)
(* id[o].                                                                  *)
(***************************************************************************)
EXTENDS Naturals

Nobody == "nobody"

NewRegistry(Names, IDs) == [byName |-> [n \in Names |-> Nobody], byID |-> [i \in IDs |-> Nobody]]

link(reg, o, n, i) == [byName |-> [reg.byName EXCEPT ![n] = o],
                       byID |-> [reg.byID EXCEPT ![i] = o]]

\* Entries are deleted by key: whoever is there.
unlink(reg, n, i) == [byName |-> [reg.byName EXCEPT ![n] = Nobody],
                      byID |-> [reg.byID EXCEPT ![i] = Nobody]]

findByName(reg, n) == reg.byName[n] # Nobody
findByID(reg, i) == reg.byID[i] # Nobody

Linked(reg) == {reg.byName[n] : n \in DOMAIN reg.byName} \ {Nobody}

\* closeAllSessions and Context.Close take what is in byName, and delete the
\* ID of each.
takeAll(reg, id) ==
  [byName |-> [n \in DOMAIN reg.byName |-> Nobody],
   byID |-> [i \in DOMAIN reg.byID |-> IF \E o \in Linked(reg) : id[o] = i THEN Nobody ELSE reg.byID[i]]]

\* allocTid and allocSid draw up to ten random IDs and return the first that
\* is free, or an error.  The IDs drawn include zero.
allocatable(reg) == {i \in DOMAIN reg.byID : ~findByID(reg, i)}
=============================================================================

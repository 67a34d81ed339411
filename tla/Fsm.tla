-------------------------------- MODULE Fsm --------------------------------
(***************************************************************************)
(* The table-driven state machine of l2tp/fsm.go.  A table is a set of     *)
(* rows; tunnel and session give theirs in DynamicTunnel and               *)
(* DynamicSession.  The code takes the first row that matches; no table of *)
(* the repository has two for one state and event, so a set will do.       *)
(***************************************************************************)

\* One row: in state from, each of events moves to "to" and calls cb.
Row(from, events, cb, to) ==
  [from |-> from, events |-> events, cb |-> cb, to |-> to]

RowsFor(table, current, ev) ==
  {r \in table : r.from = current /\ ev \in r.events}

\* handleEvent() returns an error, and changes nothing, without a row.
Handles(table, current, ev) == RowsFor(table, current, ev) # {}

\* The state is set to "to" before the callback runs.
StateAfter(table, current, ev) == (CHOOSE r \in RowsFor(table, current, ev) : TRUE).to

Callback(table, current, ev) == (CHOOSE r \in RowsFor(table, current, ev) : TRUE).cb
=============================================================================

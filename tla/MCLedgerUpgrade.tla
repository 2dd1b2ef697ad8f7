-------------------------- MODULE MCLedgerUpgrade --------------------------
(***************************************************************************)
(* LedgerUpgrade for TLC, in two scenarios.  Flood: announcements in a     *)
(* triangle, where a message can come back to who sent it, before any      *)
(* ledger is closed.  Replaced: an upgrade while programs are replaced,    *)
(* with a validator that is down and a faulty one, announcements of it     *)
(* still arriving after it was made.                                       *)
(***************************************************************************)
EXTENDS LedgerUpgrade

CONSTANTS a, b, c, d

BothWays(edges) == edges \cup {<<e[2], e[1]>> : e \in edges}

Flood == [live |-> {a, b, c}, link |-> BothWays({<<a, b>>, <<b, c>>, <<a, c>>}),
          newer |-> {a}, sent |-> 1, restarts |-> 1, seq |-> 0]
Replaced == [live |-> {a, b, d}, link |-> BothWays({<<a, b>>, <<a, d>>}),
             newer |-> {a}, sent |-> 1, restarts |-> 1, seq |-> 2]
Scenarios == {Flood, Replaced}
=============================================================================

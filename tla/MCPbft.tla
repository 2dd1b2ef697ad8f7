------------------------------- MODULE MCPbft -------------------------------
(***************************************************************************)
(* Pbft for TLC: two block contents.                                       *)
(***************************************************************************)
EXTENDS Pbft

CONSTANTS a, b

\* Leaders of different views propose different contents.
FreshByView(v) == IF v = 0 THEN {a} ELSE {b}

\* A leader may propose either, so that a second proposal in one view differs.
FreshAny(v) == {a, b}
=============================================================================

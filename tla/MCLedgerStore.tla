--------------------------- MODULE MCLedgerStore ----------------------------
(***************************************************************************)
(* LedgerStore for TLC: the cfg files give the constants.                  *)
(***************************************************************************)
EXTENDS LedgerStore
=============================================================================

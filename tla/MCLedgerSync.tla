---------------------------- MODULE MCLedgerSync ----------------------------
(***************************************************************************)
(* LedgerSync for TLC: the cfg gives the constants.                        *)
(***************************************************************************)
EXTENDS LedgerSync

\* The bad peers have the whole chain, the good ones all of it but the last
\* ledger, which they close while the node catches up.
ThePeers == [p \in Peer |-> IF p \in Bad THEN MaxSeq ELSE MaxSeq - 1]
=============================================================================

--------------------------- MODULE MCLedgerApply ---------------------------
(***************************************************************************)
(* Instances of LedgerApply: two users and an account that does not exist  *)
(* yet, and transactions that pay, that may overdraw half way, that run    *)
(* out of gas or out of time, or that follow on one another's nonces.      *)
(***************************************************************************)
EXTENDS LedgerApply

CONSTANTS u, v, w, pay, part, gas

Pay(d, n) == [dest |-> d, amount |-> n]

\* gas follows on pay and runs a contract that costs more than its limit.  The
\* second payment of part is one that v can afford only after rewards.
TheTxs ==
    [x \in Tx |->
       CASE x = pay  -> [source |-> u, nonce |-> 1, fee_limit |-> 3, self |-> 1,
                         fee |-> 2, ops |-> <<Pay(w, 4)>>]
         [] x = gas  -> [source |-> u, nonce |-> 2, fee_limit |-> 2, self |-> 1,
                         fee |-> 3, ops |-> <<>>]
         [] x = part -> [source |-> v, nonce |-> 1, fee_limit |-> 2, self |-> 1,
                         fee |-> 2, ops |-> <<Pay(u, 3), Pay(w, 6)>>]]

TheGenesis ==
    [a \in Account |-> CASE a = u -> [balance |-> 12, nonce |-> 0]
                         [] a = v -> [balance |-> 11, nonce |-> 0]
                         [] a = w -> NoAccount]

TheRewarded == <<u, v>>
=============================================================================

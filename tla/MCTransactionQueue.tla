------------------------ MODULE MCTransactionQueue --------------------------
(***************************************************************************)
(* TransactionQueue for TLC: two accounts.                                 *)
(***************************************************************************)
EXTENDS TransactionQueue

CONSTANTS x, y

T(a, n, p) == [acct |-> a, nonce |-> n, price |-> p]

\* Three nonces of x, the second at a price 10 percent higher as well, and two
\* nonces of y.
PoolTx == {T(x, 1, 10), T(x, 2, 10), T(x, 2, 11), T(x, 3, 10), T(y, 1, 10), T(y, 2, 11)}
=============================================================================

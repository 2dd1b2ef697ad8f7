-------------------------- MODULE TransactionQueue --------------------------
(***************************************************************************)
(* The transaction pool of glue/transaction_queue.cpp and the four users   *)
(* of it in glue/glue_manager.cpp: OnTransaction, StartConsensus,          *)
(* OnValueCommited and OnTimer.                                            *)
(*                                                                         *)
(* Clients and peers submit transactions on several threads; consensus and *)
(* the timers run on the main thread; ledger sync closes blocks on the     *)
(* network thread.  Every method of the pool holds the pool's lock, so it  *)
(* is one step, but the callers hold nothing between two calls.            *)
(***************************************************************************)
EXTENDS Integers, FiniteSets, Sequences, Functions

CONSTANTS
    Tx,                 \* transactions: records [acct, nonce, price]
    queue_limit,        \* size of the pool
    account_txs_limit,  \* transactions of one account in the pool
    max_trans,          \* max_trans_per_ledger_
    Failures,           \* subset of BOOLEAN: may OnConsent fail to close?
    MaxNonce,           \* bound: highest nonce of an account in the ledger
    MaxImports,         \* bound: concurrent OnTransaction calls
    MaxBlock            \* bound: transactions in a block

ASSUME Limits ==
    /\ queue_limit \in Nat \ {0} /\ account_txs_limit \in Nat \ {0}
    /\ max_trans \in Nat /\ MaxBlock \in Nat
    /\ \A t \in Tx : t.nonce \in Int /\ t.price \in Int

VARIABLES
    pool,           \* the TransactionQueue
    importing,      \* OnTransaction calls between CheckValid and Import
    main,           \* what the main thread holds between two calls
    ledger_nonce    \* nonce of every account in the last closed ledger

vars == <<pool, importing, main, ledger_nonce>>

Account == {t.acct : t \in Tx}

Idle == [op |-> "idle", txs |-> <<>>]

EmptyPool ==
    [queue |-> <<>>, time_queue |-> {}, by_nonce |-> {}, by_hash |-> {},
     account_nonce |-> [a \in {} |-> 0]]

-----------------------------------------------------------------------------
(* The methods of TransactionQueue, as functions of the pool.              *)

\* emplace and erase on queue_, kept as the sequence of its elements.
Emplaced(s, i, t) == SubSeq(s, 1, i) \o <<t>> \o SubSeq(s, i + 1, Len(s))

Erased(s, i) == SubSeq(s, 1, i - 1) \o SubSeq(s, i + 1, Len(s))

WithNonce(f, a, n) == [x \in DOMAIN f \cup {a} |-> IF x = a THEN n ELSE f[x]]

Slot(p, a, n) == {t \in p.by_nonce : t.acct = a /\ t.nonce = n}

RemoveKeepingNonce(p, a, n) ==
    LET S == Slot(p, a, n) IN
    [queue |-> IF S = {} THEN p.queue
               ELSE Erased(p.queue, CHOOSE i \in DOMAIN p.queue : p.queue[i] \in S),
     time_queue |-> p.time_queue \ S,
     by_nonce |-> p.by_nonce \ S,
     by_hash |-> p.by_hash \ S,
     account_nonce |-> p.account_nonce]

\* Both overloads of Remove: out of all four indexes, and the account's nonce
\* goes with its last transaction.
RemoveTx(p, a, n) ==
    LET q == RemoveKeepingNonce(p, a, n)
        last == Slot(p, a, n) # {} /\ ~ \E t \in q.by_nonce : t.acct = a
    IN  [q EXCEPT !.account_nonce =
            [x \in (IF last THEN DOMAIN @ \ {a} ELSE DOMAIN @) |-> @[x]]]

\* PriorityCompare: by distance to the account's nonce, then by gas price.
Height(p, t) == t.nonce - p.account_nonce[t.acct]

Less(p, t, u) ==
    \/ Height(p, t) < Height(p, u)
    \/ Height(p, t) = Height(p, u) /\ t.price > u.price

\* Where queue_.emplace can put t: the multiset compares t with both of its
\* new neighbours.  account_nonce_ changes under the elements, so the queue
\* need not be sorted and there may be several such places; the tree's shape
\* decides between them.
Places(p, t) ==
    {i \in 0 .. Len(p.queue) :
        /\ i > 0 => ~ Less(p, t, p.queue[i])
        /\ i < Len(p.queue) => Less(p, t, p.queue[i + 1])}

Insert(p, t, i) ==
    [queue |-> Emplaced(p.queue, i, t),
     time_queue |-> p.time_queue \cup {t},
     by_nonce |-> p.by_nonce \cup {t},
     by_hash |-> p.by_hash \cup {t},
     account_nonce |-> p.account_nonce]

EvictLastLate(p) ==
    IF Len(p.queue) <= queue_limit + 1 THEN p
    ELSE LET t == p.queue[Len(p.queue)] IN RemoveTx(p, t.acct, t.nonce)

\* The end of Import: the pool is over its limit by at most one.
EvictLast(p) ==
    IF Len(p.queue) <= queue_limit THEN p
    ELSE LET t == p.queue[Len(p.queue)] IN RemoveTx(p, t.acct, t.nonce)

OutbidsAlways(t, old) == TRUE

\* A replacement must offer at least a tenth more.
Outbids(t, old) == (t.price - old.price) * 10 >= old.price

CountOf(p, a) == Cardinality({t \in p.by_nonce : t.acct = a})

\* Import: the pools that importing t with the nonce read earlier may give.
Imported(p, t, nonce) ==
    LET q == [p EXCEPT !.account_nonce = WithNonce(@, t.acct, nonce)]
        S == Slot(q, t.acct, t.nonce)
        replace == \E old \in S : Outbids(t, old)
        r == IF replace
               THEN [RemoveTx(q, t.acct, t.nonce) EXCEPT
                        !.account_nonce = WithNonce(@, t.acct, nonce)]
               ELSE q
    IN  IF S # {} /\ ~replace THEN {q}
        ELSE IF replace \/ CountOf(q, t.acct) < account_txs_limit
          THEN {EvictLast(Insert(r, t, i)) : i \in Places(r, t)}
        ELSE {q}

TopTransactionGaps(p, limit) ==
    SubSeq(p.queue, 1, IF limit < Len(p.queue) THEN limit ELSE Len(p.queue))

Visited(p, limit, acc, t) ==
    LET last == IF t.acct \in DOMAIN acc.seqs THEN acc.seqs[t.acct]
                ELSE p.account_nonce[t.acct]
    IN  IF Len(acc.txs) >= limit \/ t.acct \in acc.broken THEN acc
        ELSE IF t.nonce > last + 1 THEN [acc EXCEPT !.broken = @ \cup {t.acct}]
        ELSE [acc EXCEPT !.seqs = WithNonce(@, t.acct, t.nonce),
                         !.txs = Append(@, t)]

\* What TopTransaction has found after each transaction of the queue.
Visits(p, limit) ==
    LET after[i \in 0 .. Len(p.queue)] ==
            IF i = 0 THEN [txs |-> <<>>, broken |-> {}, seqs |-> [a \in {} |-> 0]]
            ELSE Visited(p, limit, after[i - 1], p.queue[i])
    IN  after

\* TopTransaction: walks the queue, skips an account at its first nonce gap.  The
\* limit on bytes ends the walk earlier and leaves a prefix, as Propose takes one.
TopTransaction(p, limit) == Visits(p, limit)[Len(p.queue)].txs

RemovedAnyReason(p, t, close_ledger) ==
    LET q == RemoveTx(p, t.acct, t.nonce) IN
    IF t.acct \in DOMAIN q.account_nonce /\ q.account_nonce[t.acct] < t.nonce
      THEN [q EXCEPT !.account_nonce[t.acct] = t.nonce] ELSE q

\* One turn of RemoveTxs: by account and nonce, whatever the content.
Removed(p, t, close_ledger) ==
    LET q == RemoveTx(p, t.acct, t.nonce) IN
    IF close_ledger /\ t.acct \in DOMAIN q.account_nonce /\ q.account_nonce[t.acct] < t.nonce
      THEN [q EXCEPT !.account_nonce[t.acct] = t.nonce] ELSE q

\* The pool after each removal of RemoveTxs.
Removals(p, txs, close_ledger) ==
    LET after[i \in 0 .. Len(txs)] ==
            IF i = 0 THEN p ELSE Removed(after[i - 1], txs[i], close_ledger)
    IN  after

\* RemoveTxs(set, close_ledger).
RemoveTxs(p, txs, close_ledger) == Removals(p, txs, close_ledger)[Len(txs)]

-----------------------------------------------------------------------------
(* Clients and peers.                                                      *)

\* OnTransaction up to CheckValid: not in the pool, and its nonce is still to
\* come for the account; the account's nonce is read from the ledger.
CheckValid(t) ==
    /\ Cardinality(importing) < MaxImports
    /\ t \notin pool.by_hash
    /\ t.nonce > ledger_nonce[t.acct]
    /\ importing' = importing \cup {[tx |-> t, nonce |-> ledger_nonce[t.acct]]}
    /\ UNCHANGED <<pool, main, ledger_nonce>>

\* The rest of OnTransaction.
Import(i) ==
    /\ importing' = importing \ {i}
    /\ pool' \in Imported(pool, i.tx, i.nonce)
    /\ UNCHANGED <<main, ledger_nonce>>

-----------------------------------------------------------------------------
(* The main thread.                                                        *)

\* One turn of ApplyPropose: a transaction must carry the next nonce of its
\* account; one in bad fails another check (signature, fee).
Applied(acc, t, bad) ==
    IF t \notin bad /\ t.nonce = acc.nonce[t.acct] + 1
      THEN [acc EXCEPT !.nonce[t.acct] = t.nonce, !.kept = Append(@, t)]
      ELSE [acc EXCEPT !.dropped = Append(@, t)]

\* What ApplyPropose has found after each transaction.
Applications(txs, bad) ==
    LET after[i \in 0 .. Len(txs)] ==
            IF i = 0 THEN [nonce |-> ledger_nonce, kept |-> <<>>, dropped |-> <<>>]
            ELSE Applied(after[i - 1], txs[i], bad)
    IN  after

ApplyPropose(txs, bad) == Applications(txs, bad)[Len(txs)]

\* StartConsensus on the leader takes the transactions of the next block, ...
StartConsensus ==
    /\ main = Idle
    /\ main' = [op |-> "top", txs |-> TopTransaction(pool, max_trans)]
    /\ UNCHANGED <<pool, importing, ledger_nonce>>

\* ... executes them, after a block timeout a shorter prefix, and removes the
\* ones ApplyPropose dropped.
Propose(n, bad) ==
    /\ main.op = "top"
    /\ pool' = RemoveTxs(pool, ApplyPropose(SubSeq(main.txs, 1, n), bad).dropped,
                         FALSE)
    /\ main' = Idle
    /\ UNCHANGED <<importing, ledger_nonce>>

\* The non-empty blocks that extend the ledger.
Blocks ==
    {b \in UNION {[1 .. m -> Tx] : m \in 1 .. MaxBlock} :
        /\ \A t \in Range(b) : t.nonce <= MaxNonce
        /\ ApplyPropose(b, {}).dropped = <<>>}

\* OnValueCommited closes the ledger of a committed value, which need not come
\* from this node; OnConsent may fail and OnValueCommited does not notice ...
OnConsent(b, failed) ==
    /\ main = Idle
    /\ main' = [op |-> "commited", txs |-> b]
    /\ ledger_nonce' = IF failed THEN ledger_nonce ELSE ApplyPropose(b, {}).nonce
    /\ UNCHANGED <<pool, importing>>

\* ... and removes its transactions from the pool.
OnValueCommited ==
    /\ main.op = "commited"
    /\ pool' = RemoveTxs(pool, main.txs, TRUE)
    /\ main' = Idle
    /\ UNCHANGED <<importing, ledger_nonce>>

\* The transactions of S in some order.
Listed(S) == CHOOSE s \in [1 .. Cardinality(S) -> S] : IsInjective(s)

\* OnTimer: CheckTimeoutAndDel removes the oldest transactions.  Incoming times
\* are set by the submitting threads, so any set may be the oldest ones.
OnTimer(S) ==
    /\ main = Idle
    /\ S # {}
    /\ pool' = RemoveTxs(pool, Listed(S), FALSE)
    /\ UNCHANGED <<importing, main, ledger_nonce>>

-----------------------------------------------------------------------------
(* The network thread: a ledger closed by sync does not touch the pool.    *)

SyncClose(b) ==
    /\ ledger_nonce' = ApplyPropose(b, {}).nonce
    /\ UNCHANGED <<pool, importing, main>>

Init ==
    /\ pool = EmptyPool
    /\ importing = {}
    /\ main = Idle
    /\ ledger_nonce = [a \in Account |-> 0]

Next ==
    \/ \E t \in Tx : CheckValid(t)
    \/ \E i \in importing : Import(i)
    \/ StartConsensus
    \/ \E n \in 0 .. Len(main.txs), bad \in SUBSET Range(main.txs) : Propose(n, bad)
    \/ \E b \in Blocks, failed \in Failures : OnConsent(b, failed)
    \/ OnValueCommited
    \/ \E S \in SUBSET pool.time_queue : OnTimer(S)
    \/ \E b \in Blocks : SyncClose(b)

Spec == Init /\ [][Next]_vars

-----------------------------------------------------------------------------

\* The four indexes of the pool hold the same transactions, one for each
\* account and nonce, and account_nonce_ has the accounts that have one:
\* PriorityCompare and TopTransaction never look up an account that is gone.
IndexesAgree ==
    LET S == pool.by_nonce IN
    /\ Range(pool.queue) = S /\ Len(pool.queue) = Cardinality(S)
    /\ pool.time_queue = S /\ pool.by_hash = S
    /\ \A t, u \in S : t.acct = u.acct /\ t.nonce = u.nonce => t = u
    /\ DOMAIN pool.account_nonce = {t.acct : t \in S}

\* The pool respects queue_limit_ and account_txs_limit_ in whatever order
\* imports, replacements and removals come.
WithinLimits ==
    /\ Len(pool.queue) <= queue_limit
    /\ \A a \in Account : CountOf(pool, a) <= account_txs_limit

\* While a transaction of an account and nonce is in the pool, Import only
\* ever puts one with a higher price in its place ("low fee" otherwise).
PriceNeverFalls ==
    [][\A t \in pool.by_nonce, u \in pool'.by_nonce :
          t.acct = u.acct /\ t.nonce = u.nonce => t = u \/ u.price > t.price]_vars

\* The account nonce the pool works with is never ahead of the ledger's, so
\* TopTransaction never skips over a nonce that is still to come.
NeverAhead ==
    main.op # "commited" =>
        \A a \in DOMAIN pool.account_nonce :
            pool.account_nonce[a] <= ledger_nonce[a]

\* StartConsensus removes a transaction for its nonce only when the nonce is
\* used, or when an earlier one of the account is removed with it: one whose
\* turn is still to come stays in the pool.
DropsOnlyDead ==
    main.op = "top" =>
        \A n \in 0 .. Len(main.txs), bad \in SUBSET Range(main.txs) :
            LET D == Range(ApplyPropose(SubSeq(main.txs, 1, n), bad).dropped) IN
            \A t \in D \ bad :
                \/ t.nonce <= ledger_nonce[t.acct]
                \/ \E u \in D : u.acct = t.acct /\ u.nonce < t.nonce

\* The pool is sorted "according to the account nonce value and gas_price".  NOT
\* an invariant: account_nonce_ changes while the transactions stay in place.
QueueIsSorted ==
    \A i \in 1 .. Len(pool.queue) - 1 :
        ~ Less(pool, pool.queue[i + 1], pool.queue[i])

\* account_nonce_ records the system nonce of the account whenever no import,
\* removal or proposal is under way.  NOT an invariant: a ledger closed by sync
\* never reaches the pool.
NonceRecorded ==
    importing = {} /\ main = Idle =>
        \A a \in DOMAIN pool.account_nonce :
            pool.account_nonce[a] = ledger_nonce[a]
=============================================================================

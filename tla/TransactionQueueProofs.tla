----------------------- MODULE TransactionQueueProofs -----------------------
(***************************************************************************)
(* What TransactionQueue guarantees for every set of transactions, limits  *)
(* of the pool, size of blocks and number of submitting threads.           *)
(***************************************************************************)
EXTENDS TransactionQueue, FiniteSetTheorems, TLAPS

\* The provers of a leaf that names none.
USE SMT, Zenon, Z3T(20)

-----------------------------------------------------------------------------
(* Induction for the loops of the program.  A loop over a list is modelled *)
(* by a function: g[i] is the state after the first i turns.  The lemmas   *)
(* have no operator for a parameter, so that the provers can use them.     *)

\* The least-number principle, from the library's well-founded minimum.
LEMMA LeastNumber ==
    ASSUME NEW T \in SUBSET Nat, T # {}
    PROVE  \E least \in T : \A other \in T : least <= other
<1>1. IsWellFoundedOn(OpToRel(<, Nat), Nat)
  BY NatLessThanWellFounded, Zenon
<1>2. PICK least \in T : \A other \in T : ~(<<other, least>> \in OpToRel(<, Nat))
  BY <1>1, WFMin, Zenon
<1>3. \A other \in T : ~(other < least)
  BY <1>2, Zenon DEF OpToRel
<1>4. QED
  BY <1>3

\* What holds before a loop and is preserved by each turn holds after every
\* number of turns.  Good[i] is the set of the states allowed after i turns.
LEMMA LoopStays ==
    ASSUME NEW n \in Nat, NEW g, NEW Good,
           g[0] \in Good[0],
           \A i \in 1..n : g[i - 1] \in Good[i - 1] => g[i] \in Good[i]
    PROVE  \A i \in 0..n : g[i] \in Good[i]
<1> DEFINE T == {i \in 0..n : g[i] \notin Good[i]}
<1>1. SUFFICES ASSUME T # {} PROVE FALSE
  OBVIOUS
<1>2. T \in SUBSET Nat
  OBVIOUS
<1>3. PICK least \in T : \A other \in T : least <= other
  BY <1>1, <1>2, LeastNumber, Zenon
<1>4. least # 0 /\ least \in 1..n
  BY <1>3
<1>5. least - 1 \in 0..n /\ least - 1 \notin T
  BY <1>3, <1>4
<1>6. g[least] \in Good[least]
  BY <1>4, <1>5
<1>7. QED
  BY <1>3, <1>6

\* The runs of a loop of n turns from start, where turn[<<i, s>>] is the state
\* after the i-th turn in state s.
Runs(n, S, start, turn) ==
    {g \in [0..n -> S] : g[0] = start /\ \A i \in 1..n : g[i] = turn[<<i, g[i - 1]>>]}

\* A loop whose turns lead from states in S to states in S has a run.
LEMMA LoopRuns ==
    ASSUME NEW n \in Nat, NEW S, NEW start \in S, NEW turn \in [(1..n) \X S -> S]
    PROVE  Runs(n, S, start, turn) # {}
<1> DEFINE Run(k) == Runs(k, S, start, turn)
           T == {k \in 0..n : Run(k) = {}}
<1>1. SUFFICES ASSUME T # {} PROVE FALSE
  OBVIOUS
<1>2. T \in SUBSET Nat
  OBVIOUS
<1>3. PICK least \in T : \A other \in T : least <= other
  BY <1>1, <1>2, LeastNumber, Zenon
<1>4. [i \in 0..0 |-> start] \in Run(0)
  BY DEF Runs
<1>5. least # 0 /\ least \in 1..n
  <2>1. least \in 0..n /\ Run(least) = {}
    BY <1>3
  <2>2. Run(0) # {}
    BY <1>4
  <2> HIDE DEF Run
  <2>3. QED
    BY <2>1, <2>2
<1>6. least - 1 \in 0..n /\ least - 1 \notin T
  BY <1>3, <1>5
<1>7. PICK g \in [0..(least - 1) -> S] :
          g[0] = start /\ \A i \in 1..(least - 1) : g[i] = turn[<<i, g[i - 1]>>]
  BY <1>6 DEF Runs
<1> DEFINE h == [i \in 0..least |-> IF i = least THEN turn[<<least, g[least - 1]>>] ELSE g[i]]
<1>8. g[least - 1] \in S /\ turn[<<least, g[least - 1]>>] \in S
  BY <1>5, <1>7
<1>9. h \in [0..least -> S]
  BY <1>5, <1>7, <1>8
<1>10. h[0] = start
  BY <1>5, <1>7
<1>11. ASSUME NEW i \in 1..least PROVE h[i] = turn[<<i, h[i - 1]>>]
  <2>1. h[i - 1] = g[i - 1]
    BY <1>5
  <2>2. CASE i = least
    <3>1. h[least] = turn[<<least, g[least - 1]>>]
      BY <1>5
    <3>2. QED
      BY <2>1, <2>2, <3>1
  <2>3. CASE i # least
    <3>1. i \in 1..(least - 1)
      BY <2>3, <1>5
    <3>2. g[i] = turn[<<i, g[i - 1]>>]
      BY <3>1, <1>7
    <3>3. h[i] = g[i]
      BY <2>3
    <3>4. QED
      BY <2>1, <3>2, <3>3, Zenon
  <2>4. QED
    BY <2>2, <2>3
<1>12. h \in Run(least)
  BY <1>9, <1>10, <1>11, Zenon DEF Runs
<1>13. QED
  BY <1>3, <1>12

-----------------------------------------------------------------------------
(* The inductive invariant.                                                *)

NonceMap == UNION {[D -> Int] : D \in SUBSET Account}

Pool == [queue : Seq(Tx), time_queue : SUBSET Tx, by_nonce : SUBSET Tx,
         by_hash : SUBSET Tx, account_nonce : NonceMap]

\* No two transactions of one account with one nonce.
OneEach(S) == \A t, u \in S : t.acct = u.acct /\ t.nonce = u.nonce => t = u

\* The four indexes list the same transactions, the queue each of them once.
Aligned(p) ==
    /\ IsInjective(p.queue) /\ Range(p.queue) = p.by_nonce
    /\ p.time_queue = p.by_nonce /\ p.by_hash = p.by_nonce
    /\ OneEach(p.by_nonce)

AccountsOf(S) == {t.acct : t \in S}

Sound(p) == p \in Pool /\ Aligned(p) /\ DOMAIN p.account_nonce = AccountsOf(p.by_nonce)

Ops == {"idle", "top", "commited"}

Typed ==
    /\ Sound(pool)
    /\ importing \in SUBSET [tx : Tx, nonce : Int]
    /\ main \in [op : Ops, txs : Seq(Tx)]
    /\ ledger_nonce \in [Account -> Int]

IInv == Typed /\ WithinLimits

\* No nonce that the pool works with, or that is to be put into it, is ahead of
\* the ledger's.
NotAhead ==
    /\ \A a \in DOMAIN pool.account_nonce : pool.account_nonce[a] <= ledger_nonce[a]
    /\ \A i \in importing : i.nonce <= ledger_nonce[i.tx.acct]
    /\ main.op = "commited" =>
         \A i \in DOMAIN main.txs : main.txs[i].nonce <= ledger_nonce[main.txs[i].acct]

\* In the list no two transactions have the account and the nonce in common.
Distinct(txs) ==
    \A i, j \in DOMAIN txs :
        txs[i].acct = txs[j].acct /\ txs[i].nonce = txs[j].nonce => i = j

\* A transaction comes after one for each nonce between base and its own.
NoGaps(txs, base) ==
    \A i \in DOMAIN txs : \A k \in Int :
        base[txs[i].acct] < k /\ k <= txs[i].nonce =>
            \E j \in 1 .. i : txs[j].acct = txs[i].acct /\ txs[j].nonce = k

TopInOrder ==
    main.op = "top" => Distinct(main.txs) /\ NoGaps(main.txs, ledger_nonce)

NonceInv == IInv /\ NotAhead /\ TopInOrder

-----------------------------------------------------------------------------
(* Sequences.                                                              *)

\* Putting a new element into a sequence without repetitions.
LEMMA EmplacedNew ==
    ASSUME NEW S, NEW s \in Seq(S), NEW i \in 0 .. Len(s), NEW e \in S,
           IsInjective(s), e \notin Range(s)
    PROVE  /\ Emplaced(s, i, e) \in Seq(S)
           /\ Len(Emplaced(s, i, e)) = Len(s) + 1
           /\ IsInjective(Emplaced(s, i, e))
           /\ Range(Emplaced(s, i, e)) = Range(s) \cup {e}
<1> DEFINE r == Emplaced(s, i, e)
<1>1. /\ r \in Seq(S) /\ Len(r) = Len(s) + 1
      /\ \A j \in 1 .. i : r[j] = s[j]
      /\ r[i + 1] = e
      /\ \A j \in i + 1 .. Len(s) : r[j + 1] = s[j]
  <2> DEFINE front == SubSeq(s, 1, i)
             back == SubSeq(s, i + 1, Len(s))
  <2>1. front \in Seq(S) /\ Len(front) = i /\ \A j \in 1 .. i : front[j] = s[j]
    OBVIOUS
  <2>2. back \in Seq(S) /\ Len(back) = Len(s) - i /\ \A j \in 1 .. Len(s) - i : back[j] = s[i + j]
    OBVIOUS
  <2>3. Emplaced(s, i, e) = (front \o <<e>>) \o back
    BY DEF Emplaced
  <2> HIDE DEF front, back
  <2> DEFINE mid == front \o <<e>>
             whole == mid \o back
  <2>4. /\ mid \in Seq(S) /\ Len(mid) = i + 1
        /\ \A j \in 1 .. i : mid[j] = s[j]
        /\ mid[i + 1] = e
    BY <2>1
  <2> HIDE DEF mid
  <2>5. whole \in Seq(S) /\ Len(whole) = Len(s) + 1
    BY <2>2, <2>4
  <2>6. (\A j \in 1 .. i : whole[j] = s[j]) /\ whole[i + 1] = e
    BY <2>2, <2>4
  <2>7. ASSUME NEW j \in i + 1 .. Len(s) PROVE whole[j + 1] = s[j]
    <3>1. whole[j + 1] = back[j - i] /\ j - i \in 1 .. Len(s) - i
      BY <2>2, <2>4
    <3>2. QED
      BY <3>1, <2>2
  <2> HIDE DEF whole
  <2>8. r = whole
    BY <2>3 DEF whole, mid
  <2>9. QED
    BY <2>5, <2>6, <2>7, <2>8
<1>2. DOMAIN r = 1 .. Len(s) + 1 /\ DOMAIN s = 1 .. Len(s) /\ Len(s) \in Nat
  BY <1>1
<1>3. \A j, k \in 1 .. Len(s) : s[j] = s[k] => j = k
  BY <1>2 DEF IsInjective
<1>4. \A j \in 1 .. Len(s) : s[j] # e
  BY <1>2 DEF Range
<1> HIDE DEF r
\* Where an element of the new sequence comes from.
<1>5. ASSUME NEW k \in 1 .. Len(s) + 1
      PROVE  \/ k \in 1 .. i /\ r[k] = s[k]
             \/ k = i + 1 /\ r[k] = e
             \/ k - 1 \in i + 1 .. Len(s) /\ r[k] = s[k - 1]
  <2>1. CASE k <= i + 1
    BY <2>1, <1>1, <1>2
  <2>2. CASE k > i + 1
    <3>1. k - 1 \in i + 1 .. Len(s) /\ (k - 1) + 1 = k
      BY <2>2, <1>2
    <3>2. QED
      BY <3>1, <1>1
  <2>3. QED
    BY <2>1, <2>2, <1>2
<1>6. ASSUME NEW j \in 1 .. Len(s) + 1, NEW k \in 1 .. Len(s) + 1, r[j] = r[k]
      PROVE  j = k
  <2>1. 1 .. i \subseteq 1 .. Len(s) /\ i + 1 .. Len(s) \subseteq 1 .. Len(s)
    BY <1>2
  <2>2. CASE j = i + 1 \/ k = i + 1
    <3>1. ASSUME NEW x \in 1 .. Len(s) + 1, x # i + 1 PROVE r[x] # e
      BY <1>4, <1>5, <2>1, <3>1, Zenon
    <3>2. r[j] = e /\ r[k] = e
      BY <1>1, <1>6, <2>2, Zenon
    <3> QED
      BY <3>1, <3>2, Zenon
  <2>3. CASE j # i + 1 /\ k # i + 1
    BY <1>2, <1>3, <1>5, <1>6, <2>1, <2>3
  <2>4. QED
    BY <2>2, <2>3
<1>7. IsInjective(r)
  BY <1>2, <1>6 DEF IsInjective
<1>8. ASSUME NEW x PROVE x \in Range(r) <=> x \in Range(s) \cup {e}
  <2>1. ASSUME x \in Range(r) PROVE x \in Range(s) \cup {e}
    <3>1. PICK k \in 1 .. Len(s) + 1 : x = r[k]
      BY <1>2, <2>1 DEF Range
    <3>2. 1 .. i \subseteq 1 .. Len(s) /\ i + 1 .. Len(s) \subseteq 1 .. Len(s)
      BY <1>2
    <3>3. QED
      BY <1>2, <1>5, <3>1, <3>2, Zenon DEF Range
  <2>2. ASSUME x \in Range(s) PROVE x \in Range(r)
    <3>1. PICK j \in 1 .. Len(s) : x = s[j]
      BY <1>2, <2>2 DEF Range
    <3>2. CASE j \in 1 .. i
      <4>1. j \in 1 .. Len(s) + 1 /\ r[j] = x
        BY <3>1, <3>2, <1>1, <1>2
      <4>2. QED
        BY <4>1, <1>2 DEF Range
    <3>3. CASE j \in i + 1 .. Len(s)
      <4>1. j + 1 \in 1 .. Len(s) + 1 /\ r[j + 1] = x
        BY <3>1, <3>3, <1>1, <1>2
      <4>2. QED
        BY <4>1, <1>2 DEF Range
    <3>4. QED
      BY <3>2, <3>3, <1>2
  <2>3. e \in Range(r)
    <3>1. i + 1 \in DOMAIN r
      BY <1>2
    <3>2. QED
      BY <3>1, <1>1 DEF Range
  <2>4. QED
    BY <2>1, <2>2, <2>3
<1>9. Range(r) = Range(s) \cup {e}
  BY <1>8
<1>10. QED
  BY <1>1, <1>7, <1>9 DEF r

\* Taking an element out of a sequence.
LEMMA ErasedElements ==
    ASSUME NEW S, NEW s \in Seq(S), NEW i \in 1 .. Len(s)
    PROVE  /\ Erased(s, i) \in Seq(S)
           /\ Len(Erased(s, i)) = Len(s) - 1
           /\ \A j \in 1 .. i - 1 : Erased(s, i)[j] = s[j]
           /\ \A j \in i .. Len(s) - 1 : Erased(s, i)[j] = s[j + 1]
<1> DEFINE front == SubSeq(s, 1, i - 1)
           back == SubSeq(s, i + 1, Len(s))
<1>1. front \in Seq(S) /\ Len(front) = i - 1 /\ \A j \in 1 .. i - 1 : front[j] = s[j]
  OBVIOUS
<1>2. back \in Seq(S) /\ Len(back) = Len(s) - i /\ \A j \in 1 .. Len(s) - i : back[j] = s[i + j]
  OBVIOUS
<1>3. Erased(s, i) = front \o back
  BY DEF Erased
<1> HIDE DEF front, back
<1> DEFINE r == front \o back
<1>4. r \in Seq(S) /\ Len(r) = Len(s) - 1
  BY <1>1, <1>2
<1>5. \A j \in 1 .. i - 1 : r[j] = s[j]
  BY <1>1, <1>2
<1>6. ASSUME NEW j \in i .. Len(s) - 1 PROVE r[j] = s[j + 1]
  <2>1. r[j] = back[j - (i - 1)] /\ j - (i - 1) \in 1 .. Len(s) - i
    BY <1>1, <1>2
  <2>2. QED
    BY <2>1, <1>2
<1> HIDE DEF r
<1>7. Erased(s, i) = r
  BY <1>3 DEF r
<1>8. QED
  BY <1>4, <1>5, <1>6, <1>7

\* Removing an element of a sequence without repetitions removes it from the
\* elements.
LEMMA ErasedGone ==
    ASSUME NEW S, NEW s \in Seq(S), NEW i \in 1 .. Len(s), IsInjective(s)
    PROVE  /\ IsInjective(Erased(s, i))
           /\ Range(Erased(s, i)) = Range(s) \ {s[i]}
<1> DEFINE r == Erased(s, i)
<1>1. /\ r \in Seq(S) /\ Len(r) = Len(s) - 1
      /\ \A j \in 1 .. i - 1 : r[j] = s[j]
      /\ \A j \in i .. Len(s) - 1 : r[j] = s[j + 1]
  BY ErasedElements, Zenon
<1>2. DOMAIN r = 1 .. Len(s) - 1 /\ DOMAIN s = 1 .. Len(s) /\ Len(s) \in Nat
  BY <1>1
<1>3. \A j, k \in 1 .. Len(s) : s[j] = s[k] => j = k
  BY <1>2 DEF IsInjective
<1> HIDE DEF r
<1>4. ASSUME NEW k \in 1 .. Len(s) - 1
      PROVE  \/ k \in 1 .. i - 1 /\ r[k] = s[k]
             \/ k + 1 \in i + 1 .. Len(s) /\ r[k] = s[k + 1]
  BY <1>1, <1>2
<1>5. ASSUME NEW j \in 1 .. Len(s) - 1, NEW k \in 1 .. Len(s) - 1, r[j] = r[k]
      PROVE  j = k
  <2>1. 1 .. i - 1 \subseteq 1 .. Len(s) /\ i + 1 .. Len(s) \subseteq 1 .. Len(s)
    BY <1>2
  <2>2. QED
    BY <1>2, <1>3, <1>4, <1>5, <2>1
<1>6. IsInjective(r)
  BY <1>2, <1>5 DEF IsInjective
<1>7. ASSUME NEW x PROVE x \in Range(r) <=> x \in Range(s) \ {s[i]}
  <2>1. ASSUME x \in Range(r) PROVE x \in Range(s) \ {s[i]}
    <3>1. PICK k \in 1 .. Len(s) - 1 : x = r[k]
      BY <1>2, <2>1 DEF Range
    <3>2. PICK j \in 1 .. Len(s) : x = s[j] /\ j # i
      BY <1>2, <1>4, <3>1
    <3>3. QED
      BY <1>2, <1>3, <3>2 DEF Range
  <2>2. ASSUME x \in Range(s), x # s[i] PROVE x \in Range(r)
    <3>1. PICK j \in 1 .. Len(s) : x = s[j] /\ j # i
      BY <1>2, <2>2 DEF Range
    <3>2. CASE j \in 1 .. i - 1
      <4>1. j \in 1 .. Len(s) - 1 /\ r[j] = x
        BY <3>1, <3>2, <1>1, <1>2
      <4>2. QED
        BY <4>1, <1>2 DEF Range
    <3>3. CASE j \in i + 1 .. Len(s)
      <4>1. j - 1 \in i .. Len(s) - 1 /\ (j - 1) + 1 = j
        BY <3>3, <1>2
      <4>2. j - 1 \in 1 .. Len(s) - 1 /\ r[j - 1] = x
        BY <4>1, <3>1, <1>1, <1>2
      <4>3. QED
        BY <4>2, <1>2 DEF Range
    <3>4. QED
      BY <3>1, <3>2, <3>3, <1>2
  <2>3. QED
    BY <2>1, <2>2
<1>8. Range(r) = Range(s) \ {s[i]}
  BY <1>7
<1>9. QED
  BY <1>6, <1>8 DEF r

-----------------------------------------------------------------------------
(* The methods of the pool.                                                *)

\* The members of NonceMap are the functions from accounts to integers.
LEMMA NonceMaps ==
    ASSUME NEW f
    PROVE  f \in NonceMap <=> (DOMAIN f \subseteq Account /\ f \in [DOMAIN f -> Int])
BY DEF NonceMap

\* With new nonces, the pool is otherwise the same.
LEMMA PoolWithNonces ==
    ASSUME NEW p \in Pool, NEW f \in NonceMap
    PROVE  LET q == [p EXCEPT !.account_nonce = f]
           IN  /\ q \in Pool /\ q.queue = p.queue /\ q.by_nonce = p.by_nonce
               /\ q.time_queue = p.time_queue /\ q.by_hash = p.by_hash
               /\ q.account_nonce = f
BY DEF Pool

\* The accounts with a nonce after the transactions S of account a are gone.
AccountsLeft(p, S, a) ==
    IF S # {} /\ a \notin AccountsOf(p.by_nonce \ S)
      THEN DOMAIN p.account_nonce \ {a} ELSE DOMAIN p.account_nonce

\* q is p without the transactions S of account a.
Without(q, p, S, a) ==
    /\ q \in Pool /\ Aligned(q)
    /\ q.by_nonce = p.by_nonce \ S
    /\ DOMAIN q.account_nonce = AccountsLeft(p, S, a)
    /\ \A x \in DOMAIN q.account_nonce : q.account_nonce[x] = p.account_nonce[x]
    /\ S = {} => Len(q.queue) = Len(p.queue)
    /\ S # {} => Len(q.queue) = Len(p.queue) - 1

\* RemoveTx takes the slot's transaction out of all four indexes, and the account
\* out of account_nonce_ when no transaction of it is left.
LEMMA RemoveTxPool ==
    ASSUME NEW p \in Pool, Aligned(p), NEW a, NEW n
    PROVE  Without(RemoveTx(p, a, n), p, Slot(p, a, n), a)
<1> DEFINE S == Slot(p, a, n)
           k == CHOOSE i \in DOMAIN p.queue : p.queue[i] \in S
           left == IF S = {} THEN p.queue ELSE Erased(p.queue, k)
           last == S # {} /\ a \notin AccountsOf(p.by_nonce \ S)
           D == AccountsLeft(p, S, a)
           nonces == [x \in D |-> p.account_nonce[x]]
           q == RemoveTx(p, a, n)
<1>1. /\ p.queue \in Seq(Tx) /\ p.by_nonce \in SUBSET Tx /\ p.account_nonce \in NonceMap
      /\ S \subseteq p.by_nonce
  BY DEF Pool, Slot
<1>2. /\ IsInjective(p.queue) /\ Range(p.queue) = p.by_nonce
      /\ p.time_queue = p.by_nonce /\ p.by_hash = p.by_nonce /\ OneEach(p.by_nonce)
  BY DEF Aligned
<1>3. q = [queue |-> left, time_queue |-> p.time_queue \ S, by_nonce |-> p.by_nonce \ S,
           by_hash |-> p.by_hash \ S, account_nonce |-> nonces]
  <2> DEFINE r == [queue |-> left, time_queue |-> p.time_queue \ S, by_nonce |-> p.by_nonce \ S,
                   by_hash |-> p.by_hash \ S, account_nonce |-> p.account_nonce]
  <2>1. RemoveKeepingNonce(p, a, n) = r
    BY DEF RemoveKeepingNonce
  <2>2. last <=> S # {} /\ ~ \E t \in p.by_nonce \ S : t.acct = a
    BY DEF AccountsOf
  <2> HIDE DEF left, S, last
  <2>3. r.by_nonce = p.by_nonce \ S /\ r.account_nonce = p.account_nonce
    OBVIOUS
  <2>4. q = [r EXCEPT !.account_nonce = nonces]
    <3> HIDE DEF r
    <3>1. QED
      BY <2>1, <2>2, <2>3 DEF RemoveTx, S, AccountsLeft, last
  <2>5. QED
    BY <2>4, Zenon
<1>4. /\ left \in Seq(Tx) /\ IsInjective(left) /\ Range(left) = p.by_nonce \ S
      /\ S = {} => Len(left) = Len(p.queue)
      /\ S # {} => Len(left) = Len(p.queue) - 1
  <2> HIDE DEF S
  <2>1. CASE S = {}
    <3>1. left = p.queue
      BY <2>1
    <3> HIDE DEF left
    <3>2. QED
      BY <1>1, <1>2, <2>1, <3>1
  <2>2. CASE S # {}
    <3>1. PICK t : t \in S /\ S = {t}
      BY <1>1, <1>2, <2>2 DEF S, Slot, OneEach
    <3>2. \E i \in DOMAIN p.queue : p.queue[i] \in S
      BY <1>1, <1>2, <3>1 DEF Range
    <3>3. k \in DOMAIN p.queue /\ p.queue[k] \in S
      BY <3>2
    <3> HIDE DEF k
    <3>4. k \in 1 .. Len(p.queue) /\ p.queue[k] = t
      BY <1>1, <3>1, <3>3
    <3>5. /\ Erased(p.queue, k) \in Seq(Tx) /\ Len(Erased(p.queue, k)) = Len(p.queue) - 1
      BY <1>1, <3>4, ErasedElements, Zenon
    <3>6. /\ IsInjective(Erased(p.queue, k))
          /\ Range(Erased(p.queue, k)) = Range(p.queue) \ {p.queue[k]}
      BY <1>1, <1>2, <3>4, ErasedGone
    <3>7. QED
      BY <1>2, <2>2, <3>1, <3>4, <3>5, <3>6
  <2> HIDE DEF left
  <2>3. QED
    BY <2>1, <2>2
<1>5. nonces \in NonceMap /\ DOMAIN nonces = D /\ \A x \in D : nonces[x] = p.account_nonce[x]
  <2>1. DOMAIN p.account_nonce \subseteq Account /\ p.account_nonce \in [DOMAIN p.account_nonce -> Int]
    BY <1>1, NonceMaps
  <2>2. D \subseteq DOMAIN p.account_nonce
    BY DEF AccountsLeft
  <2> HIDE DEF D
  <2>3. nonces \in [D -> Int] /\ D \subseteq Account
    BY <2>1, <2>2
  <2>4. QED
    BY <2>3, NonceMaps
<1> HIDE DEF left, nonces, S, q, D
<1>6. q \in Pool
  BY <1>1, <1>2, <1>3, <1>4, <1>5 DEF Pool
<1>7. Aligned(q)
  <2>1. OneEach(p.by_nonce \ S)
    BY <1>2 DEF OneEach
  <2>2. QED
    BY <1>2, <1>3, <1>4, <2>1 DEF Aligned
<1>8. /\ q.by_nonce = p.by_nonce \ S /\ DOMAIN q.account_nonce = D
      /\ \A x \in DOMAIN q.account_nonce : q.account_nonce[x] = p.account_nonce[x]
      /\ S = {} => Len(q.queue) = Len(p.queue)
      /\ S # {} => Len(q.queue) = Len(p.queue) - 1
  BY <1>3, <1>4, <1>5
<1>9. Without(q, p, S, a)
  BY <1>6, <1>7, <1>8 DEF Without, D
<1>10. QED
  BY <1>9 DEF q, S

\* A removal leaves the pool sound.
LEMMA RemoveTxSound ==
    ASSUME NEW p, Sound(p), NEW a, NEW n
    PROVE  Sound(RemoveTx(p, a, n))
<1> DEFINE S == Slot(p, a, n)
           q == RemoveTx(p, a, n)
<1>1. Without(q, p, S, a)
  BY RemoveTxPool DEF Sound
<1>2. S \subseteq p.by_nonce /\ \A t \in S : t.acct = a
  BY DEF Slot
<1>3. DOMAIN p.account_nonce = AccountsOf(p.by_nonce)
  BY DEF Sound
<1> HIDE DEF S, q
<1>4. DOMAIN q.account_nonce = AccountsOf(p.by_nonce \ S)
  <2>1. CASE S = {}
    BY <1>1, <1>3, <2>1 DEF AccountsLeft, Without
  <2>2. CASE S # {} /\ a \notin AccountsOf(p.by_nonce \ S)
    BY <1>1, <1>2, <1>3, <2>2 DEF AccountsOf, AccountsLeft, Without
  <2>3. CASE S # {} /\ a \in AccountsOf(p.by_nonce \ S)
    BY <1>1, <1>2, <1>3, <2>3 DEF AccountsOf, AccountsLeft, Without
  <2>4. QED
    BY <2>1, <2>2, <2>3
<1>5. QED
  BY <1>1, <1>4 DEF Sound, Without, q

\* q is p without some transactions; its nonces are those of p or, when a ledger
\* was closed, of a transaction in txs.
Shrunk(q, p, txs, close_ledger) ==
    /\ Sound(q)
    /\ q.by_nonce \subseteq p.by_nonce
    /\ Len(q.queue) <= Len(p.queue)
    /\ \A x \in DOMAIN q.account_nonce :
          /\ x \in DOMAIN p.account_nonce
          /\ \/ q.account_nonce[x] = p.account_nonce[x]
             \/ close_ledger /\ \E i \in DOMAIN txs :
                                   txs[i].acct = x /\ q.account_nonce[x] = txs[i].nonce

\* One turn of RemoveTxs.
LEMMA RemovedShrinks ==
    ASSUME NEW p \in Pool, NEW txs \in Seq(Tx), NEW close_ledger \in BOOLEAN,
           NEW q \in Pool, Shrunk(q, p, txs, close_ledger), NEW i \in DOMAIN txs
    PROVE  /\ Removed(q, txs[i], close_ledger) \in Pool
           /\ Shrunk(Removed(q, txs[i], close_ledger), p, txs, close_ledger)
<1> DEFINE t == txs[i]
           r == RemoveTx(q, t.acct, t.nonce)
           c == close_ledger /\ t.acct \in DOMAIN r.account_nonce /\ r.account_nonce[t.acct] < t.nonce
           s == [r EXCEPT !.account_nonce[t.acct] = t.nonce]
<1>1. t \in Tx /\ t.nonce \in Int
  BY Limits
<1>2. Sound(q)
  BY DEF Shrunk
<1>3. /\ r \in Pool /\ Aligned(r) /\ r.by_nonce \subseteq q.by_nonce
      /\ DOMAIN r.account_nonce \subseteq DOMAIN q.account_nonce
      /\ \A x \in DOMAIN r.account_nonce : r.account_nonce[x] = q.account_nonce[x]
      /\ Len(r.queue) <= Len(q.queue)
  <2>1. Aligned(q) /\ Len(q.queue) \in Nat
    BY <1>2 DEF Sound, Pool
  <2>2. Without(r, q, Slot(q, t.acct, t.nonce), t.acct)
    BY <2>1, RemoveTxPool
  <2> HIDE DEF r, t
  <2>3. AccountsLeft(q, Slot(q, t.acct, t.nonce), t.acct) \subseteq DOMAIN q.account_nonce
    BY DEF AccountsLeft
  <2>4. Len(r.queue) = Len(q.queue) \/ Len(r.queue) = Len(q.queue) - 1
    BY <2>2 DEF Without
  <2>5. QED
    BY <2>1, <2>2, <2>3, <2>4 DEF Without
<1>4. Sound(r)
  BY <1>2, RemoveTxSound
<1>5. Removed(q, t, close_ledger) = IF c THEN s ELSE r
  BY DEF Removed
<1> HIDE DEF t, r
<1>6. Len(r.queue) \in Nat /\ Len(q.queue) \in Nat /\ Len(p.queue) \in Nat
  BY <1>3 DEF Pool
<1>7. Shrunk(r, p, txs, close_ledger)
  BY <1>3, <1>4, <1>6 DEF Shrunk
<1>8. ASSUME c PROVE s \in Pool /\ Shrunk(s, p, txs, close_ledger)
  <2> DEFINE f == r.account_nonce
             g == [f EXCEPT ![t.acct] = t.nonce]
  <2>1. DOMAIN f \subseteq Account /\ f \in [DOMAIN f -> Int]
    BY <1>3, NonceMaps DEF Pool
  <2>2. s = [r EXCEPT !.account_nonce = g]
    OBVIOUS
  <2> HIDE DEF f, s
  <2>3. g \in [DOMAIN f -> Int] /\ DOMAIN g = DOMAIN f /\ g[t.acct] = t.nonce
    BY <1>1, <1>8, <2>1 DEF f
  <2>4. \A x \in DOMAIN g : g[x] = f[x] \/ x = t.acct
    BY <2>3
  <2>5. g \in NonceMap
    BY <2>1, <2>3, NonceMaps
  <2> HIDE DEF g
  <2>6. /\ s.queue = r.queue /\ s.by_nonce = r.by_nonce /\ s.time_queue = r.time_queue
        /\ s.by_hash = r.by_hash /\ s.account_nonce = g /\ s \in Pool
    BY <1>3, <2>2, <2>5, PoolWithNonces
  <2>7. Sound(s)
    BY <1>4, <2>3, <2>6 DEF Sound, Aligned, f
  <2>8. ASSUME NEW x \in DOMAIN s.account_nonce
        PROVE  /\ x \in DOMAIN p.account_nonce
               /\ \/ s.account_nonce[x] = p.account_nonce[x]
                  \/ close_ledger /\ \E j \in DOMAIN txs :
                                        txs[j].acct = x /\ s.account_nonce[x] = txs[j].nonce
    <3>1. x \in DOMAIN f
      BY <2>3, <2>6, <2>8
    <3>2. CASE x = t.acct
      BY <1>7, <1>8, <2>3, <2>6, <3>1, <3>2 DEF Shrunk, t, f
    <3>3. CASE x # t.acct
      BY <1>7, <2>3, <2>4, <2>6, <3>1, <3>3 DEF Shrunk, f
    <3>4. QED
      BY <3>2, <3>3
  <2>9. QED
    BY <1>7, <2>6, <2>7, <2>8 DEF Shrunk
<1> HIDE DEF s, c
<1>9. QED
  BY <1>3, <1>5, <1>7, <1>8 DEF t

\* RemoveTxs goes through the list from its start.
LEMMA RemovalsTurns ==
    ASSUME NEW p, Sound(p), NEW txs \in Seq(Tx), NEW close_ledger \in BOOLEAN
    PROVE  /\ Removals(p, txs, close_ledger)[0] = p
           /\ \A i \in 1 .. Len(txs) :
                 Removals(p, txs, close_ledger)[i] =
                    Removed(Removals(p, txs, close_ledger)[i - 1], txs[i], close_ledger)
<1> DEFINE n == Len(txs)
           Good == {q \in Pool : Shrunk(q, p, txs, close_ledger)}
           turn == [is \in (1 .. n) \X Good |-> Removed(is[2], txs[is[1]], close_ledger)]
           Is(g) == g = [i \in 0 .. Len(txs) |->
                            IF i = 0 THEN p ELSE Removed(g[i - 1], txs[i], close_ledger)]
           after == Removals(p, txs, close_ledger)
<1>1. p \in Pool /\ Len(p.queue) \in Nat /\ n \in Nat /\ DOMAIN txs = 1 .. n
  BY DEF Sound, Pool
<1>2. p \in Good
  BY <1>1 DEF Shrunk
<1>3. \A i \in 1 .. n, q \in Good : Removed(q, txs[i], close_ledger) \in Good
  BY <1>1, RemovedShrinks
<1> HIDE DEF n, Good
<1>4. turn \in [(1 .. n) \X Good -> Good]
  BY <1>3
<1>5. \A is \in (1 .. n) \X Good : turn[is] = Removed(is[2], txs[is[1]], close_ledger)
  OBVIOUS
<1> HIDE DEF turn
<1>6. PICK g : g \in Runs(n, Good, p, turn)
  <2>1. n \in Nat
    BY <1>1
  <2>2. Runs(n, Good, p, turn) # {}
    BY <2>1, <1>2, <1>4, LoopRuns, ZenonT(60)
  <2>3. QED
    BY <2>2
<1>6a. /\ g \in [0 .. n -> Good] /\ g[0] = p
       /\ \A i \in 1 .. n : g[i] = turn[<<i, g[i - 1]>>]
  BY <1>6 DEF Runs
<1>7. ASSUME NEW i \in 1 .. n PROVE g[i] = Removed(g[i - 1], txs[i], close_ledger)
  <2>1. i - 1 \in 0 .. n
    BY <1>1
  <2>2. g[i - 1] \in Good
    BY <1>6a, <2>1
  <2>3. <<i, g[i - 1]>> \in (1 .. n) \X Good
    BY <2>2
  <2>4. QED
    BY <1>5, <1>6a, <2>3
<1>8. Is(g)
  BY <1>6a, <1>7 DEF n
<1>9. Is(CHOOSE f : Is(f))
  <2> HIDE DEF Is
  <2>1. QED
    BY <1>8
<1>10. after = CHOOSE f : Is(f)
  BY DEF Removals
<1>11. Is(after)
  <2> HIDE DEF after
  <2>1. QED
    BY <1>9, <1>10
<1>12. after = [i \in 0 .. Len(txs) |->
                   IF i = 0 THEN p ELSE Removed(after[i - 1], txs[i], close_ledger)]
  BY <1>11
<1> HIDE DEF after
<1>13. after[0] = p /\ \A i \in 1 .. Len(txs) : after[i] = Removed(after[i - 1], txs[i], close_ledger)
  BY <1>12
<1>14. QED
  BY <1>13 DEF after

\* RemoveTxs leaves the pool sound, and only takes out.
LEMMA RemoveTxsShrinks ==
    ASSUME NEW p, Sound(p), NEW txs \in Seq(Tx), NEW close_ledger \in BOOLEAN
    PROVE  Shrunk(RemoveTxs(p, txs, close_ledger), p, txs, close_ledger)
<1> DEFINE after == Removals(p, txs, close_ledger)
           Good == [i \in 0 .. Len(txs) |-> {q \in Pool : Shrunk(q, p, txs, close_ledger)}]
<1>1. p \in Pool /\ Len(p.queue) \in Nat /\ Len(txs) \in Nat /\ DOMAIN txs = 1 .. Len(txs)
  BY DEF Sound, Pool
<1>2. /\ after[0] = p
      /\ \A i \in 1 .. Len(txs) : after[i] = Removed(after[i - 1], txs[i], close_ledger)
  BY RemovalsTurns
<1> HIDE DEF after
<1>3. after[0] \in Good[0]
  BY <1>1, <1>2 DEF Shrunk
<1>4. ASSUME NEW i \in 1 .. Len(txs), after[i - 1] \in Good[i - 1] PROVE after[i] \in Good[i]
  <2>1. i - 1 \in 0 .. Len(txs) /\ i \in 0 .. Len(txs)
    BY <1>1
  <2>2. after[i - 1] \in Pool /\ Shrunk(after[i - 1], p, txs, close_ledger)
    BY <1>4, <2>1
  <2>3. /\ Removed(after[i - 1], txs[i], close_ledger) \in Pool
        /\ Shrunk(Removed(after[i - 1], txs[i], close_ledger), p, txs, close_ledger)
    BY <1>1, <2>2, RemovedShrinks
  <2>4. QED
    BY <1>2, <2>1, <2>3
<1>5. after[Len(txs)] \in Good[Len(txs)]
  <2>1. Len(txs) \in 0 .. Len(txs)
    BY <1>1
  <2> HIDE DEF Good
  <2>2. \A i \in 0 .. Len(txs) : after[i] \in Good[i]
    <3>1. \A i \in 1 .. Len(txs) : after[i - 1] \in Good[i - 1] => after[i] \in Good[i]
      BY <1>4
    <3>2. Len(txs) \in Nat
      BY <1>1
    <3> DEFINE n == Len(txs)
    <3> HIDE DEF n
    <3>3. QED
      BY <3>1, <3>2, <1>3, LoopStays, ZenonT(60)
  <2>3. QED
    BY <2>1, <2>2
<1>6. QED
  BY <1>1, <1>5 DEF RemoveTxs, after

\* A sequence without repetitions is as long as it has elements.
LEMMA InjectiveLength ==
    ASSUME NEW S, NEW s \in Seq(S), IsInjective(s)
    PROVE  /\ IsFiniteSet(Range(s)) /\ Len(s) \in Nat
           /\ Len(s) = Cardinality(Range(s))
<1> DEFINE n == Len(s)
           R == Range(s)
<1>1. n \in Nat /\ DOMAIN s = 1 .. n
  OBVIOUS
<1>2. s \in Bijection(1 .. n, R)
  BY <1>1 DEF Bijection, Injection, Surjection, IsInjective, Range
<1>3. ExistsBijection(1 .. n, R)
  BY <1>2 DEF ExistsBijection
<1>4. IsFiniteSet(R)
  BY <1>1, <1>3, FS_NatBijection
<1>5. QED
  BY <1>1, <1>3, <1>4, FS_CountingElements

\* A finite set can be listed.
LEMMA ListOfSet ==
    ASSUME NEW T, NEW S \in SUBSET T, IsFiniteSet(S)
    PROVE  Listed(S) \in Seq(T)
<1> DEFINE n == Cardinality(S)
<1>1. n \in Nat /\ ExistsBijection(1 .. n, S)
  BY FS_CardinalityType
<1>2. PICK f : f \in Bijection(1 .. n, S)
  BY <1>1 DEF ExistsBijection
<1>3. f \in [1 .. n -> S] /\ IsInjective(f)
  BY <1>2 DEF Bijection, Injection, IsInjective
<1>4. Listed(S) \in [1 .. n -> S]
  BY <1>3 DEF Listed
<1>5. QED
  BY <1>1, <1>4

TxsOf(p, a) == {t \in p.by_nonce : t.acct = a}

\* The set of the transactions of an account in the pool is finite.
LEMMA Counts ==
    ASSUME NEW p \in Pool, Aligned(p), NEW a
    PROVE  /\ IsFiniteSet(p.by_nonce) /\ IsFiniteSet(TxsOf(p, a))
           /\ CountOf(p, a) = Cardinality(TxsOf(p, a)) /\ CountOf(p, a) \in Nat
           /\ Len(p.queue) \in Nat
           /\ Len(p.queue) = Cardinality(p.by_nonce)
<1>1. p.queue \in Seq(Tx) /\ IsInjective(p.queue) /\ Range(p.queue) = p.by_nonce
  BY DEF Pool, Aligned
<1>2. IsFiniteSet(p.by_nonce) /\ Len(p.queue) \in Nat /\ Len(p.queue) = Cardinality(p.by_nonce)
  BY <1>1, InjectiveLength
<1> DEFINE C == TxsOf(p, a)
<1>3. C \in SUBSET p.by_nonce
  BY DEF TxsOf
<1>4. IsFiniteSet(C)
  BY <1>2, <1>3, FS_Subset
<1>5. Cardinality(C) \in Nat
  BY <1>4, FS_CardinalityType
<1>6. QED
  BY <1>2, <1>4, <1>5 DEF CountOf, TxsOf

\* With fewer transactions an account has no more of them.
LEMMA FewerCounts ==
    ASSUME NEW p \in Pool, Aligned(p), NEW q \in Pool, Aligned(q),
           q.by_nonce \subseteq p.by_nonce, NEW a
    PROVE  CountOf(q, a) <= CountOf(p, a)
<1> DEFINE C == TxsOf(p, a)
           D == TxsOf(q, a)
<1>1. IsFiniteSet(C)
  BY Counts
<1>2. D \in SUBSET C
  BY DEF TxsOf
<1> HIDE DEF C, D
<1>3. Cardinality(D) <= Cardinality(C)
  BY <1>1, <1>2, FS_Subset
<1>4. QED
  BY <1>3, Counts DEF C, D

\* Recording a nonce for an account.
Recorded(g, f, a, n) ==
    /\ g \in NonceMap /\ DOMAIN g = DOMAIN f \cup {a}
    /\ g[a] = n /\ \A x \in DOMAIN f : x # a => g[x] = f[x]

\* Writing an account's entry of account_nonce_ keeps the other accounts' entries.
LEMMA WithNonceMap ==
    ASSUME NEW f \in NonceMap, NEW a \in Account, NEW n \in Int
    PROVE  Recorded(WithNonce(f, a, n), f, a, n)
<1> DEFINE g == WithNonce(f, a, n)
<1>1. DOMAIN f \subseteq Account /\ f \in [DOMAIN f -> Int]
  BY NonceMaps
<1>2. /\ g \in [DOMAIN f \cup {a} -> Int] /\ DOMAIN g = DOMAIN f \cup {a} /\ g[a] = n
      /\ \A x \in DOMAIN f : x # a => g[x] = f[x]
  BY <1>1 DEF WithNonce
<1> HIDE DEF g
<1>3. g \in NonceMap
  BY <1>1, <1>2, NonceMaps
<1>4. QED
  BY <1>2, <1>3 DEF g, Recorded

\* The nonces of q are those of p, for account a the given one.
Renonced(q, p, a, n) ==
    \A x \in DOMAIN q.account_nonce :
        \/ x = a /\ q.account_nonce[x] = n
        \/ x \in DOMAIN p.account_nonce /\ q.account_nonce[x] = p.account_nonce[x]

\* r is p made ready for t: its nonce is recorded, its slot is free.
Ready(r, p, t, nonce) ==
    /\ r \in Pool /\ Aligned(r) /\ r.by_nonce \subseteq p.by_nonce
    /\ DOMAIN r.account_nonce = AccountsOf(r.by_nonce) \cup {t.acct}
    /\ Renonced(r, p, t.acct, nonce)
    /\ Slot(r, t.acct, t.nonce) = {}
    /\ Len(r.queue) <= Len(p.queue)
    /\ CountOf(r, t.acct) < account_txs_limit

Noted(p, t, nonce) == [p EXCEPT !.account_nonce = WithNonce(@, t.acct, nonce)]

\* q is p with the nonce recorded for the account of t.
WithNoted(q, p, t, nonce) ==
    /\ q \in Pool /\ Aligned(q) /\ q.by_nonce = p.by_nonce /\ q.queue = p.queue
    /\ DOMAIN q.account_nonce = AccountsOf(p.by_nonce) \cup {t.acct}
    /\ Renonced(q, p, t.acct, nonce)

\* The first step of Import records the account's nonce.
LEMMA NotedPool ==
    ASSUME NEW p, Sound(p), NEW t \in Tx, NEW nonce \in Int
    PROVE  WithNoted(Noted(p, t, nonce), p, t, nonce)
<1> DEFINE f == WithNonce(p.account_nonce, t.acct, nonce)
           q == [p EXCEPT !.account_nonce = f]
<1>1. /\ p \in Pool /\ p.account_nonce \in NonceMap /\ Aligned(p) /\ t.acct \in Account
      /\ DOMAIN p.account_nonce = AccountsOf(p.by_nonce)
  BY DEF Sound, Pool, Account
<1>1a. Recorded(f, p.account_nonce, t.acct, nonce)
  BY <1>1, WithNonceMap
<1> HIDE DEF f
<1>2. /\ f \in NonceMap /\ DOMAIN f = DOMAIN p.account_nonce \cup {t.acct} /\ f[t.acct] = nonce
      /\ \A x \in DOMAIN p.account_nonce : x # t.acct => f[x] = p.account_nonce[x]
  BY <1>1a DEF Recorded
<1>3. /\ q \in Pool /\ q.queue = p.queue /\ q.by_nonce = p.by_nonce
      /\ q.time_queue = p.time_queue /\ q.by_hash = p.by_hash /\ q.account_nonce = f
  BY <1>1, <1>2, PoolWithNonces
<1> HIDE DEF q
<1>4. Aligned(q)
  BY <1>1, <1>3 DEF Aligned
<1>5. Renonced(q, p, t.acct, nonce)
  BY <1>2, <1>3 DEF Renonced
<1>6. WithNoted(q, p, t, nonce)
  BY <1>1, <1>2, <1>3, <1>4, <1>5 DEF WithNoted
<1>7. QED
  BY <1>6 DEF q, f, Noted

\* A replacement takes the old transaction out, and so makes room for the new one.
LEMMA ReplacedReady ==
    ASSUME NEW p, Sound(p), NEW t \in Tx, NEW nonce \in Int,
           \A a \in Account : CountOf(p, a) <= account_txs_limit,
           NEW q, WithNoted(q, p, t, nonce), Slot(q, t.acct, t.nonce) # {}
    PROVE  Ready(Noted(RemoveTx(q, t.acct, t.nonce), t, nonce), p, t, nonce)
<1> DEFINE S == Slot(q, t.acct, t.nonce)
           r == RemoveTx(q, t.acct, t.nonce)
           f == WithNonce(r.account_nonce, t.acct, nonce)
           w == [r EXCEPT !.account_nonce = f]
<1>0. /\ q \in Pool /\ Aligned(q) /\ q.by_nonce = p.by_nonce /\ q.queue = p.queue
      /\ DOMAIN q.account_nonce = AccountsOf(p.by_nonce) \cup {t.acct}
      /\ Renonced(q, p, t.acct, nonce)
  BY DEF WithNoted
<1>1. Without(r, q, S, t.acct)
  BY <1>0, RemoveTxPool
<1>2. /\ S \subseteq p.by_nonce /\ \A u \in S : u.acct = t.acct
      /\ S = {u \in p.by_nonce : u.acct = t.acct /\ u.nonce = t.nonce}
  BY <1>0 DEF Slot
<1> HIDE DEF S, r
<1>3. /\ r \in Pool /\ r.account_nonce \in NonceMap /\ Aligned(r) /\ r.by_nonce = p.by_nonce \ S
      /\ DOMAIN r.account_nonce = AccountsLeft(q, S, t.acct)
      /\ \A x \in DOMAIN r.account_nonce : r.account_nonce[x] = q.account_nonce[x]
      /\ Len(r.queue) = Len(p.queue) - 1
  BY <1>0, <1>1 DEF Without, Pool, S
<1>4. t.acct \in Account
  BY DEF Account
<1>5. Recorded(f, r.account_nonce, t.acct, nonce)
  BY <1>3, <1>4, WithNonceMap
<1> HIDE DEF f
<1>6. /\ f \in NonceMap /\ DOMAIN f = DOMAIN r.account_nonce \cup {t.acct} /\ f[t.acct] = nonce
      /\ \A x \in DOMAIN r.account_nonce : x # t.acct => f[x] = r.account_nonce[x]
  BY <1>5 DEF Recorded
<1>7. /\ w \in Pool /\ w.queue = r.queue /\ w.by_nonce = r.by_nonce
      /\ w.time_queue = r.time_queue /\ w.by_hash = r.by_hash /\ w.account_nonce = f
  BY <1>3, <1>6, PoolWithNonces
<1> HIDE DEF w
<1>8. Aligned(w)
  BY <1>3, <1>7 DEF Aligned
<1>9. DOMAIN w.account_nonce = AccountsOf(w.by_nonce) \cup {t.acct}
  <2>1. AccountsOf(p.by_nonce) \subseteq AccountsOf(p.by_nonce \ S) \cup {t.acct}
    BY <1>2 DEF AccountsOf
  <2>2. AccountsOf(p.by_nonce \ S) \subseteq AccountsOf(p.by_nonce)
    BY DEF AccountsOf
  <2>3. AccountsLeft(q, S, t.acct) \cup {t.acct} = AccountsOf(p.by_nonce) \cup {t.acct}
    BY <1>0 DEF AccountsLeft
  <2>4. w.by_nonce = p.by_nonce \ S
    BY <1>3, <1>7
  <2>5. DOMAIN w.account_nonce = AccountsLeft(q, S, t.acct) \cup {t.acct}
    BY <1>3, <1>6, <1>7
  <2>6. AccountsOf(p.by_nonce) \cup {t.acct} = AccountsOf(p.by_nonce \ S) \cup {t.acct}
    BY <2>1, <2>2
  <2>7. QED
    BY <2>3, <2>4, <2>5, <2>6
<1>10. Renonced(w, p, t.acct, nonce)
  <2> SUFFICES ASSUME NEW x \in DOMAIN w.account_nonce, x # t.acct
               PROVE  x \in DOMAIN p.account_nonce /\ w.account_nonce[x] = p.account_nonce[x]
    BY <1>6, <1>7 DEF Renonced
  <2>1. x \in DOMAIN r.account_nonce /\ w.account_nonce[x] = r.account_nonce[x]
    BY <1>6, <1>7
  <2>2. x \in DOMAIN q.account_nonce
    BY <1>3, <2>1 DEF AccountsLeft
  <2>3. QED
    BY <1>0, <1>3, <2>1, <2>2 DEF Renonced
<1>11. Slot(w, t.acct, t.nonce) = {}
  BY <1>2, <1>3, <1>7 DEF Slot
<1>12. CountOf(w, t.acct) < account_txs_limit
  <2> DEFINE C == TxsOf(p, t.acct)
             D == TxsOf(w, t.acct)
  <2>1. p \in Pool /\ Aligned(p)
    BY DEF Sound
  <2>2. IsFiniteSet(C) /\ CountOf(p, t.acct) = Cardinality(C)
    BY <2>1, Counts
  <2>3. CountOf(w, t.acct) = Cardinality(D) /\ CountOf(w, t.acct) \in Nat /\ CountOf(p, t.acct) \in Nat
    BY <1>7, <1>8, <2>1, Counts
  <2>4. D \in SUBSET C /\ D # C
    BY <1>2, <1>3, <1>7 DEF TxsOf, S
  <2> HIDE DEF C, D
  <2>5. Cardinality(D) <= Cardinality(C) /\ Cardinality(D) # Cardinality(C)
    BY <2>2, <2>4, FS_Subset
  <2>6. CountOf(p, t.acct) <= account_txs_limit
    BY <1>4
  <2>7. QED
    BY <2>2, <2>3, <2>5, <2>6, Limits
<1>13. Len(w.queue) <= Len(p.queue)
  <2>1. Len(p.queue) \in Nat
    BY DEF Sound, Pool
  <2>2. QED
    BY <1>3, <1>7, <2>1
<1>14. Ready(w, p, t, nonce)
  BY <1>3, <1>7, <1>8, <1>9, <1>10, <1>11, <1>12, <1>13 DEF Ready
<1>15. QED
  BY <1>14 DEF w, f, r, Noted

\* What Import may make of the pool p.
Grown(q, p, t, nonce) ==
    /\ Sound(q) /\ Len(q.queue) <= queue_limit
    /\ \A a \in Account : CountOf(q, a) <= account_txs_limit
    /\ q.by_nonce \subseteq p.by_nonce \cup {t}
    /\ Renonced(q, p, t.acct, nonce)

\* Inserting into a pool that is ready, before the eviction.
LEMMA InsertPool ==
    ASSUME NEW p, Sound(p), NEW t \in Tx, NEW nonce \in Int,
           Len(p.queue) <= queue_limit,
           \A a \in Account : CountOf(p, a) <= account_txs_limit,
           NEW r, Ready(r, p, t, nonce), NEW i \in 0 .. Len(r.queue)
    PROVE  LET s == Insert(r, t, i)
           IN  /\ Sound(s) /\ Len(s.queue) <= queue_limit + 1
               /\ \A a \in Account : CountOf(s, a) <= account_txs_limit
               /\ s.by_nonce = r.by_nonce \cup {t}
               /\ s.account_nonce = r.account_nonce
<1> DEFINE inserted == Emplaced(r.queue, i, t)
           s == Insert(r, t, i)
<1>1. /\ r \in Pool /\ r.queue \in Seq(Tx) /\ r.by_nonce \in SUBSET Tx
      /\ r.by_hash = r.by_nonce /\ r.time_queue = r.by_nonce /\ r.account_nonce \in NonceMap
      /\ IsInjective(r.queue) /\ Range(r.queue) = r.by_nonce /\ OneEach(r.by_nonce)
      /\ Aligned(r)
  BY DEF Ready, Pool, Aligned
<1>2. t \notin r.by_nonce /\ \A u \in r.by_nonce : ~ (u.acct = t.acct /\ u.nonce = t.nonce)
  BY DEF Ready, Slot
<1>3. /\ inserted \in Seq(Tx) /\ Len(inserted) = Len(r.queue) + 1
      /\ IsInjective(inserted) /\ Range(inserted) = Range(r.queue) \cup {t}
  BY <1>1, <1>2, EmplacedNew
<1>4. s = [queue |-> inserted, time_queue |-> r.by_nonce \cup {t}, by_nonce |-> r.by_nonce \cup {t},
           by_hash |-> r.by_nonce \cup {t}, account_nonce |-> r.account_nonce]
  BY <1>1 DEF Insert
<1> HIDE DEF inserted, s
<1>5. /\ s.queue = inserted /\ s.time_queue = r.by_nonce \cup {t}
      /\ s.by_nonce = r.by_nonce \cup {t} /\ s.by_hash = r.by_nonce \cup {t}
      /\ s.account_nonce = r.account_nonce
  BY <1>4
<1>6. s \in Pool
  <2>1. r.by_nonce \cup {t} \in SUBSET Tx
    BY <1>1
  <2>2. QED
    BY <1>1, <1>3, <1>4, <2>1 DEF Pool
<1>7. Aligned(s)
  <2>1. OneEach(r.by_nonce \cup {t})
    BY <1>1, <1>2 DEF OneEach
  <2>2. QED
    BY <1>1, <1>3, <1>5, <2>1 DEF Aligned
<1>8. DOMAIN s.account_nonce = AccountsOf(s.by_nonce)
  <2>1. AccountsOf(r.by_nonce \cup {t}) = AccountsOf(r.by_nonce) \cup {t.acct}
    BY DEF AccountsOf
  <2>2. DOMAIN r.account_nonce = AccountsOf(r.by_nonce) \cup {t.acct}
    BY DEF Ready
  <2>3. s.account_nonce = r.account_nonce /\ s.by_nonce = r.by_nonce \cup {t}
    BY <1>5
  <2>4. QED
    BY <2>1, <2>2, <2>3, Zenon
<1>9. ASSUME NEW a \in Account PROVE CountOf(s, a) <= account_txs_limit
  <2>1. CASE a = t.acct
    <3> DEFINE C == TxsOf(r, a)
               D == TxsOf(s, a)
    <3>1. D = C \cup {t} /\ t \notin C
      BY <1>2, <1>5, <2>1 DEF TxsOf
    <3>2. IsFiniteSet(C) /\ CountOf(r, a) = Cardinality(C) /\ CountOf(r, a) \in Nat
      BY <1>1, Counts
    <3>3. CountOf(s, a) = Cardinality(D)
      BY <1>6, <1>7, Counts
    <3> HIDE DEF C, D
    <3>4. Cardinality(D) = Cardinality(C) + 1
      <4>1. Cardinality(C \cup {t}) = IF t \in C THEN Cardinality(C) ELSE Cardinality(C) + 1
        BY <3>2, FS_AddElement, Zenon
      <4>2. QED
        BY <3>1, <4>1
    <3>5. CountOf(r, a) < account_txs_limit
      BY <2>1 DEF Ready
    <3>6. QED
      BY <3>2, <3>3, <3>4, <3>5, Limits
  <2>2. CASE a # t.acct
    <3>1. TxsOf(s, a) = TxsOf(r, a)
      BY <1>5, <2>2 DEF TxsOf
    <3>2. CountOf(s, a) = CountOf(r, a) /\ CountOf(r, a) \in Nat
      BY <1>1, <1>6, <1>7, <3>1, Counts
    <3>3. p \in Pool /\ Aligned(p) /\ r.by_nonce \subseteq p.by_nonce
      BY DEF Sound, Ready
    <3>4. CountOf(r, a) <= CountOf(p, a)
      BY <1>1, <3>3, FewerCounts
    <3>5. CountOf(p, a) \in Nat /\ CountOf(p, a) <= account_txs_limit
      BY <3>3, Counts
    <3>6. QED
      BY <3>2, <3>4, <3>5, Limits
  <2>3. QED
    BY <2>1, <2>2
<1>10. Len(s.queue) <= queue_limit + 1
  <2>1. Len(r.queue) \in Nat /\ Len(p.queue) \in Nat
    BY <1>1 DEF Sound, Pool
  <2>2. Len(r.queue) <= Len(p.queue)
    BY DEF Ready
  <2>3. QED
    BY <1>3, <1>5, <2>1, <2>2, Limits
<1>11. Sound(s)
  BY <1>6, <1>7, <1>8 DEF Sound
<1>12. QED
  BY <1>5, <1>9, <1>10, <1>11 DEF s

\* The eviction at the end of Import brings the pool back within its limit.
LEMMA EvictLastPool ==
    ASSUME NEW s, Sound(s), Len(s.queue) <= queue_limit + 1
    PROVE  /\ Sound(EvictLast(s)) /\ Len(EvictLast(s).queue) <= queue_limit
           /\ EvictLast(s).by_nonce \subseteq s.by_nonce
           /\ \A x \in DOMAIN EvictLast(s).account_nonce :
                 /\ x \in DOMAIN s.account_nonce
                 /\ EvictLast(s).account_nonce[x] = s.account_nonce[x]
<1> DEFINE last == s.queue[Len(s.queue)]
           e == RemoveTx(s, last.acct, last.nonce)
           S == Slot(s, last.acct, last.nonce)
<1>1. s \in Pool /\ Aligned(s) /\ s.queue \in Seq(Tx) /\ Len(s.queue) \in Nat
  BY DEF Sound, Pool
<1>2. CASE Len(s.queue) <= queue_limit
  <2>1. EvictLast(s) = s
    BY <1>2 DEF EvictLast
  <2>2. QED
    BY <1>2, <2>1
<1>3. CASE ~ (Len(s.queue) <= queue_limit)
  <2>1. EvictLast(s) = e
    BY <1>3 DEF EvictLast
  <2>2. Len(s.queue) \in DOMAIN s.queue /\ Len(s.queue) = queue_limit + 1
    BY <1>1, <1>3, Limits
  <2>3. last \in s.by_nonce
    BY <1>1, <2>2 DEF Aligned, Range
  <2>4. S # {}
    BY <2>3 DEF Slot
  <2>5. Without(e, s, S, last.acct) /\ Sound(e)
    BY <1>1, RemoveTxPool, RemoveTxSound
  <2>6. AccountsLeft(s, S, last.acct) \subseteq DOMAIN s.account_nonce
    BY DEF AccountsLeft
  <2> HIDE DEF e, S
  <2>7. /\ Len(e.queue) = Len(s.queue) - 1 /\ e.by_nonce \subseteq s.by_nonce
        /\ \A x \in DOMAIN e.account_nonce :
              x \in DOMAIN s.account_nonce /\ e.account_nonce[x] = s.account_nonce[x]
    BY <2>4, <2>5, <2>6 DEF Without
  <2>8. Len(e.queue) <= queue_limit
    BY <2>2, <2>7, Limits
  <2>9. QED
    BY <2>1, <2>5, <2>7, <2>8
<1>4. QED
  BY <1>2, <1>3

\* Import keeps the pool sound and within its limits; it records the nonce that
\* was read for the account.
LEMMA ImportedGrows ==
    ASSUME NEW p, Sound(p), NEW t \in Tx, NEW nonce \in Int,
           Len(p.queue) <= queue_limit,
           \A a \in Account : CountOf(p, a) <= account_txs_limit,
           NEW w \in Imported(p, t, nonce)
    PROVE  /\ Grown(w, p, t, nonce)
           /\ \A old \in Slot(p, t.acct, t.nonce) : t \in w.by_nonce => t = old \/ Outbids(t, old)
<1> DEFINE q == Noted(p, t, nonce)
           S == Slot(q, t.acct, t.nonce)
           replace == \E old \in S : Outbids(t, old)
           r == Noted(RemoveTx(q, t.acct, t.nonce), t, nonce)
<1>0. WithNoted(q, p, t, nonce)
  BY NotedPool
<1>1. /\ q \in Pool /\ Aligned(q) /\ q.by_nonce = p.by_nonce /\ q.queue = p.queue
      /\ DOMAIN q.account_nonce = AccountsOf(p.by_nonce) \cup {t.acct}
      /\ Renonced(q, p, t.acct, nonce)
  BY <1>0 DEF WithNoted
<1>2. \/ w = q /\ S # {} /\ ~ replace
      \/ w = q /\ CountOf(q, t.acct) >= account_txs_limit
      \/ replace /\ \E i \in Places(r, t) : w = EvictLast(Insert(r, t, i))
      \/ /\ S = {} /\ CountOf(q, t.acct) < account_txs_limit
         /\ \E i \in Places(q, t) : w = EvictLast(Insert(q, t, i))
  <2> HIDE DEF r
  <2>1. w \in IF S # {} /\ ~ replace THEN {q}
             ELSE IF replace \/ CountOf(q, t.acct) < account_txs_limit
               THEN {EvictLast(Insert(IF replace THEN r ELSE q, t, i)) :
                        i \in Places(IF replace THEN r ELSE q, t)}
             ELSE {q}
    BY DEF Imported, r, Noted
  <2>2. CountOf(q, t.acct) \in Nat /\ account_txs_limit \in Nat
    BY <1>1, Counts, Limits
  <2> HIDE DEF q, S, replace
  <2>3. CASE S # {} /\ ~ replace
    BY <2>1, <2>3
  <2>4. CASE replace
    BY <2>1, <2>4
  <2>5. CASE S = {} /\ ~ replace /\ CountOf(q, t.acct) < account_txs_limit
    BY <2>1, <2>5
  <2>6. CASE S = {} /\ ~ replace /\ ~ (CountOf(q, t.acct) < account_txs_limit)
    BY <2>1, <2>2, <2>6
  <2>7. QED
    BY <2>3, <2>4, <2>5, <2>6
<1>3. S = Slot(p, t.acct, t.nonce) /\ \A a : CountOf(q, a) = CountOf(p, a)
  BY <1>1 DEF Slot, CountOf
<1>4. ASSUME w = q, t.acct \in AccountsOf(p.by_nonce) PROVE Grown(w, p, t, nonce)
  <2> HIDE DEF q
  <2>1. AccountsOf(q.by_nonce) = DOMAIN q.account_nonce
    BY <1>1, <1>4
  <2>2. Sound(q)
    BY <1>1, <2>1 DEF Sound
  <2>3. QED
    BY <1>1, <1>3, <1>4, <2>2 DEF Grown
<1>5. ASSUME NEW z, Ready(z, p, t, nonce), NEW i \in Places(z, t), w = EvictLast(Insert(z, t, i))
      PROVE  Grown(w, p, t, nonce)
  <2> DEFINE s == Insert(z, t, i)
  <2>1. i \in 0 .. Len(z.queue)
    BY DEF Places
  <2>2. /\ Sound(s) /\ Len(s.queue) <= queue_limit + 1
        /\ \A a \in Account : CountOf(s, a) <= account_txs_limit
        /\ s.by_nonce = z.by_nonce \cup {t}
        /\ s.account_nonce = z.account_nonce
    BY <1>5, <2>1, InsertPool
  <2> HIDE DEF s
  <2>3. w = EvictLast(s)
    BY <1>5 DEF s
  <2>4. /\ Sound(w) /\ Len(w.queue) <= queue_limit /\ w.by_nonce \subseteq s.by_nonce
        /\ \A x \in DOMAIN w.account_nonce :
              x \in DOMAIN s.account_nonce /\ w.account_nonce[x] = s.account_nonce[x]
    BY <2>2, <2>3, EvictLastPool
  <2>5. ASSUME NEW a \in Account PROVE CountOf(w, a) <= account_txs_limit
    <3>1. w \in Pool /\ Aligned(w) /\ s \in Pool /\ Aligned(s)
      BY <2>2, <2>4 DEF Sound
    <3>2. CountOf(w, a) <= CountOf(s, a) /\ CountOf(w, a) \in Nat /\ CountOf(s, a) \in Nat
      BY <2>4, <3>1, FewerCounts, Counts
    <3>3. QED
      BY <2>2, <3>2, Limits
  <2>6. z.by_nonce \subseteq p.by_nonce /\ Renonced(z, p, t.acct, nonce)
    BY <1>5 DEF Ready
  <2>7. Renonced(w, p, t.acct, nonce)
    BY <2>2, <2>4, <2>6 DEF Renonced
  <2>8. QED
    BY <2>2, <2>4, <2>5, <2>6, <2>7 DEF Grown
<1>6. CASE w = q /\ S # {} /\ ~ replace
  <2>1. t.acct \in AccountsOf(p.by_nonce)
    BY <1>6, <1>3 DEF Slot, AccountsOf
  <2>2. Grown(w, p, t, nonce)
    BY <1>4, <1>6, <2>1
  <2>3. QED
    <3> SUFFICES ASSUME NEW old \in Slot(p, t.acct, t.nonce), t \in w.by_nonce PROVE t = old
      BY <2>2
    <3>1. t \in p.by_nonce /\ old \in p.by_nonce /\ old.acct = t.acct /\ old.nonce = t.nonce
      BY <1>1, <1>6 DEF Slot
    <3>2. OneEach(p.by_nonce)
      BY DEF Sound, Aligned
    <3>3. QED
      BY <3>1, <3>2 DEF OneEach
<1>7. CASE w = q /\ CountOf(q, t.acct) >= account_txs_limit
  <2>1. t.acct \in AccountsOf(p.by_nonce)
    <3> SUFFICES ASSUME t.acct \notin AccountsOf(p.by_nonce) PROVE FALSE
      OBVIOUS
    <3>1. TxsOf(q, t.acct) = {}
      BY <1>1 DEF TxsOf, AccountsOf
    <3>2. CountOf(q, t.acct) = 0
      BY <1>1, <3>1, Counts, FS_EmptySet
    <3>3. QED
      BY <1>7, <3>2, Limits
  <2>2. Grown(w, p, t, nonce)
    BY <1>4, <1>7, <2>1
  <2>3. QED
    <3> SUFFICES ASSUME NEW old \in Slot(p, t.acct, t.nonce), t \in w.by_nonce PROVE t = old
      BY <2>2
    <3>1. t \in p.by_nonce /\ old \in p.by_nonce /\ old.acct = t.acct /\ old.nonce = t.nonce
      BY <1>1, <1>7 DEF Slot
    <3>2. OneEach(p.by_nonce)
      BY DEF Sound, Aligned
    <3>3. QED
      BY <3>1, <3>2 DEF OneEach
<1>8. CASE replace /\ \E i \in Places(r, t) : w = EvictLast(Insert(r, t, i))
  <2>1. Ready(r, p, t, nonce)
    <3>1. S # {}
      BY <1>8
    <3> HIDE DEF q
    <3>2. QED
      BY <1>0, <3>1, ReplacedReady, Zenon
  <2>2. Grown(w, p, t, nonce)
    <3> HIDE DEF r
    <3>1. QED
      BY <1>5, <1>8, <2>1
  <2>3. PICK o \in S : Outbids(t, o)
    BY <1>8
  <2>4. ASSUME NEW old \in Slot(p, t.acct, t.nonce) PROVE old = o
    <3>1. OneEach(p.by_nonce)
      BY DEF Sound, Aligned
    <3>2. QED
      BY <1>3, <2>3, <2>4, <3>1 DEF Slot, OneEach
  <2>5. QED
    BY <2>2, <2>3, <2>4
<1>9. CASE /\ S = {} /\ CountOf(q, t.acct) < account_txs_limit
           /\ \E i \in Places(q, t) : w = EvictLast(Insert(q, t, i))
  <2>1. Ready(q, p, t, nonce)
    <3>1. Len(p.queue) \in Nat
      BY DEF Sound, Pool
    <3> HIDE DEF q
    <3>2. QED
      BY <1>1, <1>9, <3>1 DEF Ready
  <2>2. Grown(w, p, t, nonce)
    <3> HIDE DEF q
    <3>1. QED
      BY <1>5, <1>9, <2>1
  <2>3. QED
    BY <1>3, <1>9, <2>2
<1>10. QED
  <2> HIDE DEF q, S, replace, r
  <2>1. QED
    BY <1>2, <1>6, <1>7, <1>8, <1>9

-----------------------------------------------------------------------------
(* Executing a list of transactions.                                       *)

\* The elements of a sequence, and what Append does to it.
LEMMA Appended ==
    ASSUME NEW S, NEW s \in Seq(S), NEW e \in S
    PROVE  /\ Append(s, e) \in Seq(S) /\ Len(Append(s, e)) = Len(s) + 1
           /\ \A j \in 1 .. Len(s) : Append(s, e)[j] = s[j]
           /\ Append(s, e)[Len(s) + 1] = e
           /\ Range(Append(s, e)) = Range(s) \cup {e}
<1> DEFINE r == Append(s, e)
<1>1. /\ r \in Seq(S) /\ Len(r) = Len(s) + 1 /\ Len(s) \in Nat
      /\ \A j \in 1 .. Len(s) : r[j] = s[j]
      /\ r[Len(s) + 1] = e
      /\ DOMAIN r = 1 .. Len(s) + 1 /\ DOMAIN s = 1 .. Len(s)
  OBVIOUS
<1> HIDE DEF r
<1>2. ASSUME NEW x PROVE x \in Range(r) <=> x \in Range(s) \/ x = e
  <2>1. ASSUME x \in Range(r) PROVE x \in Range(s) \/ x = e
    <3>1. PICK j \in 1 .. Len(s) + 1 : x = r[j]
      BY <1>1, <2>1 DEF Range
    <3>2. j \in 1 .. Len(s) \/ j = Len(s) + 1
      BY <1>1
    <3>3. QED
      BY <1>1, <3>1, <3>2 DEF Range
  <2>2. ASSUME x \in Range(s) PROVE x \in Range(r)
    <3>1. PICK j \in 1 .. Len(s) : x = s[j]
      BY <1>1, <2>2 DEF Range
    <3>2. j \in 1 .. Len(s) + 1 /\ r[j] = x
      BY <1>1, <3>1
    <3>3. QED
      BY <1>1, <3>2 DEF Range
  <2>3. ASSUME x = e PROVE x \in Range(r)
    <3>1. Len(s) + 1 \in 1 .. Len(s) + 1
      BY <1>1
    <3>2. QED
      BY <1>1, <2>3, <3>1 DEF Range
  <2>4. QED
    BY <2>1, <2>2, <2>3
<1>3. Range(r) = Range(s) \cup {e}
  BY <1>2
<1>4. QED
  BY <1>1, <1>3 DEF r

Nonces == [Account -> Int]

Lists == Seq(Tx)

Acc == [nonce : Nonces, kept : Lists, dropped : Lists]

\* The two things a turn of ApplyPropose does.
Advanced(y, x, t) ==
    /\ t.nonce = x.nonce[t.acct] + 1 /\ y.dropped = x.dropped
    /\ y.nonce[t.acct] = t.nonce
    /\ \A a \in Account : a # t.acct => y.nonce[a] = x.nonce[a]

Dropped(y, x, t, bad) ==
    /\ t \in bad \/ t.nonce # x.nonce[t.acct] + 1
    /\ y.nonce = x.nonce /\ Range(y.dropped) = Range(x.dropped) \cup {t}

\* One turn of ApplyPropose either advances the account's nonce by one or drops the
\* transaction, and leaves all other accounts alone.
LEMMA AppliedTurn ==
    ASSUME NEW x \in Acc, NEW t \in Tx, NEW bad
    PROVE  /\ Applied(x, t, bad) \in Acc
           /\ Advanced(Applied(x, t, bad), x, t) \/ Dropped(Applied(x, t, bad), x, t, bad)
<1> DEFINE y == Applied(x, t, bad)
           ok == t \notin bad /\ t.nonce = x.nonce[t.acct] + 1
<1>1. t.acct \in Account /\ t.nonce \in Int
  BY Limits DEF Account
<1>2. x.nonce \in [Account -> Int] /\ x.kept \in Seq(Tx) /\ x.dropped \in Seq(Tx)
  BY DEF Acc, Nonces, Lists
<1>3. CASE ok
  <2> DEFINE f == [x.nonce EXCEPT ![t.acct] = t.nonce]
             k == Append(x.kept, t)
  <2>1. y = [x EXCEPT !.nonce = f, !.kept = k]
    BY <1>3 DEF Applied
  <2>2. f \in Nonces
    BY <1>1, <1>2 DEF Nonces
  <2>3. k \in Lists
    BY <1>2 DEF Lists
  <2> HIDE DEF y, k, f
  <2>4. y \in Acc
    <3> DEFINE z == [x EXCEPT !.nonce = f]
    <3>1. z \in Acc
      BY <2>2 DEF Acc
    <3>2. y = [z EXCEPT !.kept = k]
      BY <2>1
    <3> HIDE DEF z
    <3>3. QED
      BY <2>3, <3>1, <3>2 DEF Acc
  <2>5. y.nonce = [x.nonce EXCEPT ![t.acct] = t.nonce] /\ y.dropped = x.dropped
    BY <2>1 DEF Acc, f
  <2>6. Advanced(y, x, t)
    BY <1>1, <1>2, <1>3, <2>5 DEF Advanced
  <2>7. QED
    BY <2>4, <2>6 DEF y
<1>4. CASE ~ ok
  <2> DEFINE d == Append(x.dropped, t)
  <2>1. y = [x EXCEPT !.dropped = d]
    BY <1>4 DEF Applied
  <2>2. d \in Lists /\ Range(d) = Range(x.dropped) \cup {t}
    BY <1>2, Appended DEF Lists
  <2> HIDE DEF y, d
  <2>3. y \in Acc /\ y.nonce = x.nonce /\ y.dropped = d
    BY <2>1, <2>2 DEF Acc
  <2>4. Dropped(y, x, t, bad)
    BY <1>4, <2>2, <2>3 DEF Dropped
  <2>5. QED
    BY <2>3, <2>4 DEF y
<1>5. QED
  BY <1>3, <1>4

\* ApplyPropose goes through the list from its start.
LEMMA ApplicationsTurns ==
    ASSUME NEW txs \in Seq(Tx), NEW bad, ledger_nonce \in [Account -> Int]
    PROVE  /\ Applications(txs, bad)[0] = [nonce |-> ledger_nonce, kept |-> <<>>, dropped |-> <<>>]
           /\ \A i \in 1 .. Len(txs) :
                 Applications(txs, bad)[i] = Applied(Applications(txs, bad)[i - 1], txs[i], bad)
           /\ \A i \in 0 .. Len(txs) : Applications(txs, bad)[i] \in Acc
<1> DEFINE n == Len(txs)
           start == [nonce |-> ledger_nonce, kept |-> <<>>, dropped |-> <<>>]
           turn == [is \in (1 .. n) \X Acc |-> Applied(is[2], txs[is[1]], bad)]
           Is(g) == g = [i \in 0 .. Len(txs) |->
                            IF i = 0 THEN start ELSE Applied(g[i - 1], txs[i], bad)]
           after == Applications(txs, bad)
<1>1. n \in Nat /\ DOMAIN txs = 1 .. n
  OBVIOUS
<1>2. start \in Acc
  BY DEF Acc, Nonces, Lists
<1>3. \A i \in 1 .. n, x \in Acc : Applied(x, txs[i], bad) \in Acc
  BY <1>1, AppliedTurn
<1> HIDE DEF n
<1>4. turn \in [(1 .. n) \X Acc -> Acc]
  BY <1>3
<1>5. \A is \in (1 .. n) \X Acc : turn[is] = Applied(is[2], txs[is[1]], bad)
  OBVIOUS
<1> HIDE DEF turn, start
<1>6. PICK g : g \in Runs(n, Acc, start, turn)
  <2>1. n \in Nat
    BY <1>1
  <2>2. Runs(n, Acc, start, turn) # {}
    BY <2>1, <1>2, <1>4, LoopRuns, ZenonT(60)
  <2>3. QED
    BY <2>2
<1>7. /\ g \in [0 .. n -> Acc] /\ g[0] = start
      /\ \A i \in 1 .. n : g[i] = turn[<<i, g[i - 1]>>]
  BY <1>6 DEF Runs
<1>8. ASSUME NEW i \in 1 .. n PROVE g[i] = Applied(g[i - 1], txs[i], bad)
  <2>1. i - 1 \in 0 .. n
    BY <1>1
  <2>2. g[i - 1] \in Acc
    BY <1>7, <2>1
  <2>3. <<i, g[i - 1]>> \in (1 .. n) \X Acc
    BY <2>2
  <2>4. QED
    BY <1>5, <1>7, <2>3
<1>9. Is(g)
  BY <1>7, <1>8 DEF n
<1>10. Is(CHOOSE f : Is(f))
  <2> HIDE DEF Is
  <2>1. QED
    BY <1>9
<1>11. after = CHOOSE f : Is(f)
  BY DEF Applications, start
<1>12. Is(after)
  <2> HIDE DEF after, Is
  <2>1. QED
    BY <1>10, <1>11
<1>13. after = [i \in 0 .. Len(txs) |->
                   IF i = 0 THEN start ELSE Applied(after[i - 1], txs[i], bad)]
  BY <1>12
<1> HIDE DEF after
<1>14. after[0] = start /\ \A i \in 1 .. n : after[i] = Applied(after[i - 1], txs[i], bad)
  BY <1>13 DEF n
<1> DEFINE Good == [i \in 0 .. n |-> Acc]
<1>15. after[0] \in Good[0] /\ \A i \in 1 .. n : after[i - 1] \in Good[i - 1] => after[i] \in Good[i]
  BY <1>1, <1>2, <1>3, <1>14
<1>16. \A i \in 0 .. n : after[i] \in Good[i]
  <2> HIDE DEF Good
  <2>1. n \in Nat
    BY <1>1
  <2>2. QED
    BY <1>15, <2>1, LoopStays, ZenonT(60)
<1>17. \A i \in 0 .. n : after[i] \in Acc
  BY <1>16
<1>18. QED
  BY <1>14, <1>17 DEF after, start, n

\* What has become of the first i transactions: none of them has a nonce that is
\* still to come unless it was dropped.
Settled(x, txs, i) ==
    /\ \A a \in Account : ledger_nonce[a] <= x.nonce[a]
    /\ \A j \in 1 .. i : txs[j] \in Range(x.dropped) \/ txs[j].nonce <= x.nonce[txs[j].acct]

\* One more turn of ApplyPropose settles one more transaction.
LEMMA SettledTurn ==
    ASSUME NEW txs \in Seq(Tx), NEW bad, ledger_nonce \in [Account -> Int],
           NEW i \in 1 .. Len(txs), NEW x \in Acc, Settled(x, txs, i - 1)
    PROVE  Settled(Applied(x, txs[i], bad), txs, i)
<1> DEFINE t == txs[i]
           y == Applied(x, t, bad)
<1>1. t \in Tx /\ t.acct \in Account /\ t.nonce \in Int /\ i \in Nat
  BY Limits DEF Account
<1>2. x.nonce \in [Account -> Int] /\ \A j \in 1 .. Len(txs) : txs[j] \in Tx
  BY DEF Acc, Nonces
<1>3. \A j \in 1 .. Len(txs) : txs[j].acct \in Account /\ txs[j].nonce \in Int
  BY <1>2, Limits DEF Account
<1>4. y \in Acc /\ (Advanced(y, x, t) \/ Dropped(y, x, t, bad))
  BY <1>1, AppliedTurn
<1>5. y.nonce \in [Account -> Int]
  BY <1>4 DEF Acc, Nonces
<1>6. /\ \A a \in Account : ledger_nonce[a] <= x.nonce[a]
      /\ \A j \in 1 .. i - 1 : txs[j] \in Range(x.dropped) \/ txs[j].nonce <= x.nonce[txs[j].acct]
  BY DEF Settled
<1> HIDE DEF y, t
<1>7. \A a \in Account : x.nonce[a] <= y.nonce[a]
  <2>1. CASE Advanced(y, x, t)
    BY <1>1, <1>2, <1>5, <2>1 DEF Advanced
  <2>2. CASE Dropped(y, x, t, bad)
    BY <1>2, <2>2 DEF Dropped
  <2>3. QED
    BY <1>4, <2>1, <2>2
<1>8. \A a \in Account : ledger_nonce[a] <= y.nonce[a]
  BY <1>2, <1>5, <1>6, <1>7
<1>9. Range(x.dropped) \subseteq Range(y.dropped)
  BY <1>4 DEF Advanced, Dropped
<1>10. ASSUME NEW j \in 1 .. i
       PROVE  txs[j] \in Range(y.dropped) \/ txs[j].nonce <= y.nonce[txs[j].acct]
  <2>1. CASE j = i
    <3>1. CASE Advanced(y, x, t)
      BY <1>1, <2>1, <3>1 DEF Advanced, t
    <3>2. CASE Dropped(y, x, t, bad)
      BY <2>1, <3>2 DEF Dropped, t
    <3>3. QED
      BY <1>4, <3>1, <3>2
  <2>2. CASE j # i
    <3>1. j \in 1 .. i - 1 /\ j \in 1 .. Len(txs)
      BY <2>2
    <3>2. CASE txs[j] \in Range(x.dropped)
      BY <1>9, <3>2
    <3>3. CASE txs[j].nonce <= x.nonce[txs[j].acct]
      <4>1. txs[j].acct \in Account /\ txs[j].nonce \in Int
        BY <1>3, <3>1
      <4>2. x.nonce[txs[j].acct] <= y.nonce[txs[j].acct]
        BY <1>7, <4>1
      <4>3. x.nonce[txs[j].acct] \in Int /\ y.nonce[txs[j].acct] \in Int
        BY <1>2, <1>5, <4>1
      <4>4. QED
        BY <3>3, <4>1, <4>2, <4>3
    <3>4. QED
      BY <1>6, <3>1, <3>2, <3>3
  <2>3. QED
    BY <2>1, <2>2
<1>11. Settled(y, txs, i)
  BY <1>8, <1>10 DEF Settled
<1>12. QED
  BY <1>11 DEF y, t

\* ApplyPropose settles the whole list.
LEMMA ApplyProposeSettles ==
    ASSUME NEW txs \in Seq(Tx), NEW bad, ledger_nonce \in [Account -> Int]
    PROVE  /\ ApplyPropose(txs, bad) \in Acc
           /\ Settled(ApplyPropose(txs, bad), txs, Len(txs))
<1> DEFINE n == Len(txs)
           after == Applications(txs, bad)
           Good == [i \in 0 .. n |-> {x \in Acc : Settled(x, txs, i)}]
<1>1. n \in Nat
  OBVIOUS
<1>2. /\ after[0] = [nonce |-> ledger_nonce, kept |-> <<>>, dropped |-> <<>>]
      /\ \A i \in 1 .. n : after[i] = Applied(after[i - 1], txs[i], bad)
      /\ \A i \in 0 .. n : after[i] \in Acc
  BY ApplicationsTurns
<1>3. ApplyPropose(txs, bad) = after[n]
  BY DEF ApplyPropose
<1> HIDE DEF after
<1>4. after[0] \in Good[0]
  <2>1. after[0] \in Acc /\ 0 \in 0 .. n
    BY <1>1, <1>2
  <2>2. after[0].nonce = ledger_nonce
    BY <1>2
  <2>3. Settled(after[0], txs, 0)
    BY <2>2 DEF Settled
  <2>4. QED
    BY <2>1, <2>3
<1>5. ASSUME NEW i \in 1 .. n, after[i - 1] \in Good[i - 1] PROVE after[i] \in Good[i]
  <2>1. i - 1 \in 0 .. n /\ i \in 0 .. n
    BY <1>1
  <2>2. after[i - 1] \in Acc /\ Settled(after[i - 1], txs, i - 1)
    BY <1>5, <2>1
  <2>3. Settled(after[i], txs, i)
    <3>1. Settled(Applied(after[i - 1], txs[i], bad), txs, i)
      BY <2>2, SettledTurn, ZenonT(60)
    <3>2. QED
      BY <1>2, <3>1
  <2>4. QED
    BY <1>2, <2>1, <2>3
<1>6. \A i \in 0 .. n : after[i] \in Good[i]
  <2> HIDE DEF Good, n
  <2>1. \A i \in 1 .. n : after[i - 1] \in Good[i - 1] => after[i] \in Good[i]
    BY <1>5
  <2>2. QED
    BY <1>1, <1>4, <2>1, LoopStays, ZenonT(60)
<1>7. n \in 0 .. n
  BY <1>1
<1>8. after[n] \in Acc /\ Settled(after[n], txs, n)
  BY <1>6, <1>7
<1>9. QED
  BY <1>3, <1>8

\* An account's nonce only advances over nonces of transactions in the list.
Covered(x, txs, i) ==
    \A a \in Account, k \in Int :
        ledger_nonce[a] < k /\ k <= x.nonce[a] =>
            \E j \in 1 .. i : txs[j].acct = a /\ txs[j].nonce = k

\* A transaction is dropped for its nonce only when that is used, or when an
\* earlier one of its account is dropped too.
Dead(x, bad) ==
    \A t \in Range(x.dropped) \ bad :
        \/ t.nonce <= ledger_nonce[t.acct]
        \/ \E u \in Range(x.dropped) : u.acct = t.acct /\ u.nonce < t.nonce

\* A turn of ApplyPropose advances a nonce only to that of the transaction it reads.
LEMMA CoveredTurn ==
    ASSUME NEW txs \in Seq(Tx), NEW bad, ledger_nonce \in [Account -> Int],
           NEW i \in 1 .. Len(txs), NEW x \in Acc, Covered(x, txs, i - 1)
    PROVE  Covered(Applied(x, txs[i], bad), txs, i)
<1> DEFINE t == txs[i]
           y == Applied(x, t, bad)
<1>1. t \in Tx /\ t.acct \in Account /\ t.nonce \in Int /\ i \in Nat /\ i \in 1 .. i
  BY Limits DEF Account
<1>2. x.nonce \in [Account -> Int]
  BY DEF Acc, Nonces
<1>3. y \in Acc /\ (Advanced(y, x, t) \/ Dropped(y, x, t, bad))
  BY <1>1, AppliedTurn
<1> HIDE DEF y
<1>4. ASSUME NEW a \in Account, NEW k \in Int, ledger_nonce[a] < k, k <= y.nonce[a]
      PROVE  \E j \in 1 .. i : txs[j].acct = a /\ txs[j].nonce = k
  <2>1. CASE k <= x.nonce[a]
    <3>1. PICK j \in 1 .. i - 1 : txs[j].acct = a /\ txs[j].nonce = k
      BY <1>4, <2>1 DEF Covered
    <3>2. j \in 1 .. i
      BY <1>1
    <3>3. QED
      BY <3>1, <3>2
  <2>2. CASE ~ (k <= x.nonce[a])
    <3>1. Advanced(y, x, t) /\ a = t.acct
      BY <1>2, <1>3, <1>4, <2>2 DEF Advanced, Dropped
    <3>2. x.nonce[a] \in Int /\ y.nonce[a] = t.nonce /\ t.nonce = x.nonce[a] + 1
      BY <1>2, <3>1 DEF Advanced
    <3>3. k = t.nonce
      BY <1>1, <1>4, <2>2, <3>2
    <3>4. QED
      BY <1>1, <3>1, <3>3
  <2>3. QED
    BY <2>1, <2>2
<1>5. Covered(y, txs, i)
  BY <1>4 DEF Covered
<1>6. QED
  BY <1>5 DEF y

\* If the list has every account's nonces without a gap, a turn of ApplyPropose drops
\* a transaction with a nonce still to come only after an earlier one of its account.
LEMMA DeadTurn ==
    ASSUME NEW txs \in Seq(Tx), NEW bad, ledger_nonce \in [Account -> Int],
           Distinct(txs), NoGaps(txs, ledger_nonce),
           NEW i \in 1 .. Len(txs), NEW x \in Acc,
           Settled(x, txs, i - 1), Covered(x, txs, i - 1), Dead(x, bad)
    PROVE  Dead(Applied(x, txs[i], bad), bad)
<1> DEFINE t == txs[i]
           y == Applied(x, t, bad)
           n == x.nonce[t.acct]
<1>1. /\ t \in Tx /\ t.acct \in Account /\ t.nonce \in Int /\ i \in Nat
      /\ i \in DOMAIN txs /\ DOMAIN txs = 1 .. Len(txs) /\ Len(txs) \in Nat
  BY Limits DEF Account
<1>2. n \in Int /\ ledger_nonce[t.acct] \in Int /\ ledger_nonce[t.acct] <= n
  BY <1>1 DEF Acc, Nonces, Settled
<1>3. y \in Acc /\ (Advanced(y, x, t) \/ Dropped(y, x, t, bad))
  BY <1>1, AppliedTurn
<1> HIDE DEF y
<1>4. CASE Advanced(y, x, t)
  BY <1>4 DEF Advanced, Dead, y
<1>5. CASE Dropped(y, x, t, bad)
  <2>1. Range(y.dropped) = Range(x.dropped) \cup {t}
    BY <1>5 DEF Dropped
  <2>2. ASSUME t \notin bad, ~ (t.nonce <= ledger_nonce[t.acct])
        PROVE  \E u \in Range(x.dropped) : u.acct = t.acct /\ u.nonce < t.nonce
    <3>1. t.nonce # n + 1
      BY <1>5, <2>2 DEF Dropped
    <3>2. ~ (t.nonce <= n)
      <4> SUFFICES ASSUME t.nonce <= n PROVE FALSE
        OBVIOUS
      <4>0. ledger_nonce[t.acct] < t.nonce /\ t.nonce <= x.nonce[t.acct]
        BY <1>1, <1>2, <2>2
      <4>1. PICK j \in 1 .. i - 1 : txs[j].acct = t.acct /\ txs[j].nonce = t.nonce
        <5> HIDE DEF t
        <5>1. QED
          BY <1>1, <4>0 DEF Covered
      <4>2. j \in DOMAIN txs /\ j # i
        BY <1>1
      <4>3. QED
        BY <1>1, <4>1, <4>2 DEF Distinct
    <3>3. n + 1 \in Int /\ ledger_nonce[t.acct] < n + 1 /\ n + 1 <= t.nonce /\ n + 1 < t.nonce
      <4>1. t.nonce \in Int /\ n \in Int /\ ledger_nonce[t.acct] \in Int
        BY <1>1, <1>2
      <4>2. ledger_nonce[t.acct] <= n
        BY <1>2
      <4> HIDE DEF t, n
      <4>3. QED
        BY <3>1, <3>2, <4>1, <4>2
    <3>4. PICK j \in 1 .. i : txs[j].acct = t.acct /\ txs[j].nonce = n + 1
      BY <1>1, <3>3, Zenon DEF NoGaps
    <3>5. j # i
      BY <3>1, <3>4
    <3>6. j \in 1 .. i - 1
      BY <1>1, <3>5
    <3>7. txs[j] \in Range(x.dropped) \/ txs[j].nonce <= x.nonce[txs[j].acct]
      BY <3>6 DEF Settled
    <3>8. ~ (n + 1 <= n)
      BY <1>2
    <3>9. txs[j] \in Range(x.dropped)
      BY <3>4, <3>7, <3>8
    <3>10. QED
      BY <3>3, <3>4, <3>9
  <2> HIDE DEF t
  <2>3. ASSUME NEW u \in Range(y.dropped) \ bad
        PROVE  \/ u.nonce <= ledger_nonce[u.acct]
               \/ \E v \in Range(y.dropped) : v.acct = u.acct /\ v.nonce < u.nonce
    <3>1. CASE u = t
      BY <2>1, <2>2, <3>1
    <3>2. CASE u \in Range(x.dropped)
      BY <2>1, <3>2 DEF Dead
    <3>3. QED
      BY <2>1, <3>1, <3>2
  <2>4. QED
    BY <2>3 DEF Dead, y, t
<1>6. QED
  BY <1>3, <1>4, <1>5

\* When the list has no gaps, ApplyPropose drops for its nonce only what is dead.
LEMMA ApplyProposeDropsDead ==
    ASSUME NEW txs \in Seq(Tx), NEW bad, ledger_nonce \in [Account -> Int],
           Distinct(txs), NoGaps(txs, ledger_nonce)
    PROVE  Dead(ApplyPropose(txs, bad), bad)
<1> DEFINE n == Len(txs)
           after == Applications(txs, bad)
           Good == [i \in 0 .. n |->
                       {x \in Acc : Settled(x, txs, i) /\ Covered(x, txs, i) /\ Dead(x, bad)}]
<1>1. n \in Nat
  OBVIOUS
<1>2. /\ after[0] = [nonce |-> ledger_nonce, kept |-> <<>>, dropped |-> <<>>]
      /\ \A i \in 1 .. n : after[i] = Applied(after[i - 1], txs[i], bad)
      /\ \A i \in 0 .. n : after[i] \in Acc
  BY ApplicationsTurns
<1>3. ApplyPropose(txs, bad) = after[n]
  BY DEF ApplyPropose
<1> HIDE DEF after
<1>4. after[0] \in Good[0]
  <2>1. after[0] \in Acc /\ 0 \in 0 .. n
    BY <1>1, <1>2
  <2>2. after[0].nonce = ledger_nonce /\ after[0].dropped = <<>>
    BY <1>2
  <2>3. Settled(after[0], txs, 0) /\ Covered(after[0], txs, 0)
    BY <2>2 DEF Settled, Covered
  <2>4. Range(after[0].dropped) = {}
    BY <2>2 DEF Range
  <2>5. Dead(after[0], bad)
    BY <2>4 DEF Dead
  <2>6. QED
    BY <2>1, <2>3, <2>5
<1>5. ASSUME NEW i \in 1 .. n, after[i - 1] \in Good[i - 1] PROVE after[i] \in Good[i]
  <2> DEFINE x == after[i - 1]
  <2>1. i - 1 \in 0 .. n /\ i \in 0 .. n
    BY <1>1
  <2>2. x \in Acc /\ Settled(x, txs, i - 1) /\ Covered(x, txs, i - 1) /\ Dead(x, bad)
    BY <1>5, <2>1
  <2>3. after[i] = Applied(x, txs[i], bad) /\ after[i] \in Acc
    BY <1>2, <2>1
  <2> HIDE DEF x
  <2>4. Settled(Applied(x, txs[i], bad), txs, i)
    BY <2>2, SettledTurn, ZenonT(60)
  <2>5. Covered(Applied(x, txs[i], bad), txs, i)
    BY <2>2, CoveredTurn, ZenonT(60)
  <2>6. Dead(Applied(x, txs[i], bad), bad)
    BY <2>2, DeadTurn, ZenonT(60)
  <2>7. QED
    BY <2>1, <2>3, <2>4, <2>5, <2>6
<1>6. \A i \in 0 .. n : after[i] \in Good[i]
  <2> HIDE DEF Good, n
  <2>1. \A i \in 1 .. n : after[i - 1] \in Good[i - 1] => after[i] \in Good[i]
    BY <1>5
  <2>2. QED
    BY <1>1, <1>4, <2>1, LoopStays, ZenonT(60)
<1>7. n \in 0 .. n
  BY <1>1
<1>8. Dead(after[n], bad)
  BY <1>6, <1>7
<1>9. QED
  BY <1>3, <1>8

-----------------------------------------------------------------------------
(* Choosing the transactions of a block.                                   *)

Walk == [txs : Lists, broken : SUBSET Account, seqs : NonceMap]

\* What TopTransaction has chosen from the first i of the queue: each once, each
\* after one for every nonce between the account's and its own.
Chosen(x, p, i) ==
    /\ \A j \in DOMAIN x.txs : \E k \in 1 .. i : x.txs[j] = p.queue[k]
    /\ Distinct(x.txs)
    /\ NoGaps(x.txs, p.account_nonce)
    /\ \A a \in DOMAIN x.seqs :
          \E j \in DOMAIN x.txs : x.txs[j].acct = a /\ x.txs[j].nonce = x.seqs[a]

\* One turn of TopTransaction, on a pool whose indexes agree, keeps the chosen
\* transactions distinct and without gaps.
LEMMA VisitedTurn ==
    ASSUME NEW p, Sound(p), NEW limit, NEW i \in 1 .. Len(p.queue),
           NEW x \in Walk, Chosen(x, p, i - 1)
    PROVE  /\ Visited(p, limit, x, p.queue[i]) \in Walk
           /\ Chosen(Visited(p, limit, x, p.queue[i]), p, i)
<1> DEFINE t == p.queue[i]
           a == t.acct
           last == IF a \in DOMAIN x.seqs THEN x.seqs[a] ELSE p.account_nonce[a]
           y == Visited(p, limit, x, t)
           f == WithNonce(x.seqs, a, t.nonce)
           s == Append(x.txs, t)
           m == Len(x.txs)
<1>1. /\ p \in Pool /\ Aligned(p) /\ p.queue \in Seq(Tx) /\ Len(p.queue) \in Nat
      /\ DOMAIN p.queue = 1 .. Len(p.queue) /\ IsInjective(p.queue)
      /\ Range(p.queue) = p.by_nonce /\ OneEach(p.by_nonce)
      /\ DOMAIN p.account_nonce = AccountsOf(p.by_nonce)
      /\ p.account_nonce \in NonceMap
  BY DEF Sound, Pool, Aligned
<1>2. t \in Tx /\ t.nonce \in Int /\ a \in Account /\ t \in p.by_nonce /\ i \in Nat
  BY <1>1, Limits DEF Account, Range
<1>3. /\ x.txs \in Seq(Tx) /\ x.seqs \in NonceMap /\ x.broken \in SUBSET Account
      /\ m \in Nat /\ DOMAIN x.txs = 1 .. m
  BY DEF Walk, Lists
<1>4. \/ y = x
      \/ y = [x EXCEPT !.broken = @ \cup {a}]
      \/ ~ (t.nonce > last + 1) /\ y = [x EXCEPT !.seqs = f, !.txs = s]
  BY DEF Visited
<1>5. \A j \in 1 .. m : \E k \in 1 .. i : x.txs[j] = p.queue[k]
  <2> SUFFICES ASSUME NEW j \in 1 .. m PROVE \E k \in 1 .. i : x.txs[j] = p.queue[k]
    OBVIOUS
  <2>1. PICK k \in 1 .. i - 1 : x.txs[j] = p.queue[k]
    BY <1>3 DEF Chosen
  <2>2. k \in 1 .. i
    BY <1>2
  <2>3. QED
    BY <2>1, <2>2
<1>6. /\ Distinct(x.txs) /\ NoGaps(x.txs, p.account_nonce)
      /\ \A b \in DOMAIN x.seqs : \E j \in 1 .. m : x.txs[j].acct = b /\ x.txs[j].nonce = x.seqs[b]
  BY <1>3 DEF Chosen
<1> HIDE DEF y
<1>7. ASSUME y \in Walk, y.txs = x.txs, y.seqs = x.seqs PROVE Chosen(y, p, i)
  BY <1>3, <1>5, <1>6, <1>7 DEF Chosen
<1>8. CASE y = x
  BY <1>7, <1>8 DEF y
<1>9. CASE y = [x EXCEPT !.broken = @ \cup {a}]
  <2> DEFINE B == x.broken \cup {a}
  <2>1. B \in SUBSET Account /\ y = [x EXCEPT !.broken = B]
    BY <1>2, <1>3, <1>9
  <2> HIDE DEF B
  <2>2. y \in Walk /\ y.txs = x.txs /\ y.seqs = x.seqs
    BY <2>1 DEF Walk
  <2>3. QED
    BY <1>7, <2>2 DEF y
<1>10. CASE ~ (t.nonce > last + 1) /\ y = [x EXCEPT !.seqs = f, !.txs = s]
  <2>1. Recorded(f, x.seqs, a, t.nonce)
    BY <1>2, <1>3, WithNonceMap
  <2>2. /\ s \in Lists /\ Len(s) = m + 1 /\ \A j \in 1 .. m : s[j] = x.txs[j]
        /\ s[m + 1] = t
    BY <1>2, <1>3, Appended DEF Lists
  <2>3. DOMAIN s = 1 .. m + 1 /\ \A j \in 1 .. m + 1 : j \in 1 .. m \/ j = m + 1
    BY <1>3, <2>2 DEF Lists
  <2> HIDE DEF f, s
  <2>4. /\ f \in NonceMap /\ DOMAIN f = DOMAIN x.seqs \cup {a} /\ f[a] = t.nonce
        /\ \A b \in DOMAIN x.seqs : b # a => f[b] = x.seqs[b]
    BY <2>1 DEF Recorded
  <2>5. y \in Walk /\ y.txs = s /\ y.seqs = f
    <3> DEFINE z == [x EXCEPT !.seqs = f]
    <3>1. z \in Walk /\ z.seqs = f
      BY <2>4 DEF Walk
    <3>2. y = [z EXCEPT !.txs = s]
      BY <1>10
    <3> HIDE DEF z
    <3>3. QED
      BY <2>2, <3>1, <3>2 DEF Walk
  <2>6. ASSUME NEW j \in 1 .. m + 1 PROVE \E k \in 1 .. i : s[j] = p.queue[k]
    <3>1. CASE j \in 1 .. m
      BY <1>5, <2>2, <3>1
    <3>2. CASE j = m + 1
      <4>1. i \in 1 .. i
        BY <1>2
      <4>2. QED
        BY <2>2, <3>2, <4>1
    <3>3. QED
      BY <2>3, <3>1, <3>2
  <2>7. ASSUME NEW j \in 1 .. m PROVE ~ (x.txs[j].acct = a /\ x.txs[j].nonce = t.nonce)
    <3> SUFFICES ASSUME x.txs[j].acct = a, x.txs[j].nonce = t.nonce PROVE FALSE
      OBVIOUS
    <3>1. PICK k \in 1 .. i - 1 : x.txs[j] = p.queue[k]
      BY <1>3 DEF Chosen
    <3>2. k \in DOMAIN p.queue /\ k # i /\ i \in DOMAIN p.queue
      BY <1>1, <1>2
    <3>3. p.queue[k] \in p.by_nonce
      BY <1>1, <3>2 DEF Range
    <3>4. p.queue[k] = t
      BY <1>1, <1>2, <3>1, <3>3 DEF OneEach
    <3>5. QED
      BY <1>1, <3>2, <3>4 DEF IsInjective
  <2>8. Distinct(s)
    <3> SUFFICES ASSUME NEW j \in 1 .. m + 1, NEW k \in 1 .. m + 1,
                        s[j].acct = s[k].acct, s[j].nonce = s[k].nonce
                 PROVE  j = k
      BY <2>3 DEF Distinct
    <3>1. CASE j \in 1 .. m /\ k \in 1 .. m
      <4>1. s[j] = x.txs[j] /\ s[k] = x.txs[k]
        BY <2>2, <3>1
      <4>2. j \in DOMAIN x.txs /\ k \in DOMAIN x.txs
        BY <1>3, <3>1
      <4>3. Distinct(x.txs)
        BY <1>6
      <4>4. QED
        BY <4>1, <4>2, <4>3 DEF Distinct
    <3>2. CASE j \in 1 .. m /\ k = m + 1
      <4>1. s[j] = x.txs[j] /\ s[k] = t
        BY <2>2, <3>2
      <4>2. QED
        BY <2>7, <3>2, <4>1
    <3>3. CASE j = m + 1 /\ k \in 1 .. m
      <4>1. s[j] = t /\ s[k] = x.txs[k]
        BY <2>2, <3>3
      <4>2. QED
        BY <2>7, <3>3, <4>1
    <3>4. QED
      BY <2>3, <3>1, <3>2, <3>3
  <2>9. NoGaps(s, p.account_nonce)
    <3> SUFFICES ASSUME NEW j \in 1 .. m + 1, NEW k \in Int,
                        p.account_nonce[s[j].acct] < k, k <= s[j].nonce
                 PROVE  \E l \in 1 .. j : s[l].acct = s[j].acct /\ s[l].nonce = k
      BY <2>3 DEF NoGaps
    \* The transactions chosen before have no gaps.
    <3>1. ASSUME NEW h \in 1 .. m, x.txs[h].acct = s[j].acct, k <= x.txs[h].nonce
          PROVE  \E l \in 1 .. h : s[l].acct = s[j].acct /\ s[l].nonce = k
      <4>1. PICK l \in 1 .. h : x.txs[l].acct = x.txs[h].acct /\ x.txs[l].nonce = k
        BY <1>3, <1>6, <3>1 DEF NoGaps
      <4>2. l \in 1 .. m
        BY <1>3
      <4>3. s[l] = x.txs[l]
        BY <2>2, <4>2
      <4>4. QED
        BY <3>1, <4>1, <4>3
    <3>2. CASE j \in 1 .. m
      <4>1. s[j] = x.txs[j]
        BY <2>2, <3>2
      <4>2. QED
        BY <3>1, <3>2, <4>1
    <3>3. CASE j = m + 1
      <4>1. s[j] = t
        BY <2>2, <3>3
      <4>2. CASE k = t.nonce
        BY <1>3, <3>3, <4>1, <4>2
      <4>3. CASE k # t.nonce
        <5>1. p.account_nonce \in [DOMAIN p.account_nonce -> Int] /\ a \in DOMAIN p.account_nonce
          <6>1. a \in AccountsOf(p.by_nonce)
            BY <1>2 DEF AccountsOf
          <6>2. QED
            BY <1>1, <6>1, NonceMaps
        <5>2. x.seqs \in [DOMAIN x.seqs -> Int]
          BY <1>3, NonceMaps
        <5>3. last \in Int
          BY <5>1, <5>2
        <5>4. k <= last
          <6>1. k <= t.nonce
            BY <4>1
          <6>2. ~ (t.nonce > last + 1)
            BY <1>10
          <6> HIDE DEF last
          <6>3. QED
            BY <1>2, <4>3, <5>3, <6>1, <6>2
        <5>5. a \in DOMAIN x.seqs /\ last = x.seqs[a]
          <6>1. p.account_nonce[a] \in Int /\ p.account_nonce[a] < k
            BY <4>1, <5>1
          <6>2. last # p.account_nonce[a]
            <7> HIDE DEF last
            <7>1. QED
              BY <5>4, <6>1
          <6>3. QED
            BY <6>2
        <5>6. PICK h \in 1 .. m : x.txs[h].acct = a /\ x.txs[h].nonce = x.seqs[a]
          BY <1>6, <5>5
        <5> HIDE DEF last
        <5>7. PICK l \in 1 .. h : s[l].acct = s[j].acct /\ s[l].nonce = k
          BY <3>1, <4>1, <5>4, <5>5, <5>6
        <5>8. l \in 1 .. j
          BY <1>3, <3>3
        <5>9. QED
          BY <5>7, <5>8
      <4>4. QED
        BY <4>2, <4>3
    <3>4. QED
      BY <2>3, <3>2, <3>3
  <2>10. ASSUME NEW b \in DOMAIN f
         PROVE  \E j \in 1 .. m + 1 : s[j].acct = b /\ s[j].nonce = f[b]
    <3>1. CASE b = a
      BY <1>3, <2>2, <2>4, <3>1
    <3>2. CASE b # a
      <4>1. PICK j \in 1 .. m : x.txs[j].acct = b /\ x.txs[j].nonce = x.seqs[b]
        BY <1>6, <2>4, <3>2
      <4>2. j \in 1 .. m + 1
        BY <1>3
      <4>3. QED
        BY <2>2, <2>4, <3>2, <4>1, <4>2
    <3>3. QED
      BY <3>1, <3>2
  <2>11. Chosen(y, p, i)
    BY <2>3, <2>5, <2>6, <2>8, <2>9, <2>10 DEF Chosen
  <2>12. QED
    BY <2>5, <2>11 DEF y
<1>11. QED
  BY <1>4, <1>8, <1>9, <1>10

Started == [txs |-> <<>>, broken |-> {}, seqs |-> [a \in {} |-> 0]]

\* Before the first transaction.
LEMMA StartedChosen ==
    ASSUME NEW p PROVE Started \in Walk /\ Chosen(Started, p, 0)
<1> DEFINE e == [a \in {} |-> 0]
<1>1. DOMAIN e = {} /\ e \in [{} -> Int]
  OBVIOUS
<1>2. e \in NonceMap
  <2>1. DOMAIN e \subseteq Account /\ e \in [DOMAIN e -> Int]
    BY <1>1
  <2> HIDE DEF e
  <2>2. QED
    BY <2>1, NonceMaps
<1>3. Started = [txs |-> <<>>, broken |-> {}, seqs |-> e]
  BY DEF Started
<1> HIDE DEF e
<1>4. Started \in Walk
  BY <1>2, <1>3 DEF Walk, Lists
<1>5. DOMAIN Started.txs = {} /\ DOMAIN Started.seqs = {}
  BY <1>1, <1>3
<1>6. Chosen(Started, p, 0)
  BY <1>5 DEF Chosen, Distinct, NoGaps
<1>7. QED
  BY <1>4, <1>6

\* TopTransaction walks the queue from its start.
LEMMA VisitsTurns ==
    ASSUME NEW p, Sound(p), NEW limit
    PROVE  /\ Visits(p, limit)[0] = Started
           /\ \A i \in 1 .. Len(p.queue) :
                 Visits(p, limit)[i] = Visited(p, limit, Visits(p, limit)[i - 1], p.queue[i])
<1> DEFINE n == Len(p.queue)
           turn == [is \in (1 .. n) \X Walk |-> IF Chosen(is[2], p, is[1] - 1)
                                                  THEN Visited(p, limit, is[2], p.queue[is[1]])
                                                  ELSE is[2]]
           Is(g) == g = [i \in 0 .. Len(p.queue) |->
                            IF i = 0 THEN Started ELSE Visited(p, limit, g[i - 1], p.queue[i])]
           after == Visits(p, limit)
<1>1. n \in Nat
  BY DEF Sound, Pool
<1>2. Started \in Walk /\ Chosen(Started, p, 0)
  BY StartedChosen
<1>3. \A i \in 1 .. n, x \in Walk :
         Chosen(x, p, i - 1) => /\ Visited(p, limit, x, p.queue[i]) \in Walk
                                /\ Chosen(Visited(p, limit, x, p.queue[i]), p, i)
  BY VisitedTurn, ZenonT(60)
<1> HIDE DEF n
<1>4. turn \in [(1 .. n) \X Walk -> Walk]
  BY <1>3
<1>5. \A i \in 1 .. n, x \in Walk :
         Chosen(x, p, i - 1) => turn[<<i, x>>] = Visited(p, limit, x, p.queue[i])
  OBVIOUS
<1> HIDE DEF turn
<1>6. PICK g : g \in Runs(n, Walk, Started, turn)
  <2>1. Started \in Walk
    BY <1>2
  <2>2. Runs(n, Walk, Started, turn) # {}
    BY <1>1, <2>1, <1>4, LoopRuns, ZenonT(60)
  <2>3. QED
    BY <2>2
<1>7. /\ g \in [0 .. n -> Walk] /\ g[0] = Started
      /\ \A i \in 1 .. n : g[i] = turn[<<i, g[i - 1]>>]
  BY <1>6 DEF Runs
<1> DEFINE Good == [i \in 0 .. n |-> {x \in Walk : Chosen(x, p, i)}]
<1>8. ASSUME NEW i \in 1 .. n, g[i - 1] \in Good[i - 1]
      PROVE  g[i] \in Good[i] /\ g[i] = Visited(p, limit, g[i - 1], p.queue[i])
  <2>1. i - 1 \in 0 .. n /\ i \in 0 .. n
    BY <1>1
  <2>2. g[i - 1] \in Walk /\ Chosen(g[i - 1], p, i - 1)
    BY <1>8, <2>1
  <2>3. g[i] = Visited(p, limit, g[i - 1], p.queue[i])
    <3>1. turn[<<i, g[i - 1]>>] = Visited(p, limit, g[i - 1], p.queue[i])
      BY <1>5, <2>2
    <3>2. g[i] = turn[<<i, g[i - 1]>>]
      BY <1>7
    <3>3. QED
      BY <3>1, <3>2
  <2>4. QED
    BY <1>3, <2>1, <2>2, <2>3
<1>9. g[0] \in Good[0]
  BY <1>1, <1>2, <1>7
<1>10. \A i \in 0 .. n : g[i] \in Good[i]
  <2> HIDE DEF Good
  <2>1. \A i \in 1 .. n : g[i - 1] \in Good[i - 1] => g[i] \in Good[i]
    BY <1>8
  <2>2. QED
    BY <1>1, <1>9, <2>1, LoopStays, ZenonT(60)
<1>11. ASSUME NEW i \in 1 .. n PROVE g[i] = Visited(p, limit, g[i - 1], p.queue[i])
  <2>1. i - 1 \in 0 .. n
    BY <1>1
  <2> HIDE DEF Good
  <2>2. QED
    BY <1>8, <1>10, <2>1
<1>12. Is(g)
  BY <1>7, <1>11 DEF n
<1>13. Is(CHOOSE f : Is(f))
  <2> HIDE DEF Is
  <2>1. QED
    BY <1>12
<1>14. after = CHOOSE f : Is(f)
  BY DEF Visits, Started
<1>15. Is(after)
  <2> HIDE DEF after, Is
  <2>1. QED
    BY <1>13, <1>14
<1>16. after = [i \in 0 .. Len(p.queue) |->
                   IF i = 0 THEN Started ELSE Visited(p, limit, after[i - 1], p.queue[i])]
  BY <1>15
<1> HIDE DEF after
<1>17. /\ after[0] = Started
       /\ \A i \in 1 .. Len(p.queue) : after[i] = Visited(p, limit, after[i - 1], p.queue[i])
  BY <1>1, <1>16 DEF n
<1>18. QED
  BY <1>17 DEF after

\* The block that TopTransaction makes up has no transaction twice and no gaps.
LEMMA TopTransactionChosen ==
    ASSUME NEW p, Sound(p), NEW limit
    PROVE  /\ TopTransaction(p, limit) \in Seq(Tx)
           /\ Distinct(TopTransaction(p, limit))
           /\ NoGaps(TopTransaction(p, limit), p.account_nonce)
           /\ Range(TopTransaction(p, limit)) \subseteq p.by_nonce
<1> DEFINE n == Len(p.queue)
           after == Visits(p, limit)
           Good == [i \in 0 .. n |-> {x \in Walk : Chosen(x, p, i)}]
           top == TopTransaction(p, limit)
<1>1. n \in Nat /\ p.queue \in Seq(Tx) /\ Range(p.queue) = p.by_nonce
  BY DEF Sound, Pool, Aligned
<1>2. /\ after[0] = Started
      /\ \A i \in 1 .. n : after[i] = Visited(p, limit, after[i - 1], p.queue[i])
  BY VisitsTurns
<1>3. top = after[n].txs
  BY DEF TopTransaction
<1> HIDE DEF after, top
<1>4. after[0] \in Good[0]
  <2>1. Started \in Walk /\ Chosen(Started, p, 0)
    BY StartedChosen
  <2>2. QED
    BY <1>1, <1>2, <2>1
<1>5. ASSUME NEW i \in 1 .. n, after[i - 1] \in Good[i - 1] PROVE after[i] \in Good[i]
  <2> DEFINE x == after[i - 1]
  <2>1. i - 1 \in 0 .. n /\ i \in 0 .. n
    BY <1>1
  <2>2. x \in Walk /\ Chosen(x, p, i - 1)
    BY <1>5, <2>1
  <2>3. after[i] = Visited(p, limit, x, p.queue[i])
    BY <1>2
  <2> HIDE DEF x
  <2>4. Visited(p, limit, x, p.queue[i]) \in Walk /\ Chosen(Visited(p, limit, x, p.queue[i]), p, i)
    BY <2>2, VisitedTurn, ZenonT(60)
  <2>5. QED
    BY <2>1, <2>3, <2>4
<1>6. \A i \in 0 .. n : after[i] \in Good[i]
  <2> HIDE DEF Good, n
  <2>1. \A i \in 1 .. n : after[i - 1] \in Good[i - 1] => after[i] \in Good[i]
    BY <1>5
  <2>2. QED
    BY <1>1, <1>4, <2>1, LoopStays, ZenonT(60)
<1>7. n \in 0 .. n
  BY <1>1
<1>8. after[n] \in Walk /\ Chosen(after[n], p, n)
  <2> HIDE DEF n
  <2>1. Good[n] = {x \in Walk : Chosen(x, p, n)}
    BY <1>7
  <2>2. after[n] \in Good[n]
    <3> HIDE DEF Good
    <3>1. QED
      BY <1>6, <1>7
  <2>3. QED
    BY <2>1, <2>2
<1>9. /\ top \in Seq(Tx) /\ Distinct(top) /\ NoGaps(top, p.account_nonce)
      /\ \A j \in DOMAIN top : \E k \in 1 .. n : top[j] = p.queue[k]
  BY <1>3, <1>8 DEF Walk, Lists, Chosen
<1>10. Range(top) \subseteq p.by_nonce
  BY <1>1, <1>9 DEF Range
<1>11. QED
  BY <1>9, <1>10 DEF top

-----------------------------------------------------------------------------
(* The invariant of the pool.                                              *)

Within(p) ==
    /\ Len(p.queue) <= queue_limit
    /\ \A a \in Account : CountOf(p, a) <= account_txs_limit

\* RemoveTxs stays within the limits.
LEMMA RemoveTxsWithin ==
    ASSUME NEW p, Sound(p), Within(p), NEW txs \in Seq(Tx), NEW close_ledger \in BOOLEAN
    PROVE  /\ Sound(RemoveTxs(p, txs, close_ledger)) /\ Within(RemoveTxs(p, txs, close_ledger))
           /\ RemoveTxs(p, txs, close_ledger).by_nonce \subseteq p.by_nonce
<1> DEFINE q == RemoveTxs(p, txs, close_ledger)
<1>1. Shrunk(q, p, txs, close_ledger)
  BY RemoveTxsShrinks
<1> HIDE DEF q
<1>2. Sound(q) /\ q.by_nonce \subseteq p.by_nonce /\ Len(q.queue) <= Len(p.queue)
  BY <1>1 DEF Shrunk
<1>3. p \in Pool /\ Aligned(p) /\ q \in Pool /\ Aligned(q)
  BY <1>2 DEF Sound
<1>4. Len(p.queue) \in Nat /\ Len(q.queue) \in Nat
  BY <1>3 DEF Pool
<1>5. Len(q.queue) <= queue_limit
  BY <1>2, <1>4, Limits DEF Within
<1>6. ASSUME NEW a \in Account PROVE CountOf(q, a) <= account_txs_limit
  <2>1. CountOf(q, a) <= CountOf(p, a)
    BY <1>2, <1>3, FewerCounts
  <2>2. CountOf(q, a) \in Nat /\ CountOf(p, a) \in Nat
    BY <1>3, Counts
  <2>3. CountOf(p, a) <= account_txs_limit
    BY DEF Within
  <2>4. QED
    BY <2>1, <2>2, <2>3, Limits
<1>7. QED
  BY <1>2, <1>5, <1>6 DEF Within, q

\* The list of a block.
LEMMA BlockIsList ==
    ASSUME NEW blk \in Blocks
    PROVE  blk \in Seq(Tx) /\ ApplyPropose(blk, {}).dropped = <<>>
<1>1. blk \in UNION {[1 .. m -> Tx] : m \in 1 .. MaxBlock} /\ ApplyPropose(blk, {}).dropped = <<>>
  BY DEF Blocks
<1>2. PICK m \in 1 .. MaxBlock : blk \in [1 .. m -> Tx]
  BY <1>1
<1>3. QED
  BY <1>1, <1>2, Limits

\* The empty pool satisfies the invariant.
LEMMA InitIInv == Init => IInv
<1> SUFFICES ASSUME Init PROVE IInv
  OBVIOUS
<1> DEFINE e == [a \in {} |-> 0]
<1>1. DOMAIN e = {} /\ DOMAIN e \subseteq Account /\ e \in [DOMAIN e -> Int]
  OBVIOUS
<1>2. /\ pool.queue = <<>> /\ pool.time_queue = {} /\ pool.by_nonce = {} /\ pool.by_hash = {}
      /\ pool.account_nonce = e
      /\ pool = [queue |-> <<>>, time_queue |-> {}, by_nonce |-> {}, by_hash |-> {},
                 account_nonce |-> e]
  BY DEF Init, EmptyPool
<1> HIDE DEF e
<1>3. e \in NonceMap
  BY <1>1, NonceMaps, Zenon
<1>4. pool \in Pool
  BY <1>2, <1>3 DEF Pool
<1>5. Aligned(pool)
  <2>1. IsInjective(pool.queue) /\ Range(pool.queue) = {}
    BY <1>2 DEF IsInjective, Range
  <2>2. QED
    BY <1>2, <2>1 DEF Aligned, OneEach
<1>6. Sound(pool)
  BY <1>1, <1>2, <1>4, <1>5 DEF Sound, AccountsOf
<1>7. Typed
  BY <1>6 DEF Init, Typed, Idle, Ops
<1>8. WithinLimits
  <2>1. Len(pool.queue) = 0
    BY <1>2
  <2>2. ASSUME NEW a \in Account PROVE CountOf(pool, a) = 0
    <3>1. TxsOf(pool, a) = {}
      BY <1>2 DEF TxsOf
    <3>2. QED
      BY <1>4, <1>5, <3>1, Counts, FS_EmptySet
  <2>3. QED
    BY <2>1, <2>2, Limits DEF WithinLimits
<1>9. QED
  BY <1>7, <1>8 DEF IInv

\* What Propose removes is a list of transactions.
LEMMA DroppedList ==
    ASSUME IInv, NEW n \in 0 .. Len(main.txs), NEW bad
    PROVE  ApplyPropose(SubSeq(main.txs, 1, n), bad).dropped \in Seq(Tx)
<1> DEFINE list == SubSeq(main.txs, 1, n)
<1>1. main.txs \in Seq(Tx) /\ ledger_nonce \in [Account -> Int]
  BY DEF IInv, Typed
<1>2. list \in Seq(Tx)
  BY <1>1
<1> HIDE DEF list
<1>3. ApplyPropose(list, bad) \in Acc
  BY <1>1, <1>2, ApplyProposeSettles
<1>4. QED
  BY <1>3 DEF Acc, Lists, list

\* Every step keeps the pool sound and within its limits.
LEMMA NextIInv == IInv /\ [Next]_vars => IInv'
<1> SUFFICES ASSUME IInv, [Next]_vars PROVE IInv'
  OBVIOUS
<1>1. /\ Sound(pool) /\ Within(pool) /\ importing \in SUBSET [tx : Tx, nonce : Int]
      /\ main \in [op : Ops, txs : Seq(Tx)] /\ ledger_nonce \in [Account -> Int]
  BY DEF IInv, Typed, WithinLimits, Within
<1>2. SUFFICES /\ Sound(pool') /\ Within(pool') /\ importing' \in SUBSET [tx : Tx, nonce : Int]
               /\ main' \in [op : Ops, txs : Seq(Tx)] /\ ledger_nonce' \in [Account -> Int]
  BY DEF IInv, Typed, WithinLimits, Within, CountOf
<1>3. Idle \in [op : Ops, txs : Seq(Tx)] /\ main.txs \in Seq(Tx)
  BY <1>1 DEF Idle, Ops
<1>4. CASE UNCHANGED vars
  BY <1>1, <1>4 DEF vars
<1>5. ASSUME NEW t \in Tx, CheckValid(t) PROVE <1>2!1
  <2>1. t.acct \in Account
    BY DEF Account
  <2>2. ledger_nonce[t.acct] \in Int
    BY <1>1, <2>1
  <2>3. QED
    BY <1>1, <1>5, <2>2 DEF CheckValid
<1>6. ASSUME NEW i \in importing, Import(i) PROVE <1>2!1
  <2>1. i.tx \in Tx /\ i.nonce \in Int
    BY <1>1
  <2>2. pool' \in Imported(pool, i.tx, i.nonce)
    BY <1>6 DEF Import
  <2>3. Grown(pool', pool, i.tx, i.nonce)
    BY <1>1, <2>1, <2>2, ImportedGrows DEF Within
  <2>4. Sound(pool') /\ Within(pool')
    BY <2>3 DEF Grown, Within
  <2>5. QED
    BY <1>1, <1>6, <2>4 DEF Import
<1>7. ASSUME StartConsensus PROVE <1>2!1
  <2>1. TopTransaction(pool, max_trans) \in Seq(Tx)
    BY <1>1, TopTransactionChosen
  <2>2. QED
    BY <1>1, <1>7, <2>1 DEF StartConsensus, Ops
<1>8. ASSUME NEW n \in 0 .. Len(main.txs), NEW bad \in SUBSET Range(main.txs), Propose(n, bad)
      PROVE  <1>2!1
  <2> DEFINE d == ApplyPropose(SubSeq(main.txs, 1, n), bad).dropped
  <2>2. d \in Seq(Tx)
    BY DroppedList
  <2>3. pool' = RemoveTxs(pool, d, FALSE)
    BY <1>8, Zenon DEF Propose
  <2>4. main' = Idle /\ importing' = importing /\ ledger_nonce' = ledger_nonce
    BY <1>8, Zenon DEF Propose
  <2> HIDE DEF d
  <2>5. Sound(pool') /\ Within(pool')
    BY <1>1, <2>2, <2>3, RemoveTxsWithin, Zenon
  <2>6. QED
    BY <1>1, <1>3, <2>4, <2>5
<1>9. ASSUME NEW blk \in Blocks, NEW failed \in Failures, OnConsent(blk, failed) PROVE <1>2!1
  <2>1. blk \in Seq(Tx)
    BY BlockIsList
  <2>2. ApplyPropose(blk, {}).nonce \in [Account -> Int]
    BY <1>1, <2>1, ApplyProposeSettles DEF Acc, Nonces
  <2>3. ledger_nonce' \in [Account -> Int]
    BY <1>1, <1>9, <2>2 DEF OnConsent
  <2>4. main' \in [op : Ops, txs : Seq(Tx)]
    BY <1>9, <2>1 DEF OnConsent, Ops
  <2>5. QED
    BY <1>1, <1>9, <2>3, <2>4 DEF OnConsent
<1>10. ASSUME OnValueCommited PROVE <1>2!1
  <2>1. pool' = RemoveTxs(pool, main.txs, TRUE)
    BY <1>10, Zenon DEF OnValueCommited
  <2>2. main' = Idle /\ importing' = importing /\ ledger_nonce' = ledger_nonce
    BY <1>10, Zenon DEF OnValueCommited
  <2>3. Sound(pool') /\ Within(pool')
    BY <1>1, <1>3, <2>1, RemoveTxsWithin, Zenon
  <2>4. QED
    BY <1>1, <1>3, <2>2, <2>3
<1>11. ASSUME NEW S \in SUBSET pool.time_queue, OnTimer(S) PROVE <1>2!1
  <2>1. pool.time_queue \in SUBSET Tx /\ pool.time_queue = pool.by_nonce /\ pool \in Pool /\ Aligned(pool)
    BY <1>1 DEF Sound, Pool, Aligned
  <2>2. IsFiniteSet(pool.by_nonce)
    BY <2>1, Counts
  <2>3. IsFiniteSet(S) /\ S \in SUBSET Tx
    BY <2>1, <2>2, FS_Subset
  <2>4. Listed(S) \in Seq(Tx)
    BY <2>3, ListOfSet
  <2>5. pool' = RemoveTxs(pool, Listed(S), FALSE)
    BY <1>11, Zenon DEF OnTimer
  <2>6. main' = main /\ importing' = importing /\ ledger_nonce' = ledger_nonce
    BY <1>11, Zenon DEF OnTimer
  <2>7. Sound(pool') /\ Within(pool')
    BY <1>1, <2>4, <2>5, RemoveTxsWithin, Zenon
  <2>8. QED
    BY <1>1, <2>6, <2>7
<1>12. ASSUME NEW blk \in Blocks, SyncClose(blk) PROVE <1>2!1
  <2>1. blk \in Seq(Tx)
    BY BlockIsList
  <2>2. ApplyPropose(blk, {}).nonce \in [Account -> Int]
    BY <1>1, <2>1, ApplyProposeSettles DEF Acc, Nonces
  <2>3. QED
    BY <1>1, <1>12, <2>2 DEF SyncClose
<1>13. QED
  BY <1>4, <1>5, <1>6, <1>7, <1>8, <1>9, <1>10, <1>11, <1>12 DEF Next

-----------------------------------------------------------------------------
(* The theorems about the indexes, the limits and the prices.              *)

\* A sound pool's indexes agree.
LEMMA SoundAgrees == IInv => IndexesAgree
<1> SUFFICES ASSUME IInv PROVE IndexesAgree
  OBVIOUS
<1>1. Sound(pool)
  BY DEF IInv, Typed
<1>2. pool \in Pool /\ Aligned(pool) /\ DOMAIN pool.account_nonce = AccountsOf(pool.by_nonce)
  BY <1>1 DEF Sound
<1>3. Len(pool.queue) = Cardinality(pool.by_nonce)
  BY <1>2, Counts
<1>4. QED
  BY <1>2, <1>3 DEF IndexesAgree, Aligned, OneEach, AccountsOf

\* The invariant behind the theorems: the pool is sound and within its limits, and
\* what the threads carry between two calls on it has its type.
THEOREM IInvAlways == Spec => []IInv
BY InitIInv, NextIInv, PTL DEF Spec

\* For every set of transactions and all limits: whatever the order in which the
\* threads import, replace, evict, drop and time out transactions and the ledger
\* advances, the pool's four indexes list the same transactions, at most one for an
\* account and nonce, and account_nonce_ has exactly the accounts that have one.
THEOREM IndexesAgreeAlways == Spec => []IndexesAgree
BY IInvAlways, SoundAgrees, PTL

\* For all limits: the pool never holds more than queue_limit_ transactions, nor
\* more than account_txs_limit_ of one account, when a call is over.
THEOREM WithinLimitsAlways == Spec => []WithinLimits
<1>1. IInv => WithinLimits
  BY DEF IInv
<1>2. QED
  BY <1>1, IInvAlways, PTL

PriceStep ==
    \A t \in pool.by_nonce, u \in pool'.by_nonce :
        t.acct = u.acct /\ t.nonce = u.nonce => t = u \/ u.price > t.price

\* When nothing comes in, no price falls.
LEMMA NothingNew ==
    ASSUME IInv, pool'.by_nonce \subseteq pool.by_nonce
    PROVE  PriceStep
<1>1. OneEach(pool.by_nonce)
  BY DEF IInv, Typed, Sound, Aligned
<1>2. QED
  BY <1>1 DEF PriceStep, OneEach

\* An import only replaces a transaction by one with a higher price.
LEMMA ImportPrice ==
    ASSUME IInv, \A t \in Tx : t.price > 0, NEW i \in importing, Import(i)
    PROVE  PriceStep
<1>1. /\ Sound(pool) /\ Within(pool) /\ i.tx \in Tx /\ i.nonce \in Int
      /\ pool.by_nonce \in SUBSET Tx /\ OneEach(pool.by_nonce)
  BY DEF IInv, Typed, WithinLimits, Within, Sound, Pool, Aligned
<1>2. pool' \in Imported(pool, i.tx, i.nonce)
  BY DEF Import
<1>3. /\ Grown(pool', pool, i.tx, i.nonce)
      /\ \A old \in Slot(pool, i.tx.acct, i.tx.nonce) :
            i.tx \in pool'.by_nonce => i.tx = old \/ Outbids(i.tx, old)
  BY <1>1, <1>2, ImportedGrows DEF Within
<1>4. pool'.by_nonce \subseteq pool.by_nonce \cup {i.tx}
  BY <1>3 DEF Grown
<1>5. SUFFICES ASSUME NEW t \in pool.by_nonce, NEW u \in pool'.by_nonce,
                      t.acct = u.acct, t.nonce = u.nonce, t # u
               PROVE  u.price > t.price
  BY DEF PriceStep
<1>6. u = i.tx
  BY <1>1, <1>4, <1>5 DEF OneEach
<1>7. Outbids(u, t)
  BY <1>3, <1>5, <1>6 DEF Slot
<1>8. u.price \in Int /\ t.price \in Int /\ t.price > 0
  BY <1>1, <1>6, Limits
<1>9. (u.price - t.price) * 10 >= t.price
  BY <1>7 DEF Outbids
<1>10. QED
  BY <1>8, <1>9

\* For every set of transactions with positive gas prices: while the pool holds a
\* transaction for an account and nonce, only one with a higher price takes its
\* place.  (With a price of 0 the tenth that Import asks for is 0, and a transaction
\* of the same price replaces the old one.)
THEOREM PriceNeverFallsAlways ==
    ASSUME \A t \in Tx : t.price > 0
    PROVE  Spec => PriceNeverFalls
<1>1. ASSUME IInv, [Next]_vars PROVE [PriceStep]_vars
  <2>1. CASE UNCHANGED vars
    BY <2>1
  <2>2. ASSUME NEW i \in importing, Import(i) PROVE PriceStep
    BY <1>1, <2>2, ImportPrice
  <2>3. Sound(pool) /\ Within(pool) /\ main.txs \in Seq(Tx) /\ ledger_nonce \in [Account -> Int]
    BY <1>1 DEF IInv, Typed, WithinLimits, Within
  <2>4. ASSUME NEW n \in 0 .. Len(main.txs), NEW bad \in SUBSET Range(main.txs), Propose(n, bad)
        PROVE  PriceStep
    <3> DEFINE d == ApplyPropose(SubSeq(main.txs, 1, n), bad).dropped
    <3>3. d \in Seq(Tx)
      BY <1>1, DroppedList
    <3>4. pool' = RemoveTxs(pool, d, FALSE)
      BY <2>4, Zenon DEF Propose
    <3> HIDE DEF d
    <3>5. pool'.by_nonce \subseteq pool.by_nonce
      BY <2>3, <3>3, <3>4, RemoveTxsWithin, Zenon
    <3>6. QED
      BY <1>1, <3>5, NothingNew
  <2>5. ASSUME OnValueCommited PROVE PriceStep
    <3>1. pool' = RemoveTxs(pool, main.txs, TRUE)
      BY <2>5, Zenon DEF OnValueCommited
    <3>2. pool'.by_nonce \subseteq pool.by_nonce
      BY <2>3, <3>1, RemoveTxsWithin, Zenon
    <3>3. QED
      BY <1>1, <3>2, NothingNew
  <2>6. ASSUME NEW S \in SUBSET pool.time_queue, OnTimer(S) PROVE PriceStep
    <3>1. pool.time_queue \in SUBSET Tx /\ pool.time_queue = pool.by_nonce /\ pool \in Pool /\ Aligned(pool)
      BY <2>3 DEF Sound, Pool, Aligned
    <3>2. IsFiniteSet(pool.by_nonce)
      BY <3>1, Counts
    <3>3. IsFiniteSet(S) /\ S \in SUBSET Tx
      BY <3>1, <3>2, FS_Subset
    <3>4. Listed(S) \in Seq(Tx)
      BY <3>3, ListOfSet
    <3>5. pool' = RemoveTxs(pool, Listed(S), FALSE)
      BY <2>6, Zenon DEF OnTimer
    <3>6. pool'.by_nonce \subseteq pool.by_nonce
      BY <2>3, <3>4, <3>5, RemoveTxsWithin, Zenon
    <3>7. QED
      BY <1>1, <3>6, NothingNew
  <2>7. ASSUME pool' = pool PROVE PriceStep
    BY <1>1, <2>7, NothingNew
  <2>8. QED
    BY <1>1, <2>1, <2>2, <2>4, <2>5, <2>6, <2>7
       DEF Next, CheckValid, StartConsensus, OnConsent, SyncClose
<1>2. QED
  BY <1>1, IInvAlways, PTL DEF Spec, PriceNeverFalls, PriceStep

-----------------------------------------------------------------------------
(* The theorems about nonces: closing a ledger does not fail.              *)

\* A block settles all of its transactions.
LEMMA BlockSettles ==
    ASSUME NEW blk \in Blocks, ledger_nonce \in [Account -> Int]
    PROVE  LET after == ApplyPropose(blk, {}).nonce IN
           /\ after \in [Account -> Int]
           /\ \A a \in Account : ledger_nonce[a] <= after[a]
           /\ \A i \in DOMAIN blk : blk[i].nonce <= after[blk[i].acct]
<1> DEFINE x == ApplyPropose(blk, {})
<1>1. blk \in Seq(Tx) /\ x.dropped = <<>>
  BY BlockIsList
<1>2. x \in Acc /\ Settled(x, blk, Len(blk))
  BY <1>1, ApplyProposeSettles
<1> HIDE DEF x
<1>3. x.nonce \in [Account -> Int]
  BY <1>2 DEF Acc, Nonces
<1>4. Range(x.dropped) = {} /\ DOMAIN blk = 1 .. Len(blk)
  BY <1>1 DEF Range
<1>5. QED
  BY <1>2, <1>3, <1>4 DEF Settled, x

\* The chosen transactions have no gaps from the ledger's nonces on, either.
LEMMA NoGapsAbove ==
    ASSUME NEW txs \in Seq(Tx), NEW base, NEW higher \in [Account -> Int], NoGaps(txs, base),
           \A i \in DOMAIN txs : base[txs[i].acct] \in Int /\ base[txs[i].acct] <= higher[txs[i].acct]
    PROVE  NoGaps(txs, higher)
<1> SUFFICES ASSUME NEW i \in DOMAIN txs, NEW k \in Int, higher[txs[i].acct] < k, k <= txs[i].nonce
             PROVE  \E j \in 1 .. i : txs[j].acct = txs[i].acct /\ txs[j].nonce = k
  BY DEF NoGaps
<1>1. txs[i].acct \in Account
  BY DEF Account
<1>2. higher[txs[i].acct] \in Int /\ base[txs[i].acct] \in Int /\ base[txs[i].acct] <= higher[txs[i].acct]
  BY <1>1
<1>3. base[txs[i].acct] < k
  BY <1>2
<1>4. QED
  BY <1>3 DEF NoGaps

\* At the start no account has a nonce in the pool.
LEMMA InitNonceInv == Init => NonceInv
<1> SUFFICES ASSUME Init PROVE NonceInv
  OBVIOUS
<1>1. IInv
  BY InitIInv
<1>2. DOMAIN pool.account_nonce = {}
  BY DEF Init, EmptyPool
<1>3. importing = {} /\ main.op = "idle"
  BY DEF Init, Idle
<1>4. QED
  BY <1>1, <1>2, <1>3 DEF NonceInv, NotAhead, TopInOrder

\* When the ledger's nonces only rise, what was not ahead of them stays so.
LEMMA LedgerRises ==
    ASSUME NonceInv, ledger_nonce' \in [Account -> Int],
           \A a \in Account : ledger_nonce[a] <= ledger_nonce'[a]
    PROVE  /\ \A a \in DOMAIN pool.account_nonce : pool.account_nonce[a] <= ledger_nonce'[a]
           /\ \A i \in importing : i.nonce <= ledger_nonce'[i.tx.acct]
           /\ \A i \in DOMAIN main.txs : main.txs[i].acct \in Account /\ main.txs[i].nonce \in Int
           /\ main.op = "commited" =>
                \A i \in DOMAIN main.txs : main.txs[i].nonce <= ledger_nonce'[main.txs[i].acct]
           /\ main.op = "top" => Distinct(main.txs) /\ NoGaps(main.txs, ledger_nonce')
<1>1. /\ Sound(pool) /\ importing \in SUBSET [tx : Tx, nonce : Int]
      /\ main.txs \in Seq(Tx) /\ ledger_nonce \in [Account -> Int]
  BY DEF NonceInv, IInv, Typed
<1>2. /\ DOMAIN pool.account_nonce \subseteq Account
      /\ pool.account_nonce \in [DOMAIN pool.account_nonce -> Int]
  <2>1. pool.account_nonce \in NonceMap
    BY <1>1 DEF Sound, Pool
  <2>2. QED
    BY <2>1, NonceMaps
<1>3. ASSUME NEW a \in DOMAIN pool.account_nonce
      PROVE  pool.account_nonce[a] <= ledger_nonce'[a]
  <2>1. pool.account_nonce[a] <= ledger_nonce[a] /\ a \in Account
    BY <1>2 DEF NonceInv, NotAhead
  <2>2. pool.account_nonce[a] \in Int /\ ledger_nonce[a] \in Int /\ ledger_nonce'[a] \in Int
    BY <1>1, <1>2, <2>1
  <2>3. QED
    BY <2>1, <2>2
<1>4. ASSUME NEW i \in importing PROVE i.nonce <= ledger_nonce'[i.tx.acct]
  <2>1. i.tx \in Tx /\ i.nonce \in Int /\ i.nonce <= ledger_nonce[i.tx.acct]
    BY <1>1 DEF NonceInv, NotAhead
  <2>2. i.tx.acct \in Account
    BY <2>1 DEF Account
  <2>3. ledger_nonce[i.tx.acct] \in Int /\ ledger_nonce'[i.tx.acct] \in Int
    BY <1>1, <2>2
  <2>4. QED
    BY <2>1, <2>2, <2>3
<1>5. \A i \in DOMAIN main.txs : main.txs[i] \in Tx
  BY <1>1
<1>6. \A i \in DOMAIN main.txs : main.txs[i].acct \in Account /\ main.txs[i].nonce \in Int
  BY <1>5, Limits DEF Account
<1>7. ASSUME main.op = "commited", NEW i \in DOMAIN main.txs
      PROVE  main.txs[i].nonce <= ledger_nonce'[main.txs[i].acct]
  <2>1. main.txs[i].nonce <= ledger_nonce[main.txs[i].acct]
    BY <1>7 DEF NonceInv, NotAhead
  <2>2. main.txs[i].acct \in Account /\ main.txs[i].nonce \in Int
    BY <1>6
  <2>3. ledger_nonce[main.txs[i].acct] \in Int /\ ledger_nonce'[main.txs[i].acct] \in Int
    BY <1>1, <2>2
  <2>4. QED
    BY <2>1, <2>2, <2>3
<1>8. ASSUME main.op = "top" PROVE Distinct(main.txs) /\ NoGaps(main.txs, ledger_nonce')
  <2>1. Distinct(main.txs) /\ NoGaps(main.txs, ledger_nonce)
    BY <1>8 DEF NonceInv, TopInOrder
  <2>2. \A i \in DOMAIN main.txs : /\ ledger_nonce[main.txs[i].acct] \in Int
                                   /\ ledger_nonce[main.txs[i].acct] <= ledger_nonce'[main.txs[i].acct]
    BY <1>1, <1>6
  <2>3. QED
    BY <1>1, <2>1, <2>2, NoGapsAbove
<1>9. QED
  BY <1>3, <1>4, <1>6, <1>7, <1>8

\* RemoveTxs moves no nonce ahead of the ledger's.
LEMMA RemoveTxsNotAhead ==
    ASSUME NonceInv, NEW txs \in Seq(Tx), NEW close_ledger \in BOOLEAN,
           close_ledger => \A i \in DOMAIN txs : txs[i].nonce <= ledger_nonce[txs[i].acct]
    PROVE  \A x \in DOMAIN RemoveTxs(pool, txs, close_ledger).account_nonce :
              RemoveTxs(pool, txs, close_ledger).account_nonce[x] <= ledger_nonce[x]
<1> DEFINE q == RemoveTxs(pool, txs, close_ledger)
<1>1. Sound(pool)
  BY DEF NonceInv, IInv, Typed
<1>2. Shrunk(q, pool, txs, close_ledger)
  BY <1>1, RemoveTxsShrinks
<1> HIDE DEF q
<1>3. ASSUME NEW x \in DOMAIN q.account_nonce PROVE q.account_nonce[x] <= ledger_nonce[x]
  <2>1. /\ x \in DOMAIN pool.account_nonce
        /\ \/ q.account_nonce[x] = pool.account_nonce[x]
           \/ close_ledger /\ \E i \in DOMAIN txs : txs[i].acct = x /\ q.account_nonce[x] = txs[i].nonce
    BY <1>2 DEF Shrunk
  <2>2. CASE q.account_nonce[x] = pool.account_nonce[x]
    BY <2>1, <2>2 DEF NonceInv, NotAhead
  <2>3. CASE close_ledger /\ \E i \in DOMAIN txs : txs[i].acct = x /\ q.account_nonce[x] = txs[i].nonce
    BY <2>3
  <2>4. QED
    BY <2>1, <2>2, <2>3
<1>4. QED
  BY <1>3 DEF q

\* Every step keeps the nonces of the pool behind the ledger's and the transactions
\* that the leader has chosen free of gaps, provided that OnConsent does not fail.
LEMMA NextNonceInv ==
    ASSUME \A failed \in Failures : ~failed, NonceInv, [Next]_vars
    PROVE  NonceInv'
<1>1. IInv /\ IInv'
  BY NextIInv DEF NonceInv
<1>2. /\ Sound(pool) /\ importing \in SUBSET [tx : Tx, nonce : Int]
      /\ main.txs \in Seq(Tx) /\ ledger_nonce \in [Account -> Int] /\ ledger_nonce' \in [Account -> Int]
  BY <1>1 DEF IInv, Typed
<1>3. /\ \A a \in DOMAIN pool.account_nonce : pool.account_nonce[a] <= ledger_nonce[a]
      /\ \A i \in importing : i.nonce <= ledger_nonce[i.tx.acct]
      /\ main.op = "commited" =>
           \A i \in DOMAIN main.txs : main.txs[i].nonce <= ledger_nonce[main.txs[i].acct]
      /\ main.op = "top" => Distinct(main.txs) /\ NoGaps(main.txs, ledger_nonce)
  BY DEF NonceInv, NotAhead, TopInOrder
<1>4. SUFFICES /\ \A a \in DOMAIN pool'.account_nonce : pool'.account_nonce[a] <= ledger_nonce'[a]
               /\ \A i \in importing' : i.nonce <= ledger_nonce'[i.tx.acct]
               /\ main'.op = "commited" =>
                    \A i \in DOMAIN main'.txs : main'.txs[i].nonce <= ledger_nonce'[main'.txs[i].acct]
               /\ main'.op = "top" => Distinct(main'.txs) /\ NoGaps(main'.txs, ledger_nonce')
  BY <1>1, Zenon DEF NonceInv, NotAhead, TopInOrder, Distinct, NoGaps
<1>5. Idle.op = "idle"
  BY DEF Idle
<1>6. CASE UNCHANGED vars
  BY <1>3, <1>6 DEF vars
<1>7. ASSUME NEW t \in Tx, CheckValid(t) PROVE <1>4!1
  <2>1. /\ importing' = importing \cup {[tx |-> t, nonce |-> ledger_nonce[t.acct]]}
        /\ pool' = pool /\ main' = main /\ ledger_nonce' = ledger_nonce
    BY <1>7 DEF CheckValid
  <2>2. t.acct \in Account
    BY DEF Account
  <2>3. ledger_nonce[t.acct] \in Int /\ ledger_nonce[t.acct] <= ledger_nonce[t.acct]
    BY <1>2, <2>2
  <2>4. \A i \in importing' : i.nonce <= ledger_nonce'[i.tx.acct]
    BY <1>3, <2>1, <2>3
  <2>5. QED
    BY <1>3, <2>1, <2>4, Zenon
<1>8. ASSUME NEW i \in importing, Import(i) PROVE <1>4!1
  <2>1. /\ importing' = importing \ {i} /\ pool' \in Imported(pool, i.tx, i.nonce)
        /\ main' = main /\ ledger_nonce' = ledger_nonce
    BY <1>8 DEF Import
  <2>2. i.tx \in Tx /\ i.nonce \in Int /\ i.nonce <= ledger_nonce[i.tx.acct]
    BY <1>2, <1>3
  <2>3. Within(pool)
    BY <1>1 DEF IInv, WithinLimits, Within
  <2>4. Grown(pool', pool, i.tx, i.nonce)
    BY <1>2, <2>1, <2>2, <2>3, ImportedGrows DEF Within
  <2>5. \A a \in DOMAIN pool'.account_nonce : pool'.account_nonce[a] <= ledger_nonce[a]
    BY <1>3, <2>2, <2>4, Zenon DEF Grown, Renonced
  <2>6. QED
    BY <1>3, <2>1, <2>5
<1>9. ASSUME StartConsensus PROVE <1>4!1
  <2> DEFINE top == TopTransaction(pool, max_trans)
  <2>1. /\ main' = [op |-> "top", txs |-> top]
        /\ pool' = pool /\ importing' = importing /\ ledger_nonce' = ledger_nonce
    BY <1>9 DEF StartConsensus
  <2>2. top \in Seq(Tx) /\ Distinct(top) /\ NoGaps(top, pool.account_nonce) /\ Range(top) \subseteq pool.by_nonce
    BY <1>2, TopTransactionChosen
  <2> HIDE DEF top
  <2>3. ASSUME NEW i \in DOMAIN top
        PROVE  pool.account_nonce[top[i].acct] \in Int /\ pool.account_nonce[top[i].acct] <= ledger_nonce[top[i].acct]
    <3>1. top[i] \in pool.by_nonce
      BY <2>2 DEF Range
    <3>2. top[i].acct \in DOMAIN pool.account_nonce
      BY <1>2, <3>1 DEF Sound, AccountsOf
    <3>3. pool.account_nonce \in NonceMap
      BY <1>2 DEF Sound, Pool
    <3>4. pool.account_nonce \in [DOMAIN pool.account_nonce -> Int]
      BY <3>3, NonceMaps
    <3>5. QED
      BY <1>3, <3>2, <3>4
  <2>4. NoGaps(top, ledger_nonce)
    <3> DEFINE base == pool.account_nonce
    <3>1. \A i \in DOMAIN top : base[top[i].acct] \in Int /\ base[top[i].acct] <= ledger_nonce[top[i].acct]
      BY <2>3
    <3>2. NoGaps(top, base)
      BY <2>2
    <3> HIDE DEF base
    <3>3. QED
      BY <1>2, <2>2, <3>1, <3>2, NoGapsAbove, Zenon
  <2>5. main'.op = "top" /\ main'.txs = top
    BY <2>1
  <2>6. QED
    BY <1>3, <2>1, <2>2, <2>4, <2>5, Zenon
<1>10. ASSUME NEW n \in 0 .. Len(main.txs), NEW bad \in SUBSET Range(main.txs), Propose(n, bad)
       PROVE  <1>4!1
  <2> DEFINE d == ApplyPropose(SubSeq(main.txs, 1, n), bad).dropped
  <2>1. d \in Seq(Tx)
    BY <1>1, DroppedList
  <2>2. pool' = RemoveTxs(pool, d, FALSE)
    BY <1>10, Zenon DEF Propose
  <2>3. main' = Idle /\ importing' = importing /\ ledger_nonce' = ledger_nonce
    BY <1>10, Zenon DEF Propose
  <2> HIDE DEF d
  <2>4. \A x \in DOMAIN pool'.account_nonce : pool'.account_nonce[x] <= ledger_nonce[x]
    BY <2>1, <2>2, RemoveTxsNotAhead, Zenon
  <2>5. QED
    BY <1>3, <1>5, <2>3, <2>4
<1>11. ASSUME NEW blk \in Blocks, NEW failed \in Failures, OnConsent(blk, failed) PROVE <1>4!1
  <2> DEFINE after == ApplyPropose(blk, {}).nonce
  <2>1. /\ after \in [Account -> Int] /\ \A a \in Account : ledger_nonce[a] <= after[a]
        /\ \A i \in DOMAIN blk : blk[i].nonce <= after[blk[i].acct]
    BY <1>2, BlockSettles
  <2>2. ~failed
    BY Zenon
  <2>3. ledger_nonce' = after
    BY <1>11, <2>2, Zenon DEF OnConsent
  <2> HIDE DEF after
  <2>4. main' = [op |-> "commited", txs |-> blk] /\ pool' = pool /\ importing' = importing
    BY <1>11, Zenon DEF OnConsent
  <2>5. main'.op = "commited" /\ main'.txs = blk
    BY <2>4
  <2>6. \A a \in Account : ledger_nonce[a] <= ledger_nonce'[a]
    BY <2>1, <2>3
  <2>7. /\ \A a \in DOMAIN pool.account_nonce : pool.account_nonce[a] <= ledger_nonce'[a]
        /\ \A i \in importing : i.nonce <= ledger_nonce'[i.tx.acct]
    BY <1>2, <2>6, LedgerRises
  <2>8. \A i \in DOMAIN main'.txs : main'.txs[i].nonce <= ledger_nonce'[main'.txs[i].acct]
    BY <2>1, <2>3, <2>5
  <2>9. QED
    BY <2>4, <2>5, <2>7, <2>8
<1>12. ASSUME OnValueCommited PROVE <1>4!1
  <2>1. pool' = RemoveTxs(pool, main.txs, TRUE)
    BY <1>12, Zenon DEF OnValueCommited
  <2>2. main.op = "commited" /\ main' = Idle /\ importing' = importing /\ ledger_nonce' = ledger_nonce
    BY <1>12, Zenon DEF OnValueCommited
  <2>3. \A i \in DOMAIN main.txs : main.txs[i].nonce <= ledger_nonce[main.txs[i].acct]
    BY <1>3, <2>2
  <2>4. \A x \in DOMAIN pool'.account_nonce : pool'.account_nonce[x] <= ledger_nonce[x]
    BY <1>2, <2>1, <2>3, RemoveTxsNotAhead, Zenon
  <2>5. QED
    BY <1>3, <1>5, <2>2, <2>4
<1>13. ASSUME NEW S \in SUBSET pool.time_queue, OnTimer(S) PROVE <1>4!1
  <2>1. pool.time_queue \in SUBSET Tx /\ pool.time_queue = pool.by_nonce /\ pool \in Pool /\ Aligned(pool)
    BY <1>2 DEF Sound, Pool, Aligned
  <2>2. IsFiniteSet(pool.by_nonce)
    BY <2>1, Counts
  <2>3. IsFiniteSet(S) /\ S \in SUBSET Tx
    BY <2>1, <2>2, FS_Subset
  <2>4. Listed(S) \in Seq(Tx)
    BY <2>3, ListOfSet
  <2>5. pool' = RemoveTxs(pool, Listed(S), FALSE)
    BY <1>13, Zenon DEF OnTimer
  <2>6. main' = main /\ importing' = importing /\ ledger_nonce' = ledger_nonce
    BY <1>13, Zenon DEF OnTimer
  <2>7. \A x \in DOMAIN pool'.account_nonce : pool'.account_nonce[x] <= ledger_nonce[x]
    BY <2>4, <2>5, RemoveTxsNotAhead, Zenon
  <2>8. QED
    BY <1>3, <2>6, <2>7
<1>14. ASSUME NEW blk \in Blocks, SyncClose(blk) PROVE <1>4!1
  <2>1. pool' = pool /\ importing' = importing /\ main' = main /\ ledger_nonce' = ApplyPropose(blk, {}).nonce
    BY <1>14 DEF SyncClose
  <2>2. \A a \in Account : ledger_nonce[a] <= ledger_nonce'[a]
    BY <1>2, <2>1, BlockSettles
  <2>3. /\ \A a \in DOMAIN pool.account_nonce : pool.account_nonce[a] <= ledger_nonce'[a]
        /\ \A i \in importing : i.nonce <= ledger_nonce'[i.tx.acct]
        /\ main.op = "commited" =>
             \A i \in DOMAIN main.txs : main.txs[i].nonce <= ledger_nonce'[main.txs[i].acct]
        /\ main.op = "top" => Distinct(main.txs) /\ NoGaps(main.txs, ledger_nonce')
    BY <1>2, <2>2, LedgerRises
  <2>4. QED
    BY <2>1, <2>3
<1>15. QED
  BY <1>6, <1>7, <1>8, <1>9, <1>10, <1>11, <1>12, <1>13, <1>14, Zenon DEF Next

\* For all limits and blocks: as long as OnConsent closes the ledgers it is given,
\* the nonce that the pool has for an account is never ahead of the ledger's, with
\* imports that read the nonce long before, timeouts and ledgers closed by sync.
THEOREM NeverAheadAlways ==
    ASSUME \A failed \in Failures : ~failed
    PROVE  Spec => []NeverAhead
<1>1. Spec => []NonceInv
  <2>1. NonceInv /\ [Next]_vars => NonceInv'
    BY NextNonceInv, Zenon
  <2>2. QED
    BY <2>1, InitNonceInv, PTL DEF Spec
<1>2. NonceInv => NeverAhead
  BY DEF NonceInv, NotAhead, NeverAhead
<1>3. QED
  BY <1>1, <1>2, PTL

\* A part of a list without gaps, from its start on, has none.
LEMMA PrefixNoGaps ==
    ASSUME NEW txs \in Seq(Tx), NEW base, Distinct(txs), NoGaps(txs, base), NEW n \in 0 .. Len(txs)
    PROVE  /\ SubSeq(txs, 1, n) \in Seq(Tx)
           /\ Distinct(SubSeq(txs, 1, n)) /\ NoGaps(SubSeq(txs, 1, n), base)
<1> DEFINE s == SubSeq(txs, 1, n)
<1>1. /\ s \in Seq(Tx) /\ Len(s) = n /\ DOMAIN s = 1 .. n /\ DOMAIN txs = 1 .. Len(txs)
      /\ Len(txs) \in Nat /\ \A i \in 1 .. n : s[i] = txs[i]
  OBVIOUS
<1> HIDE DEF s
<1>2. \A i \in 1 .. n : i \in DOMAIN txs
  BY <1>1
<1>3. Distinct(s)
  BY <1>1, <1>2 DEF Distinct
<1>4. ASSUME NEW i \in 1 .. n, NEW k \in Int, base[s[i].acct] < k, k <= s[i].nonce
      PROVE  \E j \in 1 .. i : s[j].acct = s[i].acct /\ s[j].nonce = k
  <2>1. s[i] = txs[i] /\ i \in DOMAIN txs
    BY <1>1, <1>2
  <2>2. PICK j \in 1 .. i : txs[j].acct = txs[i].acct /\ txs[j].nonce = k
    BY <1>4, <2>1 DEF NoGaps
  <2>3. j \in 1 .. n
    BY <1>1
  <2>4. QED
    BY <1>1, <2>1, <2>2, <2>3
<1>5. NoGaps(s, base)
  BY <1>1, <1>4 DEF NoGaps
<1>6. QED
  BY <1>1, <1>3, <1>5 DEF s

\* For all limits and blocks: as long as OnConsent closes the ledgers it is given,
\* the leader removes no transaction from the pool for its nonce whose turn is still
\* to come, also when ledgers are closed by sync between TopTransaction and
\* ApplyPropose.
THEOREM DropsOnlyDeadAlways ==
    ASSUME \A failed \in Failures : ~failed
    PROVE  Spec => []DropsOnlyDead
<1>1. Spec => []NonceInv
  <2>1. NonceInv /\ [Next]_vars => NonceInv'
    BY NextNonceInv, Zenon
  <2>2. QED
    BY <2>1, InitNonceInv, PTL DEF Spec
<1>2. NonceInv => DropsOnlyDead
  <2> SUFFICES ASSUME NonceInv, main.op = "top",
                      NEW n \in 0 .. Len(main.txs), NEW bad \in SUBSET Range(main.txs)
               PROVE  Dead(ApplyPropose(SubSeq(main.txs, 1, n), bad), bad)
    BY DEF DropsOnlyDead, Dead
  <2> DEFINE s == SubSeq(main.txs, 1, n)
  <2>1. /\ main.txs \in Seq(Tx) /\ ledger_nonce \in [Account -> Int]
        /\ Distinct(main.txs) /\ NoGaps(main.txs, ledger_nonce)
    BY DEF NonceInv, IInv, Typed, TopInOrder
  <2>2. s \in Seq(Tx) /\ Distinct(s) /\ NoGaps(s, ledger_nonce)
    BY <2>1, PrefixNoGaps
  <2> HIDE DEF s
  <2>3. Dead(ApplyPropose(s, bad), bad)
    BY <2>1, <2>2, ApplyProposeDropsDead
  <2>4. QED
    BY <2>3 DEF s
<1>3. QED
  BY <1>1, <1>2, PTL
=============================================================================

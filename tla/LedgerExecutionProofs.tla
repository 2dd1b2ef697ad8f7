----------------------- MODULE LedgerExecutionProofs ------------------------
(***************************************************************************)
(* What an execution preserves, whatever the accounts, the transactions    *)
(* and their number: that it moves coins and makes none, keeps the         *)
(* reserves, takes the transactions of an account in the order of their    *)
(* nonces, does what ApplyFollow does with the value, and comes out the    *)
(* same when another node executes what is left of the list.               *)
(***************************************************************************)
EXTENDS LedgerExecutionTerms, WellFoundedInduction, FiniteSetTheorems, TLAPS

\* The provers of a leaf that names none.
USE SMT, Zenon, Z3T(20)

-----------------------------------------------------------------------------
(* Induction.                                                              *)

\* The least-number principle, from the library's well-founded minimum.
LEMMA LeastNumber ==
    ASSUME NEW T \in SUBSET Nat, T # {}
    PROVE  \E least \in T : \A other \in T : least <= other
<1>1. IsWellFoundedOn(OpToRel(<, Nat), Nat)
  BY NatLessThanWellFounded, Zenon
<1>2. PICK least \in T : \A other \in T : ~(<<other, least>> \in OpToRel(<, Nat))
  BY <1>1, WFMin, Zenon
<1>3. \A other \in T : ~(other < least)
  BY <1>2, Zenon DEF OpToRel
<1>4. QED
  BY <1>3

\* Induction on the natural numbers, for a set.
LEMMA SetInduction ==
    ASSUME NEW S, 0 \in S, \A k \in Nat : k \in S => k + 1 \in S
    PROVE  \A k \in Nat : k \in S
<1> DEFINE T == {k \in Nat : k \notin S}
<1>1. SUFFICES ASSUME T # {} PROVE FALSE
  OBVIOUS
<1>2. T \in SUBSET Nat
  OBVIOUS
<1>3. PICK least \in T : \A other \in T : least <= other
  <2> HIDE DEF T
  <2> QED
    BY <1>1, <1>2, LeastNumber
<1>4. least # 0 /\ least - 1 \in Nat /\ least - 1 \notin T
  BY <1>3
<1>5. (least - 1) + 1 \in S
  BY <1>4
<1>6. QED
  BY <1>3, <1>5

-----------------------------------------------------------------------------
(* The loops.                                                              *)

\* Apply runs the operations from the first.
LEMMA OpTurnsAre ==
    ASSUME NEW t, NEW env, NEW x \in Tx
    PROVE  LET after == OpTurns(t, env, x)
           IN  /\ after[0] = [ok |-> tx[x].fee <= tx[x].fee_limit, env |-> env]
               /\ \A i \in 1 .. Len(tx[x].ops) : after[i] = PayCoin(t, after[i - 1], tx[x].source, tx[x].ops[i])
<1> DEFINE start == [ok |-> tx[x].fee <= tx[x].fee_limit, env |-> env]
           Turn(p, i) == PayCoin(t, p, tx[x].source, tx[x].ops[i])
           Is(k, g) == g = [i \in 0 .. k |-> IF i = 0 THEN start ELSE Turn(g[i - 1], i)]
           Has == {k \in Nat : \E g : Is(k, g)}
           after == OpTurns(t, env, x)
           last == Len(tx[x].ops)
<1>1. last \in Nat
  BY ExecutionConstants
<1>2. after = CHOOSE g : Is(last, g)
  BY DEF OpTurns
<1> HIDE DEF start, Turn, after, last
<1>3. 0 \in Has
  <2>1. Is(0, [i \in 0 .. 0 |-> start])
    OBVIOUS
  <2> HIDE DEF Is
  <2> QED
    BY <2>1
<1>4. ASSUME NEW k \in Nat, k \in Has PROVE k + 1 \in Has
  <2>1. PICK g : Is(k, g)
    BY <1>4
  <2> DEFINE h == [i \in 0 .. k + 1 |-> IF i = k + 1 THEN Turn(g[k], i) ELSE g[i]]
  <2>2. Is(k + 1, h)
    BY <2>1
  <2> HIDE DEF Is, h
  <2> QED
    BY <2>2
<1>5. last \in Has
  <2> HIDE DEF Has
  <2> QED
    BY <1>1, <1>3, <1>4, SetInduction
<1>6. Is(last, after)
  <2> HIDE DEF Is
  <2> QED
    BY <1>2, <1>5
<1>7. after[0] = start /\ \A i \in 1 .. last : after[i] = Turn(after[i - 1], i)
  BY <1>1, <1>6
<1>8. QED
  BY <1>7, Zenon DEF start, Turn, after, last

\* AllocateRewardDirectly goes through the validators in order.
LEMMA RewardTurnsAre ==
    ASSUME NEW t, NEW env, NEW total, NEW seq
    PROVE  LET after == RewardTurns(t, env, total, seq)
           IN  /\ after[0] = env
               /\ \A i \in 1 .. Len(Rewarded) : after[i] = Reward(t, after[i - 1], Rewarded[i], Share(total, seq, i))
<1> DEFINE start == env
           Turn(p, i) == Reward(t, p, Rewarded[i], Share(total, seq, i))
           Is(k, g) == g = [i \in 0 .. k |-> IF i = 0 THEN start ELSE Turn(g[i - 1], i)]
           Has == {k \in Nat : \E g : Is(k, g)}
           after == RewardTurns(t, env, total, seq)
           last == Len(Rewarded)
<1>1. last \in Nat
  BY ExecutionConstants
<1>2. after = CHOOSE g : Is(last, g)
  BY DEF RewardTurns
<1> HIDE DEF start, Turn, after, last
<1>3. 0 \in Has
  <2>1. Is(0, [i \in 0 .. 0 |-> start])
    OBVIOUS
  <2> HIDE DEF Is
  <2> QED
    BY <2>1
<1>4. ASSUME NEW k \in Nat, k \in Has PROVE k + 1 \in Has
  <2>1. PICK g : Is(k, g)
    BY <1>4
  <2> DEFINE h == [i \in 0 .. k + 1 |-> IF i = k + 1 THEN Turn(g[k], i) ELSE g[i]]
  <2>2. Is(k + 1, h)
    BY <2>1
  <2> HIDE DEF Is, h
  <2> QED
    BY <2>2
<1>5. last \in Has
  <2> HIDE DEF Has
  <2> QED
    BY <1>1, <1>3, <1>4, SetInduction
<1>6. Is(last, after)
  <2> HIDE DEF Is
  <2> QED
    BY <1>2, <1>5
<1>7. after[0] = start /\ \A i \in 1 .. last : after[i] = Turn(after[i - 1], i)
  BY <1>1, <1>6
<1>8. QED
  BY <1>7, Zenon DEF start, Turn, after, last

\* ApplyPropose and ApplyCheck go through the transactions in order.
LEMMA ProposeTurnsAre ==
    ASSUME NEW t, NEW c, Len(c.value.txs) \in Nat, NEW late
    PROVE  LET after == ProposeTurns(t, c, late)
           IN  /\ after[0] = c
               /\ \A i \in 1 .. Len(c.value.txs) : after[i] = ProposeTx(t, after[i - 1], i \in late)
<1> DEFINE start == c
           Turn(p, i) == ProposeTx(t, p, i \in late)
           Is(k, g) == g = [i \in 0 .. k |-> IF i = 0 THEN start ELSE Turn(g[i - 1], i)]
           Has == {k \in Nat : \E g : Is(k, g)}
           after == ProposeTurns(t, c, late)
           last == Len(c.value.txs)
<1>1. last \in Nat
  OBVIOUS
<1>2. after = CHOOSE g : Is(last, g)
  BY DEF ProposeTurns
<1> HIDE DEF start, Turn, after, last
<1>3. 0 \in Has
  <2>1. Is(0, [i \in 0 .. 0 |-> start])
    OBVIOUS
  <2> HIDE DEF Is
  <2> QED
    BY <2>1
<1>4. ASSUME NEW k \in Nat, k \in Has PROVE k + 1 \in Has
  <2>1. PICK g : Is(k, g)
    BY <1>4
  <2> DEFINE h == [i \in 0 .. k + 1 |-> IF i = k + 1 THEN Turn(g[k], i) ELSE g[i]]
  <2>2. Is(k + 1, h)
    BY <2>1
  <2> HIDE DEF Is, h
  <2> QED
    BY <2>2
<1>5. last \in Has
  <2> HIDE DEF Has
  <2> QED
    BY <1>1, <1>3, <1>4, SetInduction
<1>6. Is(last, after)
  <2> HIDE DEF Is
  <2> QED
    BY <1>2, <1>5
<1>7. after[0] = start /\ \A i \in 1 .. last : after[i] = Turn(after[i - 1], i)
  BY <1>1, <1>6
<1>8. QED
  BY <1>7, Zenon DEF start, Turn, after, last

\* So does StartConsensus when it takes out the dropped ones.
LEMMA TakenAre ==
    ASSUME NEW txs, Len(txs) \in Nat, NEW dropped
    PROVE  LET after == Taken(txs, dropped)
           IN  /\ after[0] = <<>>
               /\ \A i \in 1 .. Len(txs) : after[i] = (IF i \in dropped THEN after[i - 1] ELSE Append(after[i - 1], txs[i]))
<1> DEFINE start == <<>>
           Turn(p, i) == (IF i \in dropped THEN p ELSE Append(p, txs[i]))
           Is(k, g) == g = [i \in 0 .. k |-> IF i = 0 THEN start ELSE Turn(g[i - 1], i)]
           Has == {k \in Nat : \E g : Is(k, g)}
           after == Taken(txs, dropped)
           last == Len(txs)
<1>1. last \in Nat
  OBVIOUS
<1>2. after = CHOOSE g : Is(last, g)
  BY DEF Taken
<1> HIDE DEF start, Turn, after, last
<1>3. 0 \in Has
  <2>1. Is(0, [i \in 0 .. 0 |-> start])
    OBVIOUS
  <2> HIDE DEF Is
  <2> QED
    BY <2>1
<1>4. ASSUME NEW k \in Nat, k \in Has PROVE k + 1 \in Has
  <2>1. PICK g : Is(k, g)
    BY <1>4
  <2> DEFINE h == [i \in 0 .. k + 1 |-> IF i = k + 1 THEN Turn(g[k], i) ELSE g[i]]
  <2>2. Is(k + 1, h)
    BY <2>1
  <2> HIDE DEF Is, h
  <2> QED
    BY <2>2
<1>5. last \in Has
  <2> HIDE DEF Has
  <2> QED
    BY <1>1, <1>3, <1>4, SetInduction
<1>6. Is(last, after)
  <2> HIDE DEF Is
  <2> QED
    BY <1>2, <1>5
<1>7. after[0] = start /\ \A i \in 1 .. last : after[i] = Turn(after[i - 1], i)
  BY <1>1, <1>6
<1>8. QED
  BY <1>7, Zenon DEF start, Turn, after, last

\* So does ApplyFollow.
LEMMA FollowTurnsAre ==
    ASSUME NEW t, NEW v, Len(v.txs) \in Nat
    PROVE  LET after == FollowTurns(t, v)
           IN  /\ after[0] = Begin("follow", v)
               /\ \A i \in 1 .. Len(v.txs) : after[i] = FollowTx(t, after[i - 1])
<1> DEFINE start == Begin("follow", v)
           Turn(p, i) == FollowTx(t, p)
           Is(k, g) == g = [i \in 0 .. k |-> IF i = 0 THEN start ELSE Turn(g[i - 1], i)]
           Has == {k \in Nat : \E g : Is(k, g)}
           after == FollowTurns(t, v)
           last == Len(v.txs)
<1>1. last \in Nat
  OBVIOUS
<1>2. after = CHOOSE g : Is(last, g)
  BY DEF FollowTurns
<1> HIDE DEF start, Turn, after, last
<1>3. 0 \in Has
  <2>1. Is(0, [i \in 0 .. 0 |-> start])
    OBVIOUS
  <2> HIDE DEF Is
  <2> QED
    BY <2>1
<1>4. ASSUME NEW k \in Nat, k \in Has PROVE k + 1 \in Has
  <2>1. PICK g : Is(k, g)
    BY <1>4
  <2> DEFINE h == [i \in 0 .. k + 1 |-> IF i = k + 1 THEN Turn(g[k], i) ELSE g[i]]
  <2>2. Is(k + 1, h)
    BY <2>1
  <2> HIDE DEF Is, h
  <2> QED
    BY <2>2
<1>5. last \in Has
  <2> HIDE DEF Has
  <2> QED
    BY <1>1, <1>3, <1>4, SetInduction
<1>6. Is(last, after)
  <2> HIDE DEF Is
  <2> QED
    BY <1>2, <1>5
<1>7. after[0] = start /\ \A i \in 1 .. last : after[i] = Turn(after[i - 1], i)
  BY <1>1, <1>6
<1>8. QED
  BY <1>7, Zenon DEF start, Turn, after, last

\* The balances are added up account by account.
LEMMA SumsAre ==
    ASSUME NEW t
    PROVE  LET after == Sums(t)
           IN  /\ after[0] = 0
               /\ \A i \in 1 .. Cardinality(Account) : after[i] = after[i - 1] + Balance(t[Listed[i]])
<1> DEFINE start == 0
           Turn(p, i) == p + Balance(t[Listed[i]])
           Is(k, g) == g = [i \in 0 .. k |-> IF i = 0 THEN start ELSE Turn(g[i - 1], i)]
           Has == {k \in Nat : \E g : Is(k, g)}
           after == Sums(t)
           last == Cardinality(Account)
<1>1. last \in Nat
  BY ExecutionConstants, FS_CardinalityType
<1>2. after = CHOOSE g : Is(last, g)
  BY DEF Sums
<1> HIDE DEF start, Turn, after, last
<1>3. 0 \in Has
  <2>1. Is(0, [i \in 0 .. 0 |-> start])
    OBVIOUS
  <2> HIDE DEF Is
  <2> QED
    BY <2>1
<1>4. ASSUME NEW k \in Nat, k \in Has PROVE k + 1 \in Has
  <2>1. PICK g : Is(k, g)
    BY <1>4
  <2> DEFINE h == [i \in 0 .. k + 1 |-> IF i = k + 1 THEN Turn(g[k], i) ELSE g[i]]
  <2>2. Is(k + 1, h)
    BY <2>1
  <2> HIDE DEF Is, h
  <2> QED
    BY <2>2
<1>5. last \in Has
  <2> HIDE DEF Has
  <2> QED
    BY <1>1, <1>3, <1>4, SetInduction
<1>6. Is(last, after)
  <2> HIDE DEF Is
  <2> QED
    BY <1>2, <1>5
<1>7. after[0] = start /\ \A i \in 1 .. last : after[i] = Turn(after[i - 1], i)
  BY <1>1, <1>6
<1>8. QED
  BY <1>7, Zenon DEF start, Turn, after, last

-----------------------------------------------------------------------------
(* The sum of the balances.                                                *)

\* Listed numbers every account, once.
LEMMA ListedAll ==
    LET n == Cardinality(Account)
    IN  /\ n \in Nat /\ Listed \in [1 .. n -> Account]
        /\ \A j, k \in 1 .. n : Listed[j] = Listed[k] => j = k
        /\ \A a \in Account : \E k \in 1 .. n : Listed[k] = a
<1> DEFINE n == Cardinality(Account)
<1>1. n \in Nat /\ ExistsBijection(1 .. n, Account)
  BY ExecutionConstants, FS_CardinalityType
<1>2. Listed \in Bijection(1 .. n, Account)
  BY <1>1 DEF ExistsBijection, Listed
<1> HIDE DEF n
<1>3. QED
  BY <1>1, <1>2 DEF n, Bijection, Injection, Surjection, IsInjective, Range

\* Every balance is a number, 0 for an account that does not exist.
LEMMA BalanceInt ==
    ASSUME NEW acc \in AccountState \cup {NoAccount}
    PROVE  Balance(acc) \in Int
BY DEF Balance, AccountState

\* Changing one account changes the sum by as much.
LEMMA CoinsMove ==
    ASSUME NEW V \in Accounts, NEW W \in Accounts, NEW a \in Account,
           \A b \in Account : b # a => W[b] = V[b]
    PROVE  /\ Coins(V) \in Int
           /\ Coins(W) = Coins(V) + Balance(W[a]) - Balance(V[a])
<1> DEFINE n == Cardinality(Account)
           d == Balance(W[a]) - Balance(V[a])
<1>1. /\ n \in Nat /\ Listed \in [1 .. n -> Account]
      /\ \A j, k \in 1 .. n : Listed[j] = Listed[k] => j = k
  BY ListedAll
<1>2. PICK pos \in 1 .. n : Listed[pos] = a
  BY ListedAll
<1>3. /\ Balance(W[a]) \in Int /\ Balance(V[a]) \in Int
      /\ \A b \in Account : Balance(V[b]) \in Int
  BY BalanceInt DEF Accounts
<1> DEFINE f == Sums(V)
           g == Sums(W)
           Good == {k \in Nat : k <= n => f[k] \in Int /\ g[k] = f[k] + (IF pos <= k THEN d ELSE 0)}
<1>4. f[0] = 0 /\ \A k \in 1 .. n : f[k] = f[k - 1] + Balance(V[Listed[k]])
  BY SumsAre
<1>5. g[0] = 0 /\ \A k \in 1 .. n : g[k] = g[k - 1] + Balance(W[Listed[k]])
  BY SumsAre
<1> HIDE DEF n, f, g, d
<1>6. 0 \in Good
  BY <1>2, <1>4, <1>5
<1>7. ASSUME NEW k \in Nat, k \in Good PROVE k + 1 \in Good
  <2> SUFFICES ASSUME k + 1 <= n
               PROVE  f[k + 1] \in Int /\ g[k + 1] = f[k + 1] + (IF pos <= k + 1 THEN d ELSE 0)
    OBVIOUS
  <2>1. k + 1 \in 1 .. n /\ (k + 1) - 1 = k /\ k <= n
    BY <1>1
  <2>2. f[k] \in Int /\ g[k] = f[k] + (IF pos <= k THEN d ELSE 0)
    BY <1>7, <2>1
  <2>3. /\ f[k + 1] = f[k] + Balance(V[Listed[k + 1]]) /\ g[k + 1] = g[k] + Balance(W[Listed[k + 1]])
        /\ Balance(V[Listed[k + 1]]) \in Int
    BY <1>1, <1>3, <1>4, <1>5, <2>1
  <2>4. CASE pos = k + 1
    BY <1>2, <1>3, <2>2, <2>3, <2>4 DEF d
  <2>5. CASE pos # k + 1
    <3>1. Listed[k + 1] \in Account /\ Listed[k + 1] # a
      BY <1>1, <1>2, <2>1, <2>5
    <3>2. Balance(W[Listed[k + 1]]) = Balance(V[Listed[k + 1]])
      BY <3>1
    <3>3. pos <= k + 1 <=> pos <= k
      BY <2>5
    <3>4. d \in Int
      BY <1>3 DEF d
    <3> QED
      BY <2>2, <2>3, <3>2, <3>3, <3>4
  <2> QED
    BY <2>4, <2>5
<1>8. n \in Good
  <2> HIDE DEF Good
  <2> QED
    BY <1>1, <1>6, <1>7, SetInduction
<1>9. f[n] \in Int /\ g[n] = f[n] + d
  BY <1>1, <1>2, <1>8
<1>10. Coins(V) = f[n] /\ Coins(W) = g[n]
  BY DEF Coins, f, g, n
<1>11. QED
  BY <1>3, <1>9, <1>10 DEF d

-----------------------------------------------------------------------------
(* Environments.                                                           *)

\* What an environment shows, and where it shows a record.
LEMMA ViewType ==
    ASSUME NEW t \in Accounts, NEW env \in Env
    PROVE  /\ View(t, env) \in Accounts
           /\ \A a \in Account : View(t, env)[a] = Entry(t, env, a)
           /\ \A a \in Account : Entry(t, env, a) \in AccountState \cup {NoAccount}
           /\ \A a \in Account : env[a] # Unset => Entry(t, env, a) \in AccountState
BY DEF View, Entry, Accounts, Env

\* The empty environment shows the accounts themselves.
LEMMA NoEnvView ==
    ASSUME NEW t \in Accounts
    PROVE  NoEnv \in Env /\ View(t, NoEnv) = t
BY DEF View, Entry, Accounts, Env, NoEnv

\* Writing one record.
LEMMA ViewSet ==
    ASSUME NEW t \in Accounts, NEW env \in Env, NEW a \in Account, NEW s \in AccountState
    PROVE  /\ Put(env, a, s) \in Env /\ Put(env, a, s)[a] = s
           /\ KeepsRecords(env, Put(env, a, s))
           /\ Written(View(t, env), View(t, Put(env, a, s)), a, s)
<1> DEFINE new == Put(env, a, s)
           V == View(t, env)
           W == View(t, new)
<1>1. s # Unset /\ s # NoAccount
  BY ExecutionConstants
<1>2. new \in Env /\ new[a] = s /\ \A b \in Account : b # a => new[b] = env[b]
  BY DEF Env, Put
<1> HIDE DEF new
<1>3. W \in Accounts /\ V \in Accounts
  BY <1>2, ViewType
<1>4. W[a] = s /\ \A b \in Account : b # a => W[b] = V[b]
  BY <1>1, <1>2 DEF View, Entry
<1>5. KeepsRecords(env, new)
  BY <1>1, <1>2 DEF KeepsRecords
<1>6. Balance(s) = s.balance
  BY <1>1 DEF Balance
<1> HIDE DEF V, W
<1>7. Coins(V) \in Int /\ Coins(W) = Coins(V) + Balance(W[a]) - Balance(V[a])
  BY <1>3, <1>4, CoinsMove
<1>8. Written(V, W, a, s)
  BY <1>3, <1>4, <1>6, <1>7 DEF Written
<1>9. QED
  BY <1>2, <1>5, <1>8 DEF V, W, new

\* The record of an account that a payment or a reward may create.
LEMMA OpenedType ==
    ASSUME NEW acc \in AccountState \cup {NoAccount}
    PROVE  /\ Opened(acc) \in AccountState
           /\ Opened(acc).balance = Balance(acc) /\ Opened(acc).nonce = FirstNonce(acc)
BY DEF Opened, AccountState, Balance, FirstNonce

\* Changing the balance of an account.
LEMMA Richer ==
    ASSUME NEW acc \in AccountState, NEW d \in Int, NEW new, new = [acc EXCEPT !.balance = @ + d]
    PROVE  new \in AccountState /\ new.balance = acc.balance + d /\ new.nonce = acc.nonce
BY DEF AccountState

\* The record of the payer.
LEMMA Poorer ==
    ASSUME NEW acc \in AccountState, NEW d \in Int, NEW new, new = [acc EXCEPT !.balance = @ - d]
    PROVE  new \in AccountState /\ new.balance = acc.balance - d /\ new.nonce = acc.nonce
BY DEF AccountState

-----------------------------------------------------------------------------
(* Payments.                                                               *)

\* PayCoin moves coins from an account that has a record to another.
LEMMA PayCoinPays ==
    ASSUME NEW t \in Accounts, NEW run \in OpRun, NEW src \in Account,
           run.env[src] # Unset, NEW op \in Payment
    PROVE  LET r == PayCoin(t, run, src, op)
           IN  /\ r \in OpRun /\ r.env[src] # Unset
               /\ Paid(View(t, run.env), View(t, r.env))
<1> DEFINE env == run.env
           from == Entry(t, env, src)
           poorer == [from EXCEPT !.balance = @ - op.amount]
           left == [env EXCEPT ![src] = poorer]
           to == Entry(t, left, op.dest)
           opened == Opened(to)
           richer == [opened EXCEPT !.balance = @ + op.amount]
           new == [left EXCEPT ![op.dest] = richer]
           r == PayCoin(t, run, src, op)
           n == op.amount
           dest == op.dest
           can == run.ok /\ from.balance >= n + base_reserve /\ (to # NoAccount \/ n >= base_reserve)
           U == View(t, env)
           V == View(t, left)
           W == View(t, new)
<1>1. env \in Env /\ run.ok \in BOOLEAN /\ n \in Nat /\ dest \in Account
  BY DEF OpRun, Payment
<1>2. from \in AccountState /\ U \in Accounts /\ U[src] = from
  BY <1>1, ViewType
<1>3. CASE ~can
  <2>1. r = [ok |-> FALSE, env |-> env]
    BY <1>3 DEF PayCoin
  <2>2. r \in OpRun /\ r.env = env
    <3> HIDE DEF r
    <3> QED
      BY <1>1, <2>1 DEF OpRun
  <2>3. Paid(U, U)
    BY <1>2 DEF Paid
  <2> QED
    BY <2>2, <2>3
<1>4. CASE can
  <2>1. r = [ok |-> TRUE, env |-> new]
    BY <1>4 DEF PayCoin
  <2>2. poorer = [from EXCEPT !.balance = @ - n] /\ left = Put(env, src, poorer)
    BY DEF Put
  <2>3. richer = [opened EXCEPT !.balance = @ + n] /\ new = Put(left, dest, richer)
    BY DEF Put
  <2>4. to = Entry(t, left, dest) /\ opened = Opened(to)
    OBVIOUS
  <2>5. from.balance >= n + base_reserve /\ (to # NoAccount \/ n >= base_reserve)
    BY <1>4
  <2>6. env[src] # Unset
    OBVIOUS
  <2> HIDE DEF env, from, poorer, left, to, opened, richer, new, n, dest
  <2>7. poorer \in AccountState /\ poorer.balance = from.balance - n /\ poorer.nonce = from.nonce
    BY <1>1, <1>2, <2>2, Poorer
  <2>8. /\ left \in Env /\ left[src] # Unset /\ V \in Accounts /\ V[src] = poorer
        /\ \A b \in Account : b # src => V[b] = U[b]
        /\ Coins(U) \in Int /\ Coins(V) = Coins(U) + poorer.balance - Balance(U[src])
    <3>1. left \in Env /\ KeepsRecords(env, left) /\ Written(U, V, src, poorer)
      BY <1>1, <2>2, <2>7, ViewSet
    <3> QED
      BY <2>6, <3>1 DEF Written, KeepsRecords
  <2>9. to \in AccountState \cup {NoAccount} /\ V[dest] = to
    BY <1>1, <2>4, <2>8, ViewType
  <2>10. /\ opened \in AccountState /\ opened.balance = Balance(to)
         /\ opened.nonce = FirstNonce(to) /\ Balance(to) \in Int
    BY <2>4, <2>9, OpenedType, BalanceInt
  <2>11. richer \in AccountState /\ richer.balance = Balance(to) + n /\ richer.nonce = FirstNonce(to)
    BY <1>1, <2>3, <2>10, Richer
  <2>12. /\ new \in Env /\ new[src] # Unset /\ W \in Accounts /\ W[dest] = richer
         /\ \A b \in Account : b # dest => W[b] = V[b]
         /\ Coins(W) = Coins(V) + richer.balance - Balance(V[dest])
    <3>1. new \in Env /\ KeepsRecords(left, new) /\ Written(V, W, dest, richer)
      BY <1>1, <2>3, <2>8, <2>11, ViewSet
    <3> QED
      BY <2>8, <3>1 DEF Written, KeepsRecords
  <2> HIDE DEF U, V, W
  <2>13. Coins(W) = Coins(U)
    <3>1. Balance(U[src]) = from.balance /\ from.balance \in Int
      BY <1>2, ExecutionConstants DEF Balance, AccountState
    <3> QED
      BY <1>1, <2>7, <2>8, <2>9, <2>10, <2>11, <2>12, <3>1
  <2>14. ASSUME Reserved(U) PROVE Reserved(W)
    <3>1. from.balance \in Int /\ base_reserve \in Nat
      BY <1>2, ExecutionConstants DEF AccountState
    <3>2. poorer.balance >= base_reserve
      BY <1>1, <2>5, <2>7, <3>1
    <3>3. Reserved(V)
      BY <2>8, <2>14, <3>2 DEF Reserved
    <3>4. richer.balance >= base_reserve
      <4>1. CASE to = NoAccount
        BY <1>1, <2>5, <2>11, <3>1, <4>1 DEF Balance
      <4>2. CASE to # NoAccount
        <5>1. to.balance >= base_reserve /\ Balance(to) = to.balance
          BY <1>1, <2>9, <3>3, <4>2 DEF Reserved, Balance
        <5> QED
          BY <1>1, <2>10, <2>11, <3>1, <5>1
      <4> QED
        BY <4>1, <4>2
    <3> QED
      BY <2>12, <3>3, <3>4 DEF Reserved
  <2>15. ASSUME NEW b \in Account
         PROVE  /\ U[b] # NoAccount => W[b] # NoAccount
                /\ FirstNonce(W[b]) = FirstNonce(U[b])
    <3>1. poorer # NoAccount /\ richer # NoAccount /\ from # NoAccount
      BY <1>2, <2>7, <2>11, ExecutionConstants
    <3>2. /\ U[b] # NoAccount => V[b] # NoAccount
          /\ FirstNonce(V[b]) = FirstNonce(U[b])
      BY <1>2, <2>7, <2>8, <3>1 DEF FirstNonce
    <3>3. /\ V[b] # NoAccount => W[b] # NoAccount
          /\ FirstNonce(W[b]) = FirstNonce(V[b])
      BY <2>9, <2>11, <2>12, <3>1 DEF FirstNonce
    <3> QED
      BY <3>2, <3>3
  <2>16. Paid(U, W)
    BY <2>12, <2>13, <2>14, <2>15 DEF Paid
  <2>17. r \in OpRun /\ r.env = new
    <3> HIDE DEF r
    <3> QED
      BY <2>1, <2>12 DEF OpRun
  <2> QED
    BY <2>12, <2>16, <2>17 DEF U, W, env
<1>5. QED
  BY <1>3, <1>4

\* The parts of a transaction.
LEMMA TxType ==
    ASSUME NEW x \in Tx
    PROVE  /\ tx[x].source \in Account /\ tx[x].nonce \in Nat /\ tx[x].fee_limit \in Nat
           /\ tx[x].self \in Nat /\ tx[x].fee \in Nat
           /\ tx[x].ops \in Seq(Payment) /\ Len(tx[x].ops) \in Nat
           /\ \A k \in 1 .. Len(tx[x].ops) : tx[x].ops[k] \in Payment
<1>1. tx[x] \in Transaction
  BY ExecutionConstants
<1>2. QED
  BY <1>1 DEF Transaction

\* Payments add up.
LEMMA PaidTwice ==
    ASSUME NEW U, NEW V, NEW W, Paid(U, V), Paid(V, W)
    PROVE  Paid(U, W)
BY DEF Paid

\* The operations of a transaction only move coins, and none succeeds for less
\* than the transaction costs.
LEMMA ApplyOpsPays ==
    ASSUME NEW t \in Accounts, NEW env \in Env, NEW x \in Tx, env[tx[x].source] # Unset
    PROVE  LET r == ApplyOps(t, env, x)
           IN  /\ r \in OpRun /\ r.env[tx[x].source] # Unset
               /\ Paid(View(t, env), View(t, r.env))
               /\ r.ok => tx[x].fee <= tx[x].fee_limit
<1> DEFINE src == tx[x].source
           n == Len(tx[x].ops)
           after == OpTurns(t, env, x)
           enough == tx[x].fee <= tx[x].fee_limit
           Fine(r) == /\ r \in OpRun /\ r.env[src] # Unset
                      /\ Paid(View(t, env), View(t, r.env))
                      /\ r.ok => enough
           Good == {k \in Nat : k <= n => Fine(after[k])}
<1>1. /\ src \in Account /\ n \in Nat
      /\ \A k \in 1 .. n : tx[x].ops[k] \in Payment
  BY TxType
<1>2. /\ after[0] = [ok |-> enough, env |-> env]
      /\ \A k \in 1 .. n : after[k] = PayCoin(t, after[k - 1], src, tx[x].ops[k])
  BY OpTurnsAre
<1>3. enough \in BOOLEAN /\ env[src] # Unset
  OBVIOUS
<1>4. ApplyOps(t, env, x) = after[n]
  BY DEF ApplyOps
<1> HIDE DEF src, n, after, enough
<1>5. 0 \in Good
  <2>1. Paid(View(t, env), View(t, env))
    BY ViewType DEF Paid
  <2>2. after[0] \in OpRun /\ after[0].env = env /\ after[0].ok = enough
    BY <1>2, <1>3 DEF OpRun
  <2> QED
    BY <1>3, <2>1, <2>2
<1>6. ASSUME NEW k \in Nat, k \in Good PROVE k + 1 \in Good
  <2> SUFFICES ASSUME k + 1 <= n PROVE Fine(after[k + 1])
    OBVIOUS
  <2> DEFINE op == tx[x].ops[k + 1]
  <2>1. k + 1 \in 1 .. n /\ (k + 1) - 1 = k /\ Fine(after[k])
    BY <1>1, <1>6
  <2>2. after[k + 1] = PayCoin(t, after[k], src, op) /\ op \in Payment
    BY <1>1, <1>2, <2>1
  <2> HIDE DEF op
  <2>3. /\ after[k + 1] \in OpRun /\ after[k + 1].env[src] # Unset
        /\ Paid(View(t, after[k].env), View(t, after[k + 1].env))
    BY <1>1, <2>1, <2>2, PayCoinPays
  <2>4. Paid(View(t, env), View(t, after[k + 1].env))
    BY <2>1, <2>3, PaidTwice
  <2>5. after[k + 1].ok => after[k].ok
    BY <2>2 DEF PayCoin
  <2> QED
    BY <2>1, <2>3, <2>4, <2>5
<1>7. n \in Good
  <2> HIDE DEF Good
  <2> QED
    BY <1>1, <1>5, <1>6, SetInduction
<1>8. Fine(after[n])
  BY <1>1, <1>7
<1>9. QED
  BY <1>4, <1>8 DEF src, enough

-----------------------------------------------------------------------------
(* One transaction.                                                        *)

\* PayFee takes the limit and increases the nonce.
LEMMA ChargedPays ==
    ASSUME NEW t \in Accounts, NEW env \in Env, NEW x \in Tx, ValidForApply(t, env, x)
    PROVE  LET paid == Charged(t, env, x)
           IN  /\ paid \in Env /\ paid[tx[x].source] # Unset
               /\ Charges(View(t, env), View(t, paid), x, tx[x].fee_limit)
<1> DEFINE src == tx[x].source
           limit == tx[x].fee_limit
           acc == Entry(t, env, src)
           s == [balance |-> acc.balance - limit, nonce |-> acc.nonce + 1]
           paid == Charged(t, env, x)
           V == View(t, env)
           W == View(t, paid)
<1>1. src \in Account /\ limit \in Nat /\ base_reserve \in Nat
  BY TxType, ExecutionConstants
<1>2. /\ V \in Accounts /\ V[src] = acc /\ acc \in AccountState /\ acc # NoAccount
      /\ acc.balance - limit >= base_reserve
  BY <1>1, ViewType DEF ValidForApply, CheckFee
<1>3. acc.balance \in Int /\ acc.nonce \in Nat
  BY <1>2 DEF AccountState
<1>4. /\ s \in AccountState /\ s.balance = acc.balance - limit /\ s.nonce = acc.nonce + 1
      /\ s # NoAccount /\ s # Unset
  <2> HIDE DEF acc, limit
  <2>1. s \in AccountState /\ s.balance = acc.balance - limit /\ s.nonce = acc.nonce + 1
    BY <1>1, <1>3 DEF AccountState
  <2> HIDE DEF s
  <2> QED
    BY <2>1, ExecutionConstants
<1>5. paid = Put(env, src, s)
  BY DEF Put, Charged
<1> HIDE DEF src, limit, acc, s, paid
<1>6. paid \in Env /\ paid[src] = s /\ Written(V, W, src, s)
  BY <1>1, <1>4, <1>5, ViewSet
<1> HIDE DEF V, W
<1>7. Coins(V) \in Int /\ Coins(W) = Coins(V) - limit
  <2>1. Balance(V[src]) = acc.balance
    BY <1>2 DEF Balance
  <2> QED
    BY <1>1, <1>3, <1>4, <1>6, <2>1 DEF Written
<1>8. ASSUME Reserved(V) PROVE Reserved(W)
  BY <1>2, <1>4, <1>6, <1>8 DEF Written, Reserved
<1>9. ASSUME NEW b \in Account
      PROVE  /\ V[b] # NoAccount => W[b] # NoAccount
             /\ FirstNonce(W[b]) = FirstNonce(V[b]) + (IF b = src THEN 1 ELSE 0)
  <2>1. CASE b = src
    BY <1>2, <1>4, <1>6, <2>1 DEF Written, FirstNonce
  <2>2. CASE b # src
    <3>1. W[b] = V[b] /\ FirstNonce(V[b]) \in Nat
      BY <1>2, <1>6, <2>2 DEF Written, FirstNonce, Accounts, AccountState
    <3> QED
      BY <2>2, <3>1
  <2> QED
    BY <2>1, <2>2
<1>10. Charges(V, W, x, limit)
  <2>1. W \in Accounts
    BY <1>6 DEF Written
  <2> QED
    BY <1>1, <1>7, <1>8, <1>9, <2>1 DEF Charges, src
<1>11. QED
  BY <1>4, <1>6, <1>10 DEF V, W, src, limit, paid

\* A transaction that was paid for takes its fee, whatever became of it.
LEMMA OutcomePays ==
    ASSUME NEW t \in Accounts, NEW env \in Env, NEW x \in Tx, ValidForApply(t, env, x),
           NEW expired \in BOOLEAN
    PROVE  LET out == Outcome(t, env, x, expired)
           IN  /\ out.env \in Env
               /\ Charges(View(t, env), View(t, out.env), x, out.fee)
               /\ (out.kind = "expire") <=> expired
               /\ out.kind = "error" => ~ApplyOps(t, Charged(t, env, x), x).ok
<1> DEFINE out == Outcome(t, env, x, expired)
           paid == Charged(t, env, x)
           run == ApplyOps(t, paid, x)
           src == tx[x].source
           limit == tx[x].fee_limit
           fee == tx[x].fee
           V == View(t, env)
           P == View(t, paid)
           R == View(t, run.env)
<1>1. src \in Account /\ limit \in Nat /\ fee \in Nat /\ base_reserve \in Nat
  BY TxType, ExecutionConstants
<1>2. paid \in Env /\ paid[src] # Unset /\ Charges(V, P, x, limit)
  BY ChargedPays
<1>3. CASE expired \/ ~run.ok
  <2>1. /\ out.env = paid /\ out.fee = limit /\ (out.kind = "expire" <=> expired)
        /\ out.kind = "error" => ~run.ok
    BY <1>3 DEF Outcome
  <2> QED
    BY <1>2, <2>1, Zenon
<1>4. CASE ~expired /\ run.ok
  <2> DEFINE acc == run.env[src]
             s == [acc EXCEPT !.balance = @ + limit - fee]
             new == Put(run.env, src, s)
             W == View(t, new)
  <2>1. out = [kind |-> "ok", fee |-> fee,
               env |-> [run.env EXCEPT ![src].balance = @ + limit - fee]]
    BY <1>4 DEF Outcome
  <2>2. out.fee = fee /\ out.kind = "ok" /\ out.env = new
    BY <2>1 DEF Put
  <2> HIDE DEF paid, run, src, fee, limit
  <2>3. run \in OpRun /\ acc # Unset /\ Paid(P, R) /\ fee <= limit
    BY <1>2, <1>4, ApplyOpsPays DEF paid, run, src, fee, limit
  <2>4. run.env \in Env /\ acc \in AccountState /\ R[src] = acc
    BY <1>1, <2>3, ViewType DEF OpRun, Env, Entry
  <2>5. acc.balance \in Int /\ s \in AccountState /\ s.balance = acc.balance + limit - fee
        /\ s.nonce = acc.nonce /\ s # NoAccount
    <3> HIDE DEF acc
    <3>1. acc.balance \in Int /\ s \in AccountState /\ s.balance = acc.balance + limit - fee
        /\ s.nonce = acc.nonce
      BY <1>1, <2>4 DEF AccountState
    <3> HIDE DEF s
    <3> QED
      BY <3>1, ExecutionConstants
  <2> HIDE DEF acc, s, new
  <2>6. new \in Env /\ Written(R, W, src, s)
    BY <1>1, <2>4, <2>5, ViewSet DEF new
  <2> HIDE DEF V, P, R, W
  <2>7. acc # NoAccount
    BY <2>4, ExecutionConstants
  <2>8. Coins(V) \in Int /\ Coins(W) = Coins(V) - fee
    <3>1. Balance(R[src]) = acc.balance
      BY <2>4, <2>7 DEF Balance
    <3>2. Coins(R) = Coins(V) - limit /\ Coins(V) \in Int
      BY <1>2, <2>3 DEF Charges, Paid
    <3> QED
      BY <1>1, <2>5, <2>6, <3>1, <3>2 DEF Written
  <2>9. ASSUME Reserved(V) PROVE Reserved(W)
    <3>1. Reserved(R)
      BY <1>2, <2>3, <2>9 DEF Charges, Paid
    <3>2. acc.balance >= base_reserve
      BY <1>1, <2>4, <2>7, <3>1 DEF Reserved
    <3>3. s.balance >= base_reserve
      BY <1>1, <2>3, <2>5, <3>2
    <3> QED
      BY <2>6, <3>1, <3>3 DEF Written, Reserved
  <2>10. ASSUME NEW b \in Account
         PROVE  /\ V[b] # NoAccount => W[b] # NoAccount
                /\ FirstNonce(W[b]) = FirstNonce(V[b]) + (IF b = src THEN 1 ELSE 0)
    <3>1. /\ V[b] # NoAccount => R[b] # NoAccount
          /\ FirstNonce(R[b]) = FirstNonce(V[b]) + (IF b = src THEN 1 ELSE 0)
      BY <1>2, <2>3 DEF Charges, Paid, src
    <3>2. FirstNonce(W[b]) = FirstNonce(R[b]) /\ (R[b] # NoAccount => W[b] # NoAccount)
      BY <2>4, <2>5, <2>6, <2>7 DEF Written, FirstNonce
    <3> QED
      BY <3>1, <3>2
  <2>11. Charges(V, W, x, fee)
    <3>1. W \in Accounts
      BY <2>6 DEF Written
    <3> QED
      BY <1>1, <2>8, <2>9, <2>10, <3>1 DEF Charges, src
  <2>12. out.kind # "expire" /\ out.kind # "error"
    BY <2>2
  <2> QED
    BY <1>4, <2>2, <2>6, <2>11, <2>12, Zenon DEF V, W, fee
<1>5. QED
  BY <1>3, <1>4

-----------------------------------------------------------------------------
(* The rewards.                                                            *)

\* The shares and the remainder of a division make up the whole.
LEMMA DivMod ==
    ASSUME NEW a \in Nat, NEW n \in Nat \ {0}
    PROVE  /\ a \div n \in Nat /\ a % n \in 0 .. n - 1
           /\ n * (a \div n) + (a % n) = a
OBVIOUS

\* A larger sum has no smaller shares.
LEMMA DivGrows ==
    ASSUME NEW a \in Nat, NEW b \in Nat, NEW n \in Nat \ {0}
    PROVE  (a + b) \div n >= b \div n
<1> DEFINE c == a + b
           p == c \div n
           q == b \div n
<1>0. c \in Nat /\ c = a + b
  OBVIOUS
<1> HIDE DEF c
<1>1. p \in Nat /\ c % n \in 0 .. n - 1 /\ n * p + (c % n) = c
  BY <1>0, DivMod, Zenon
<1>2. q \in Nat /\ b % n \in 0 .. n - 1 /\ n * q + (b % n) = b
  BY DivMod, Zenon
<1> HIDE DEF p, q
<1>3. n * q < n * p + n
  BY <1>0, <1>1, <1>2
<1>4. n * p + n = n * (p + 1)
  BY <1>1
<1>5. ASSUME p < q PROVE FALSE
  <2>1. PICK d \in Nat : q = p + 1 + d
    <3>1. q - p - 1 \in Nat /\ q = p + 1 + (q - p - 1)
      BY <1>1, <1>2, <1>5
    <3> QED
      BY <3>1
  <2>2. n * q = n * (p + 1) + n * d /\ n * d \in Nat
    BY <1>1, <2>1
  <2> QED
    BY <1>1, <1>2, <1>3, <1>4, <2>2
<1>6. QED
  BY <1>1, <1>2, <1>5 DEF p, q, c

\* One reward.
LEMMA RewardPays ==
    ASSUME NEW t \in Accounts, NEW env \in Env, NEW a \in Account, NEW share \in Nat
    PROVE  LET new == Reward(t, env, a, share)
               V == View(t, env)
               W == View(t, new)
           IN  /\ new \in Env /\ Rewards(V, W, share)
               /\ (Reserved(V) /\ (V[a] # NoAccount \/ share >= base_reserve)) => Reserved(W)
<1> DEFINE to == Entry(t, env, a)
           acc == Opened(to)
           s == [acc EXCEPT !.balance = @ + share]
           new == Reward(t, env, a, share)
           V == View(t, env)
           W == View(t, new)
<1>1. V \in Accounts /\ V[a] = to /\ to \in AccountState \cup {NoAccount}
  BY ViewType
<1>2. /\ acc \in AccountState /\ acc.balance = Balance(to) /\ acc.nonce = FirstNonce(to)
      /\ Balance(to) \in Int
  BY <1>1, OpenedType, BalanceInt
<1>3. new = Put(env, a, s)
  BY DEF Reward, Put
<1> HIDE DEF acc
<1>4. s \in AccountState /\ s.balance = Balance(to) + share /\ s.nonce = FirstNonce(to)
  BY <1>2, Richer
<1> HIDE DEF to, s, new
<1>5. new \in Env /\ Written(V, W, a, s)
  BY <1>3, <1>4, ViewSet
<1>6. s # NoAccount /\ base_reserve \in Nat
  BY <1>4, ExecutionConstants
<1> HIDE DEF V, W
<1>7. Rewards(V, W, share)
  BY <1>1, <1>2, <1>4, <1>5, <1>6 DEF Written, Rewards, FirstNonce
<1>8. ASSUME Reserved(V), V[a] # NoAccount \/ share >= base_reserve PROVE Reserved(W)
  <2>1. s.balance >= base_reserve
    <3>1. CASE to = NoAccount
      BY <1>1, <1>4, <1>6, <1>8, <3>1 DEF Balance
    <3>2. CASE to # NoAccount
      BY <1>1, <1>2, <1>4, <1>6, <1>8, <3>2 DEF Balance, Reserved
    <3> QED
      BY <3>1, <3>2
  <2> QED
    BY <1>5, <1>8, <2>1 DEF Written, Reserved
<1>9. QED
  BY <1>5, <1>7, <1>8 DEF V, W, new

\* AllocateReward gives out the fees and the reward of the block, to the last
\* coin.
LEMMA RewardTurnsPay ==
    ASSUME NEW t \in Accounts, NEW env \in Env, NEW total \in Nat, NEW seq \in Nat
    PROVE  LET new == RewardTurns(t, env, total, seq)[Len(Rewarded)]
               V == View(t, env)
               W == View(t, new)
           IN  /\ new \in Env /\ Rewards(V, W, total)
               /\ (Reserved(V) /\ RewardsSuffice(V, total \div Len(Rewarded))) => Reserved(W)
<1> DEFINE n == Len(Rewarded)
           q == total \div n
           m == total % n
           pos == (seq % n) + 1
           after == RewardTurns(t, env, total, seq)
           V == View(t, env)
           Out(j) == j * q + (IF pos <= j THEN m ELSE 0)
           Fine(j) == /\ after[j] \in Env /\ Rewards(V, View(t, after[j]), Out(j))
                      /\ (Reserved(V) /\ RewardsSuffice(V, q)) => Reserved(View(t, after[j]))
           Good == {j \in Nat : j <= n => Fine(j)}
<1>1. n \in Nat \ {0} /\ \A j \in 1 .. n : Rewarded[j] \in Account
  BY ExecutionConstants
<1>2. q \in Nat /\ m \in Nat /\ pos \in 1 .. n /\ n * q + m = total
  <2>1. seq % n \in 0 .. n - 1
    BY <1>1, DivMod, Zenon
  <2>2. q \in Nat /\ m \in 0 .. n - 1 /\ n * q + m = total
    BY <1>1, DivMod, Zenon
  <2> HIDE DEF n, q, m
  <2> QED
    BY <1>1, <2>1, <2>2
<1>3. /\ after[0] = env
      /\ \A j \in 1 .. n : after[j] = Reward(t, after[j - 1], Rewarded[j], Share(total, seq, j))
  BY RewardTurnsAre
<1>4. \A j \in 1 .. n : Share(total, seq, j) = q + (IF j = pos THEN m ELSE 0)
  BY DEF Share
<1>5. V \in Accounts
  BY ViewType
<1>6. Coins(V) \in Int
  <2>1. PICK a \in Account : TRUE
    BY <1>1
  <2> HIDE DEF V
  <2> QED
    BY <1>5, <2>1, CoinsMove
<1> HIDE DEF n, q, m, pos, after
<1>7. 0 \in Good
  <2>1. Out(0) = 0
    BY <1>2
  <2>2. Rewards(V, V, 0)
    <3> HIDE DEF V
    <3> QED
      BY <1>5, <1>6 DEF Rewards
  <2> HIDE DEF Out
  <2> QED
    BY <1>3, <2>1, <2>2
<1>8. ASSUME NEW j \in Nat, j \in Good PROVE j + 1 \in Good
  <2> SUFFICES ASSUME j + 1 <= n PROVE Fine(j + 1)
    OBVIOUS
  <2> DEFINE a == Rewarded[j + 1]
             share == Share(total, seq, j + 1)
             U == View(t, after[j])
             W == View(t, after[j + 1])
  <2>1. j + 1 \in 1 .. n /\ (j + 1) - 1 = j /\ Fine(j)
    BY <1>1, <1>8
  <2>2. share = q + (IF j + 1 = pos THEN m ELSE 0) /\ share \in Nat /\ share >= q
    BY <1>2, <1>4, <2>1
  <2>3. Out(j + 1) = Out(j) + share /\ Out(j) \in Int
    <3>1. (j + 1) * q = j * q + q /\ j * q \in Int
      BY <1>2
    <3> HIDE DEF share
    <3> QED
      BY <1>2, <2>2, <3>1
  <2>4. a \in Account /\ after[j + 1] = Reward(t, after[j], a, share)
    BY <1>1, <1>3, <2>1
  <2> HIDE DEF a, share, Out
  <2>5. /\ after[j + 1] \in Env /\ Rewards(U, W, share)
        /\ (Reserved(U) /\ (U[a] # NoAccount \/ share >= base_reserve)) => Reserved(W)
    BY <2>1, <2>2, <2>4, RewardPays
  <2> HIDE DEF U, W
  <2>6. Rewards(V, U, Out(j)) /\ (Reserved(V) /\ RewardsSuffice(V, q) => Reserved(U))
    BY <2>1 DEF U
  <2> HIDE DEF V
  <2>7. Rewards(V, W, Out(j + 1))
    BY <2>2, <2>3, <2>5, <2>6 DEF Rewards
  <2>8. ASSUME Reserved(V), RewardsSuffice(V, q) PROVE Reserved(W)
    <3>1. V[a] # NoAccount \/ q >= base_reserve
      BY <2>1, <2>8 DEF RewardsSuffice, a, n
    <3>2. U[a] # NoAccount \/ share >= base_reserve
      <4>1. base_reserve \in Nat
        BY ExecutionConstants
      <4>2. V[a] # NoAccount => U[a] # NoAccount
        BY <2>4, <2>6 DEF Rewards
      <4> QED
        BY <1>2, <2>2, <3>1, <4>1, <4>2
    <3> QED
      BY <2>5, <2>6, <2>8, <3>2
  <2> QED
    BY <2>5, <2>7, <2>8 DEF W
<1>9. n \in Good
  <2> HIDE DEF Good
  <2> QED
    BY <1>1, <1>7, <1>8, SetInduction
<1>10. Fine(n)
  BY <1>1, <1>9
<1>11. Out(n) = total
  BY <1>1, <1>2
<1>12. QED
  BY <1>10, <1>11 DEF n, after, q

-----------------------------------------------------------------------------
(* One turn of an execution.                                               *)

\* The parts of a context.
LEMMA ContextFields ==
    ASSUME NEW c \in Context
    PROVE  /\ c.mode \in {"propose", "check", "recheck", "follow"} /\ c.value \in Value
           /\ c.i \in Nat \ {0} /\ c.env \in Env /\ c.fee \in Nat /\ c.dropped \in SUBSET Nat
           /\ c.expire \in SUBSET Int /\ c.error \in SUBSET Int /\ c.tried \in Nat
BY DEF Context

\* The parts of a value.
LEMMA ValueFields ==
    ASSUME NEW v \in Value
    PROVE  /\ v.seq \in Nat /\ v.time \in Nat /\ v.txs \in Seq(Tx) /\ Len(v.txs) \in Nat
           /\ v.expire \in SUBSET Int /\ v.error \in SUBSET Int
           /\ \A j \in 1 .. Len(v.txs) : v.txs[j] \in Tx
BY DEF Value

\* The fields that Executed changes.
LEMMA ExecutedTurns ==
    ASSUME NEW c \in Context, NEW out, out.env \in Env, out.fee \in Nat, NEW idx \in Int
    PROVE  Turned(c, Executed(c, out, idx), out.env, c.fee + out.fee, c.dropped,
                  IF out.kind = "expire" THEN c.expire \cup {idx} ELSE c.expire,
                  IF out.kind = "error" THEN c.error \cup {idx} ELSE c.error)
<1> DEFINE expire == IF out.kind = "expire" THEN c.expire \cup {idx} ELSE c.expire
           error == IF out.kind = "error" THEN c.error \cup {idx} ELSE c.error
           fee == c.fee + out.fee
           next == c.i + 1
           d == Executed(c, out, idx)
           c1 == [c EXCEPT !.i = next]
           c2 == [c1 EXCEPT !.env = out.env]
           c3 == [c2 EXCEPT !.fee = fee]
           c4 == [c3 EXCEPT !.expire = expire]
<1>1. expire \in SUBSET Int /\ error \in SUBSET Int /\ fee \in Nat /\ next \in Nat \ {0}
  BY ContextFields
<1>2. c1 = [c EXCEPT !.i = next]
  OBVIOUS
<1>2b. c2 = [c1 EXCEPT !.env = out.env]
  OBVIOUS
<1>2c. c3 = [c2 EXCEPT !.fee = fee]
  OBVIOUS
<1>2d. c4 = [c3 EXCEPT !.expire = expire]
  OBVIOUS
<1>3. d = [c4 EXCEPT !.error = error]
  BY DEF Executed
<1> HIDE DEF expire, error, fee, next, d, c1, c2, c3, c4
<1>4. /\ c1 \in Context /\ c1.i = next
      /\ c1.mode = c.mode /\ c1.value = c.value /\ c1.env = c.env /\ c1.fee = c.fee
      /\ c1.dropped = c.dropped /\ c1.expire = c.expire /\ c1.error = c.error /\ c1.tried = c.tried
  BY <1>1, <1>2 DEF Context
<1>5. /\ c2 \in Context /\ c2.env = out.env
      /\ c2.mode = c1.mode /\ c2.value = c1.value /\ c2.i = c1.i /\ c2.fee = c1.fee
      /\ c2.dropped = c1.dropped /\ c2.expire = c1.expire /\ c2.error = c1.error /\ c2.tried = c1.tried
  BY <1>1, <1>2b, <1>4 DEF Context
<1>6. /\ c3 \in Context /\ c3.fee = fee
      /\ c3.mode = c2.mode /\ c3.value = c2.value /\ c3.i = c2.i /\ c3.env = c2.env
      /\ c3.dropped = c2.dropped /\ c3.expire = c2.expire /\ c3.error = c2.error /\ c3.tried = c2.tried
  BY <1>1, <1>2c, <1>5 DEF Context
<1>7. /\ c4 \in Context /\ c4.expire = expire
      /\ c4.mode = c3.mode /\ c4.value = c3.value /\ c4.i = c3.i /\ c4.env = c3.env
      /\ c4.fee = c3.fee /\ c4.dropped = c3.dropped /\ c4.error = c3.error /\ c4.tried = c3.tried
  BY <1>1, <1>2d, <1>6 DEF Context
<1>8. /\ d \in Context /\ d.error = error
      /\ d.mode = c4.mode /\ d.value = c4.value /\ d.i = c4.i /\ d.env = c4.env
      /\ d.fee = c4.fee /\ d.dropped = c4.dropped /\ d.expire = c4.expire /\ d.tried = c4.tried
  BY <1>1, <1>3, <1>7 DEF Context
<1>9. Turned(c, d, out.env, fee, c.dropped, expire, error)
  BY <1>4, <1>5, <1>6, <1>7, <1>8 DEF Turned, next
<1>10. QED
  BY <1>9 DEF expire, error, fee, d

\* The fields that a dropped transaction changes.
LEMMA DroppedTurns ==
    ASSUME NEW t, NEW c \in Context, Pinned(t, c.env, tx[NextTx(c)].source) \in Env
    PROVE  Turned(c, Dropped(t, c), Pinned(t, c.env, tx[NextTx(c)].source), c.fee,
                  c.dropped \cup {c.i}, c.expire, c.error)
<1> DEFINE dropped == c.dropped \cup {c.i}
           env == Pinned(t, c.env, tx[NextTx(c)].source)
           next == c.i + 1
           d == Dropped(t, c)
           c1 == [c EXCEPT !.i = next]
           c2 == [c1 EXCEPT !.dropped = dropped]
<1>1. dropped \in SUBSET Nat /\ env \in Env /\ next \in Nat \ {0}
  BY ContextFields
<1>2. c1 = [c EXCEPT !.i = next]
  OBVIOUS
<1>2b. c2 = [c1 EXCEPT !.dropped = dropped]
  OBVIOUS
<1>3. d = [c2 EXCEPT !.env = env]
  BY DEF Dropped
<1> HIDE DEF dropped, env, next, d, c1, c2
<1>4. /\ c1 \in Context /\ c1.i = next
      /\ c1.mode = c.mode /\ c1.value = c.value /\ c1.env = c.env /\ c1.fee = c.fee
      /\ c1.dropped = c.dropped /\ c1.expire = c.expire /\ c1.error = c.error /\ c1.tried = c.tried
  BY <1>1, <1>2 DEF Context
<1>5. /\ c2 \in Context /\ c2.dropped = dropped
      /\ c2.mode = c1.mode /\ c2.value = c1.value /\ c2.i = c1.i /\ c2.env = c1.env
      /\ c2.fee = c1.fee /\ c2.expire = c1.expire /\ c2.error = c1.error /\ c2.tried = c1.tried
  BY <1>1, <1>2b, <1>4 DEF Context
<1>6. /\ d \in Context /\ d.env = env
      /\ d.mode = c2.mode /\ d.value = c2.value /\ d.i = c2.i /\ d.fee = c2.fee
      /\ d.dropped = c2.dropped /\ d.expire = c2.expire /\ d.error = c2.error /\ d.tried = c2.tried
  BY <1>1, <1>3, <1>5 DEF Context
<1>7. Turned(c, d, env, c.fee, dropped, c.expire, c.error)
  BY <1>4, <1>5, <1>6 DEF Turned, next
<1>8. QED
  BY <1>7, Zenon DEF dropped, env, d

\* The index that the next transaction will have in the value.
LEMMA DroppedCount ==
    ASSUME NEW c \in Context, Bounded(c)
    PROVE  /\ c.i - Cardinality(c.dropped) \in 1 .. c.i
           /\ c.dropped = {} => c.i - Cardinality(c.dropped) = c.i
<1> DEFINE S == 1 .. c.i - 1
           D == c.dropped
<1>1. c.i \in Nat \ {0} /\ c.i - 1 \in Nat /\ D \in SUBSET S
  BY ContextFields DEF Bounded
<1>2. IsFiniteSet(S) /\ Cardinality(S) = c.i - 1
  <2> DEFINE m == c.i - 1
  <2>1. 1 \in Int /\ m \in Nat
    BY <1>1
  <2> HIDE DEF m
  <2>2. IsFiniteSet(1 .. m) /\ Cardinality(1 .. m) = IF 1 > m THEN 0 ELSE m - 1 + 1
    BY <2>1, FS_Interval
  <2>3. Cardinality(1 .. m) = m
    BY <2>1, <2>2
  <2> QED
    BY <2>2, <2>3 DEF m
<1>3. IsFiniteSet(D) /\ Cardinality(D) <= Cardinality(S) /\ Cardinality(D) \in Nat
  BY <1>1, <1>2, FS_Subset, FS_CardinalityType
<1>4. D = {} => Cardinality(D) = 0
  BY FS_EmptySet
<1> HIDE DEF S, D
<1>5. QED
  BY <1>1, <1>2, <1>3, <1>4 DEF D

\* Looking an account up does not change what the environment shows.
LEMMA PinnedView ==
    ASSUME NEW t \in Accounts, NEW env \in Env, NEW a \in Account
    PROVE  Pinned(t, env, a) \in Env /\ View(t, Pinned(t, env, a)) = View(t, env)
<1>1. CASE Entry(t, env, a) = NoAccount
  BY <1>1 DEF Pinned
<1>2. CASE Entry(t, env, a) # NoAccount
  <2> DEFINE acc == Entry(t, env, a)
             new == Put(env, a, acc)
             V == View(t, env)
             W == View(t, new)
  <2>1. V \in Accounts /\ V[a] = acc /\ acc \in AccountState
    BY <1>2, ViewType
  <2>2. Pinned(t, env, a) = new
    BY <1>2 DEF Pinned, Put
  <2> HIDE DEF acc, new
  <2>3. new \in Env /\ Written(V, W, a, acc)
    BY <2>1, ViewSet DEF new
  <2> HIDE DEF V, W
  <2>4. W = V
    BY <2>1, <2>3 DEF Written, Accounts
  <2> QED
    BY <2>2, <2>3, <2>4 DEF V, W
<1>3. QED
  BY <1>1, <1>2

\* One turn of ApplyPropose: the transaction is executed or dropped.
LEMMA ProposeTxTurn ==
    ASSUME NEW t \in Accounts, NEW c \in Context, Bounded(c), c.i <= Len(c.value.txs),
           NEW expired \in BOOLEAN, NEW d, d = ProposeTx(t, c, expired)
    PROVE  /\ d \in Context /\ Bounded(d) /\ d.value = c.value /\ d.i = c.i + 1
           /\ d.mode = c.mode /\ d.tried = c.tried /\ NextTx(c) \in Tx
           /\ Ran(t, c, d, NextTx(c), expired) \/ Skipped(t, c, d, NextTx(c))
<1> DEFINE x == NextTx(c)
           idx == c.i - Cardinality(c.dropped)
           out == Outcome(t, c.env, x, expired)
           expire == IF expired THEN c.expire \cup {idx} ELSE c.expire
           error == IF out.kind = "error" THEN c.error \cup {idx} ELSE c.error
<1>1. c.env \in Env /\ c.i \in Nat \ {0} /\ c.value \in Value /\ c.i <= Len(c.value.txs)
  BY ContextFields
<1>2. x \in Tx /\ tx[x].source \in Account /\ Len(c.value.txs) \in Nat
  BY <1>1, ValueFields, TxType, SMTT(30), Z3T(30) DEF NextTx
<1>3. idx \in 1 .. c.i
  BY DroppedCount
<1>4. CASE ValidForApply(t, c.env, x)
  <2>1. /\ out.env \in Env /\ Charges(View(t, c.env), View(t, out.env), x, out.fee)
        /\ (out.kind = "expire") <=> expired
        /\ out.kind = "error" => ~ApplyOps(t, Charged(t, c.env, x), x).ok
    BY <1>1, <1>2, <1>4, OutcomePays, Zenon
  <2>2. out.fee \in Nat
    BY <2>1, Zenon DEF Charges
  <2>3. d = Executed(c, out, idx)
    BY <1>4 DEF ProposeTx
  <2>4. Turned(c, Executed(c, out, idx), out.env, c.fee + out.fee, c.dropped,
               IF out.kind = "expire" THEN c.expire \cup {idx} ELSE c.expire, error)
    <3>1. idx \in Int
      BY <1>1, <1>3
    <3> HIDE DEF out, idx
    <3> QED
      BY <2>1, <2>2, <3>1, ExecutedTurns, Zenon
  <2>5. (IF out.kind = "expire" THEN c.expire \cup {idx} ELSE c.expire) = expire
    BY <2>1, Zenon
  <2>6. Turned(c, d, out.env, c.fee + out.fee, c.dropped, expire, error)
    BY <2>3, <2>4, <2>5, Zenon
  <2> HIDE DEF out, idx
  <2>7. Bounded(d)
    <3>1. /\ c.dropped \subseteq 1 .. c.i - 1 /\ c.expire \subseteq 1 .. c.i - 1
          /\ c.error \subseteq 1 .. c.i - 1
      BY DEF Bounded
    <3>2. expire \subseteq 1 .. c.i /\ error \subseteq 1 .. c.i /\ c.dropped \subseteq 1 .. c.i
      BY <1>1, <1>3, <3>1
    <3>3. d.i - 1 = c.i /\ d.i <= Len(d.value.txs) + 1
      BY <1>1, <1>2, <2>6 DEF Turned
    <3> HIDE DEF expire, error
    <3> QED
      BY <2>6, <3>2, <3>3 DEF Bounded, Turned
  <2>8. Ran(t, c, d, x, expired)
    <3>1. Charges(View(t, c.env), View(t, d.env), x, out.fee)
      BY <2>1, <2>6, Zenon DEF Turned
    <3> QED
      BY <1>4, <2>1, <2>6, <3>1, Zenon DEF Ran, Turned, out, idx
  <2> QED
    BY <1>2, <2>6, <2>7, <2>8 DEF Turned
<1>5. CASE ~ValidForApply(t, c.env, x)
  <2> DEFINE env == Pinned(t, c.env, tx[x].source)
             dropped == c.dropped \cup {c.i}
  <2>1. env \in Env /\ View(t, env) = View(t, c.env)
    BY <1>1, <1>2, PinnedView
  <2>2. d = Dropped(t, c)
    BY <1>5 DEF ProposeTx, Dropped
  <2>3. Turned(c, d, env, c.fee, dropped, c.expire, c.error)
    BY <2>1, <2>2, DroppedTurns, Zenon
  <2>4. Bounded(d)
    <3>1. /\ dropped \subseteq 1 .. c.i /\ c.expire \subseteq 1 .. c.i
          /\ c.error \subseteq 1 .. c.i
      BY <1>1 DEF Bounded
    <3>2. d.i - 1 = c.i /\ d.i <= Len(d.value.txs) + 1
      BY <1>1, <1>2, <2>3 DEF Turned
    <3> HIDE DEF dropped
    <3> QED
      BY <2>3, <3>1, <3>2 DEF Bounded, Turned
  <2>5. Skipped(t, c, d, x)
    BY <1>5, <2>1, <2>3, Zenon DEF Skipped, Turned
  <2> QED
    BY <1>2, <2>3, <2>4, <2>5, Zenon DEF Turned
<1>6. QED
  BY <1>4, <1>5

\* Nonces are numbers, 0 for an account that does not exist.
LEMMA FirstNonceNat ==
    ASSUME NEW t \in Accounts, NEW a \in Account
    PROVE  FirstNonce(t[a]) \in Nat
BY DEF FirstNonce, Accounts, AccountState

\* A transaction with the next nonce of its account continues the order.
LEMMA InOrderTurn ==
    ASSUME NEW t \in Accounts, NEW V \in Accounts, NEW W \in Accounts, NEW n \in Nat,
           NEW txs, \A j \in 1 .. n + 1 : txs[j] \in Tx, Grown(t, V), InOrder(t, V, txs, n),
           FirstNonce(V[tx[txs[n + 1]].source]) + 1 = tx[txs[n + 1]].nonce,
           NEW fee, Charges(V, W, txs[n + 1], fee)
    PROVE  InOrder(t, W, txs, n + 1)
<1> DEFINE Src(j) == tx[txs[j]].source
           Nonce(j) == tx[txs[j]].nonce
           Was(a) == FirstNonce(t[a])
           Is(a) == FirstNonce(V[a])
           New(a) == FirstNonce(W[a])
           last == n + 1
<1>1. \A j \in 1 .. last : Src(j) \in Account /\ Nonce(j) \in Nat
  BY TxType, Zenon
<1>2. \A a \in Account : Was(a) \in Nat /\ Is(a) \in Nat /\ Was(a) <= Is(a)
  BY FirstNonceNat DEF Grown
<1>3. \A a \in Account : New(a) = IF a = Src(last) THEN Is(a) + 1 ELSE Is(a)
  <2>1. \A a \in Account : New(a) = Is(a) + (IF a = Src(last) THEN 1 ELSE 0)
    BY Zenon DEF Charges
  <2> HIDE DEF New, Is, Src, last
  <2> QED
    BY <1>2, <2>1
<1>4. Nonce(last) = Is(Src(last)) + 1
  OBVIOUS
<1>5. /\ \A j \in 1 .. n : Was(Src(j)) < Nonce(j) /\ Nonce(j) <= Is(Src(j))
      /\ \A j, k \in 1 .. n : j < k /\ Src(j) = Src(k) => Nonce(j) < Nonce(k)
  BY Zenon DEF InOrder
<1>6. \A a \in Account : \A k \in Was(a) + 1 .. Is(a) : \E j \in 1 .. n : Src(j) = a /\ Nonce(j) = k
  BY Zenon DEF InOrder
<1>7. last = n + 1
  BY Zenon
<1> HIDE DEF Src, Nonce, Was, Is, New, last
<1>8. \A j \in 1 .. last : Was(Src(j)) < Nonce(j) /\ Nonce(j) <= New(Src(j))
  BY <1>1, <1>2, <1>3, <1>4, <1>5, <1>7
<1>9. \A j, k \in 1 .. last : j < k /\ Src(j) = Src(k) => Nonce(j) < Nonce(k)
  BY <1>1, <1>2, <1>4, <1>5, <1>7
<1>10. ASSUME NEW a \in Account, NEW k \in Was(a) + 1 .. New(a)
       PROVE  \E j \in 1 .. last : Src(j) = a /\ Nonce(j) = k
  <2>1. CASE k \in Was(a) + 1 .. Is(a)
    <3>1. PICK j \in 1 .. n : Src(j) = a /\ Nonce(j) = k
      BY <1>6, <2>1
    <3> QED
      BY <1>7, <3>1
  <2>2. CASE k \notin Was(a) + 1 .. Is(a)
    <3>1. a = Src(last) /\ k = Is(a) + 1
      BY <1>2, <1>3, <1>10, <2>2
    <3>2. last \in 1 .. last /\ Nonce(last) = k
      BY <1>4, <1>7, <3>1
    <3> QED
      BY <3>1, <3>2
  <2> QED
    BY <2>1, <2>2
<1>11. QED
  BY <1>8, <1>9, <1>10, Zenon DEF InOrder, Src, Nonce, Was, New, last

\* One turn of ApplyFollow is that of the execution that it follows.
LEMMA FollowTurn ==
    ASSUME NEW t \in Accounts, NEW c \in Context, NEW f, Alike(f, c), Bounded(c),
           c.i <= Len(c.value.txs), c.dropped = {}, NEW d \in Context,
           d.value = c.value, d.i = c.i + 1, NEW late \in BOOLEAN,
           SaidLate(c, late), Ran(t, c, d, NextTx(c), late)
    PROVE  Alike(FollowTx(t, f), d)
<1> DEFINE x == NextTx(c)
           out == Outcome(t, c.env, x, late)
           g == FollowTx(t, f)
           expire == IF late THEN c.expire \cup {c.i} ELSE c.expire
           error == IF out.kind = "error" THEN c.error \cup {c.i} ELSE c.error
<1>1. /\ f \in Context /\ f.value = c.value /\ f.i = c.i /\ f.env = c.env /\ f.fee = c.fee
      /\ f.expire = c.expire /\ f.error = c.error
  BY Zenon DEF Alike
<1>2. x \in Tx /\ tx[x].source \in Account /\ c.env \in Env /\ c.i \in Nat
  BY ContextFields, ValueFields, TxType, SMTT(30), Z3T(30) DEF NextTx
<1>3. ValidForApply(t, c.env, x)
  BY Zenon DEF Ran
<1>4. Entry(t, c.env, tx[x].source) # NoAccount
  BY <1>3, Zenon DEF ValidForApply
<1>5. NextTx(f) = x
  BY <1>1 DEF NextTx
<1>6. g = Executed(f, out, f.i)
  <2>1. Outcome(t, f.env, x, f.i \in f.value.expire) = out
    BY <1>1, Zenon DEF Outcome, SaidLate
  <2> HIDE DEF out
  <2> QED
    BY <1>1, <1>4, <1>5, <2>1, Zenon DEF FollowTx
<1>7. out.env \in Env /\ out.fee \in Nat /\ ((out.kind = "expire") <=> late)
  <2>1. /\ out.env \in Env /\ Charges(View(t, c.env), View(t, out.env), x, out.fee)
        /\ (out.kind = "expire") <=> late
    BY <1>2, <1>3, OutcomePays, Zenon
  <2> QED
    BY <2>1, Zenon DEF Charges
<1>8. c.i - Cardinality(c.dropped) = c.i
  BY DroppedCount, Zenon
<1>9. d.env = out.env /\ d.fee = c.fee + out.fee /\ d.expire = expire /\ d.error = error
  BY <1>8, Zenon DEF Ran
<1> HIDE DEF out
<1>10. Turned(f, Executed(f, out, f.i), out.env, f.fee + out.fee, f.dropped,
              IF out.kind = "expire" THEN f.expire \cup {f.i} ELSE f.expire,
              IF out.kind = "error" THEN f.error \cup {f.i} ELSE f.error)
  <2>1. f.i \in Int
    BY <1>1, <1>2
  <2> QED
    BY <1>1, <1>7, <2>1, ExecutedTurns, Zenon
<1>11. (IF out.kind = "expire" THEN f.expire \cup {f.i} ELSE f.expire) = expire
  BY <1>1, <1>7, Zenon
<1>12. (IF out.kind = "error" THEN f.error \cup {f.i} ELSE f.error) = error
  BY <1>1
<1>13. Turned(f, g, out.env, f.fee + out.fee, f.dropped, expire, error)
  BY <1>6, <1>10, <1>11, <1>12, Zenon
<1> HIDE DEF g, expire, error
<1>14. QED
  BY <1>1, <1>9, <1>13, Zenon DEF Turned, Alike, g

\* A turn of the pre-execution keeps all that is known of it.
LEMMA SoundTurn ==
    ASSUME NEW t \in Accounts, NEW c \in Context, Bounded(c), c.i <= Len(c.value.txs),
           Sound(t, c), NEW expired \in BOOLEAN, NEW d, d = ProposeTx(t, c, expired)
    PROVE  Sound(t, d)
<1> DEFINE x == NextTx(c)
           V == View(t, c.env)
           W == View(t, d.env)
<1>1. /\ d \in Context /\ Bounded(d) /\ d.value = c.value /\ d.i = c.i + 1
      /\ x \in Tx /\ (Ran(t, c, d, x, expired) \/ Skipped(t, c, d, x))
  BY ProposeTxTurn, Zenon
<1>2. /\ c.value \in Value /\ c.i \in Nat \ {0} /\ c.env \in Env /\ d.env \in Env
      /\ Len(c.value.txs) \in Nat /\ c.value.txs[c.i] = x /\ c.fee \in Nat
      /\ \A j \in 1 .. c.i : c.value.txs[j] \in Tx
  <2>1. c.value \in Value /\ c.i \in Nat \ {0} /\ c.env \in Env /\ d.env \in Env /\ c.fee \in Nat
    BY <1>1, ContextFields
  <2> QED
    BY <2>1, ValueFields DEF NextTx
<1>3. V \in Accounts /\ W \in Accounts
  BY <1>2, ViewType
<1>4. /\ Coins(V) + c.fee = Coins(t) /\ (Reserved(t) => Reserved(V))
      /\ Grown(t, V) /\ FirstTurn(t, c)
      /\ c.dropped = {} => InOrder(t, V, c.value.txs, c.i - 1) /\ Follows(t, c)
  BY Zenon DEF Sound
<1>5. d.i - 1 = c.i /\ (c.i - 1) + 1 = c.i /\ c.i - 1 \in Nat /\ c.i \in 1 .. Len(c.value.txs)
  BY <1>1, <1>2, SMTT(30), Z3T(30)
<1>6. c.i = 1 => c.env = NoEnv /\ c.dropped = {} /\ c.error = {}
  BY <1>4, SMTT(30), Z3T(30) DEF FirstTurn, Bounded
<1>7. CASE Ran(t, c, d, x, expired)
  <2> DEFINE out == Outcome(t, c.env, x, expired)
             idx == c.i - Cardinality(c.dropped)
  <2>1. /\ ValidForApply(t, c.env, x) /\ Charges(V, W, x, out.fee)
        /\ d.fee = c.fee + out.fee /\ d.dropped = c.dropped
        /\ d.expire = IF expired THEN c.expire \cup {idx} ELSE c.expire
        /\ d.error = IF out.kind = "error" THEN c.error \cup {idx} ELSE c.error
        /\ out.kind = "error" => ~ApplyOps(t, Charged(t, c.env, x), x).ok
    BY <1>7, Zenon DEF Ran
  <2> HIDE DEF out, idx
  <2>2. Coins(W) + d.fee = Coins(t) /\ (Reserved(t) => Reserved(W))
    <3> HIDE DEF V, W
    <3>1. /\ Coins(V) \in Int /\ Coins(W) = Coins(V) - out.fee /\ out.fee \in Nat
          /\ Reserved(V) => Reserved(W)
      BY <2>1, Zenon DEF Charges
    <3> QED
      BY <1>2, <1>4, <2>1, <3>1, SMTT(30), Z3T(30)
  <2>3. Grown(t, W)
    <3> HIDE DEF V, W
    <3>1. \A b \in Account : FirstNonce(t[b]) \in Nat /\ FirstNonce(V[b]) \in Nat
      BY <1>3, FirstNonceNat, Zenon
    <3>2. \A b \in Account :
             /\ V[b] # NoAccount => W[b] # NoAccount
             /\ FirstNonce(W[b]) = FirstNonce(V[b]) + (IF b = tx[x].source THEN 1 ELSE 0)
      BY <2>1, Zenon DEF Charges
    <3>3. \A b \in Account :
             /\ t[b] # NoAccount => V[b] # NoAccount
             /\ FirstNonce(t[b]) <= FirstNonce(V[b])
      BY <1>4, Zenon DEF Grown
    <3> QED
      BY <3>1, <3>2, <3>3, SMTT(30), Z3T(30) DEF Grown
  <2>4. ASSUME d.dropped = {} PROVE InOrder(t, W, d.value.txs, d.i - 1)
    <3>1. FirstNonce(V[tx[x].source]) + 1 = tx[x].nonce
      BY <1>1, <1>2, <2>1, ViewType, TxType, Zenon DEF ValidForApply, FirstNonce
    <3>2. InOrder(t, V, c.value.txs, c.i - 1)
      BY <1>4, <2>1, <2>4, Zenon
    <3> DEFINE n == c.i - 1
               txs == c.value.txs
    <3>3. n \in Nat /\ n + 1 = c.i /\ txs[c.i] = x /\ \A j \in 1 .. c.i : txs[j] \in Tx
      BY <1>2, <1>5, Zenon
    <3> HIDE DEF n, txs, V, W
    <3>4. /\ \A j \in 1 .. n + 1 : txs[j] \in Tx
          /\ Charges(V, W, txs[n + 1], out.fee)
          /\ FirstNonce(V[tx[txs[n + 1]].source]) + 1 = tx[txs[n + 1]].nonce
          /\ InOrder(t, V, txs, n)
      BY <2>1, <3>1, <3>2, <3>3, Zenon DEF n, txs
    <3>5. InOrder(t, W, txs, n + 1)
      BY <1>3, <1>4, <3>3, <3>4, InOrderTurn, Zenon
    <3> QED
      BY <1>1, <1>5, <3>3, <3>5, Zenon DEF txs
  <2>5. ASSUME d.dropped = {} PROVE Follows(t, d)
    <3> SUFFICES ASSUME d.expire = d.value.expire \cap (1 .. d.i - 1)
                 PROVE  Alike(FollowTurns(t, d.value)[d.i - 1], d)
      BY DEF Follows
    <3>1. idx = c.i /\ c.dropped = {}
      BY <2>1, <2>5, DroppedCount, Zenon DEF idx
    <3>2. c.expire \subseteq 1 .. c.i - 1 /\ d.expire = c.value.expire \cap (1 .. c.i)
      BY <1>1, <1>5, Zenon DEF Bounded
    <3>3. SaidLate(c, expired)
      <4>1. c.i \in d.expire <=> c.i \in c.value.expire
        BY <1>2, <3>2
      <4>2. c.i \notin c.expire
        BY <1>2, <3>2
      <4>3. c.i \in d.expire <=> expired
        BY <2>1, <3>1, <4>2, Zenon
      <4> QED
        BY <4>1, <4>3, Zenon DEF SaidLate
    <3>4. c.expire = c.value.expire \cap (1 .. c.i - 1)
      <4>1. \A e : e \in c.expire <=> e \in d.expire /\ e # c.i
        <5>1. c.i \notin c.expire
          BY <1>2, <3>2
        <5> QED
          BY <2>1, <3>1, <5>1, Zenon
      <4>2. \A e : e \in 1 .. c.i - 1 <=> e \in 1 .. c.i /\ e # c.i
        BY <1>2
      <4> QED
        BY <3>2, <4>1, <4>2, Zenon
    <3>5. Follows(t, c)
      BY <1>4, <3>1, Zenon
    <3> DEFINE f == FollowTurns(t, c.value)[c.i - 1]
    <3>6. Alike(f, c)
      BY <3>4, <3>5, Zenon DEF Follows
    <3>7. FollowTurns(t, c.value)[c.i] = FollowTx(t, f)
      BY <1>2, <1>5, FollowTurnsAre, SMTT(30), Z3T(30)
    <3> HIDE DEF f
    <3>8. Alike(FollowTx(t, f), d)
      BY <1>1, <1>7, <3>1, <3>3, <3>6, FollowTurn, Zenon
    <3> QED
      BY <1>1, <1>5, <3>7, <3>8, Zenon
  <2>6. FirstTurn(t, d)
    <3>1. d.i # 1
      BY <1>1, <1>2, SMTT(30), Z3T(30)
    <3>2. CASE c.i = 1
      <4>1. d.value.txs[1] = x /\ d.dropped = {} /\ c.env = NoEnv
        BY <1>1, <1>2, <1>6, <2>1, <3>2, Zenon
      <4>2. d.error # {} => out.kind = "error"
        BY <1>6, <2>1, <3>2, Zenon
      <4>3. d.expire = {} => ~expired
        BY <2>1, Zenon
      <4>4. d.error = {} => out.kind # "error"
        BY <2>1, Zenon
      <4>5. ~expired /\ out.kind # "error" => ApplyOps(t, Charged(t, c.env, x), x).ok
        BY Zenon DEF out, Outcome
      <4> QED
        BY <2>1, <3>1, <4>1, <4>2, <4>3, <4>4, <4>5, Zenon DEF FirstTurn
    <3>3. CASE c.i # 1
      <4>1. d.i # 2
        BY <1>1, <1>2, <3>3
      <4> QED
        BY <3>1, <4>1, Zenon DEF FirstTurn
    <3> QED
      BY <3>2, <3>3
  <2> QED
    BY <2>2, <2>3, <2>4, <2>5, <2>6, Zenon DEF Sound
<1>8. CASE Skipped(t, c, d, x)
  <2>1. /\ ~ValidForApply(t, c.env, x) /\ W = V /\ d.fee = c.fee
        /\ d.dropped = c.dropped \cup {c.i} /\ d.error = c.error
    BY <1>8, Zenon DEF Skipped
  <2>2. d.dropped # {}
    BY <2>1
  <2>3. FirstTurn(t, d)
    <3>1. d.i # 1
      BY <1>1, <1>2, SMTT(30), Z3T(30)
    <3>2. CASE c.i = 1
      <4>1. d.value.txs[1] = x /\ c.env = NoEnv /\ d.error = {}
        BY <1>1, <1>2, <1>6, <2>1, <3>2, Zenon
      <4> QED
        BY <2>1, <2>2, <3>1, <4>1, Zenon DEF FirstTurn
    <3>3. CASE c.i # 1
      <4>1. d.i # 2
        BY <1>1, <1>2, <3>3, SMTT(30), Z3T(30)
      <4> QED
        BY <3>1, <4>1, Zenon DEF FirstTurn
    <3> QED
      BY <3>2, <3>3
  <2> QED
    BY <1>4, <2>1, <2>2, <2>3, Zenon DEF Sound
<1>9. QED
  BY <1>1, <1>7, <1>8

-----------------------------------------------------------------------------
(* Whole executions.                                                       *)

\* Every execution starts from such a context.
LEMMA BeginFresh ==
    ASSUME NEW m \in {"propose", "check", "recheck", "follow"}, NEW v \in Value
    PROVE  Fresh(Begin(m, v)) /\ Begin(m, v).value = v /\ Begin(m, v).mode = m
<1>1. NoEnv \in Env
  BY DEF NoEnv, Env
<1> HIDE DEF NoEnv
<1>2. Begin(m, v) \in Context
  BY <1>1 DEF Begin, Context
<1>3. QED
  BY <1>2, Zenon DEF Begin, Fresh

\* The balances have a sum.
LEMMA CoinsInt ==
    ASSUME NEW t \in Accounts
    PROVE  Coins(t) \in Int
<1>1. Rewarded[1] \in Account
  BY ExecutionConstants
<1>2. QED
  BY <1>1, CoinsMove

\* Nothing has happened yet in such a context.
LEMMA FreshSound ==
    ASSUME NEW t \in Accounts, NEW c, Fresh(c)
    PROVE  Bounded(c) /\ Sound(t, c)
<1>1. /\ c \in Context /\ c.i = 1 /\ c.env = NoEnv /\ c.fee = 0 /\ c.dropped = {}
      /\ c.expire = {} /\ c.error = {} /\ c.value \in Value /\ Len(c.value.txs) \in Nat
  BY ContextFields, ValueFields DEF Fresh
<1>2. View(t, c.env) = t
  BY <1>1, NoEnvView
<1>3. Coins(t) + c.fee = Coins(t)
  BY <1>1, CoinsInt
<1>4. \A a \in Account : FirstNonce(t[a]) \in Nat
  BY FirstNonceNat
<1>5. Grown(t, t)
  BY <1>4 DEF Grown
<1>6. InOrder(t, t, c.value.txs, c.i - 1)
  BY <1>1, <1>4 DEF InOrder
<1>7. Follows(t, c)
  <2>1. FollowTurns(t, c.value)[0] = Begin("follow", c.value)
    BY <1>1, FollowTurnsAre, SMTT(30), Z3T(30)
  <2>2. Fresh(Begin("follow", c.value)) /\ Begin("follow", c.value).value = c.value
    BY <1>1, BeginFresh
  <2>3. Alike(Begin("follow", c.value), c)
    BY <1>1, <2>2 DEF Fresh, Alike
  <2>4. c.i - 1 = 0
    BY <1>1
  <2> QED
    BY <2>1, <2>3, <2>4 DEF Follows
<1>8. FirstTurn(t, c)
  BY <1>1, SMTT(30), Z3T(30) DEF FirstTurn
<1>9. Bounded(c)
  BY <1>1 DEF Bounded
<1>10. QED
  BY <1>2, <1>3, <1>5, <1>6, <1>7, <1>8, <1>9, Zenon DEF Sound

\* ApplyPropose and ApplyCheck without interruption.
LEMMA ProposeTurnsSound ==
    ASSUME NEW t \in Accounts, NEW c, Fresh(c), NEW late
    PROVE  \A j \in 0 .. Len(c.value.txs) : RunOf(t, c, ProposeTurns(t, c, late)[j], j)
<1> DEFINE n == Len(c.value.txs)
           after == ProposeTurns(t, c, late)
           Good == {j \in Nat : j <= n => RunOf(t, c, after[j], j)}
<1>1. n \in Nat
  BY ContextFields, ValueFields DEF Fresh
<1>2. /\ after[0] = c
      /\ \A j \in 1 .. n : after[j] = ProposeTx(t, after[j - 1], j \in late)
  BY <1>1, ProposeTurnsAre
<1>3. n = Len(c.value.txs)
  OBVIOUS
<1> HIDE DEF n, after
<1>4. 0 \in Good
  <2>1. RunOf(t, c, c, 0)
    BY FreshSound DEF Fresh, RunOf
  <2> QED
    BY <1>2, <2>1
<1>5. ASSUME NEW j \in Nat, j \in Good PROVE j + 1 \in Good
  <2> SUFFICES ASSUME j + 1 <= n PROVE RunOf(t, c, after[j + 1], j + 1)
    OBVIOUS
  <2> DEFINE p == after[j]
             d == after[j + 1]
  <2>1. RunOf(t, c, p, j)
    BY <1>1, <1>5
  <2>2. j + 1 \in 1 .. n /\ (j + 1) - 1 = j
    BY <1>1
  <2>3. d = ProposeTx(t, p, (j + 1) \in late)
    BY <1>2, <2>2
  <2> HIDE DEF p, d
  <2>4. /\ p \in Context /\ Bounded(p) /\ Sound(t, p) /\ p.i <= Len(p.value.txs)
    BY <1>3, <2>1 DEF RunOf
  <2>5. /\ d \in Context /\ Bounded(d) /\ d.value = p.value /\ d.i = p.i + 1 /\ d.mode = p.mode
        /\ Sound(t, d)
    <3>1. CASE (j + 1) \in late
      <4>1. \A env, x : Outcome(t, env, x, (j + 1) \in late) = Outcome(t, env, x, TRUE)
        BY <3>1, Zenon DEF Outcome
      <4>2. d = ProposeTx(t, p, TRUE)
        BY <2>3, <4>1, Zenon DEF ProposeTx
      <4>3. TRUE \in BOOLEAN
        OBVIOUS
      <4>4. d \in Context /\ Bounded(d) /\ d.value = p.value /\ d.i = p.i + 1 /\ d.mode = p.mode
        BY <2>4, <4>2, <4>3, ProposeTxTurn, Zenon
      <4>5. Sound(t, d)
        BY <2>4, <4>2, <4>3, SoundTurn, Zenon
      <4> QED
        BY <4>4, <4>5
    <3>2. CASE (j + 1) \notin late
      <4>1. \A env, x : Outcome(t, env, x, (j + 1) \in late) = Outcome(t, env, x, FALSE)
        BY <3>2, Zenon DEF Outcome
      <4>2. d = ProposeTx(t, p, FALSE)
        BY <2>3, <4>1, Zenon DEF ProposeTx
      <4>3. FALSE \in BOOLEAN
        OBVIOUS
      <4>4. d \in Context /\ Bounded(d) /\ d.value = p.value /\ d.i = p.i + 1 /\ d.mode = p.mode
        BY <2>4, <4>2, <4>3, ProposeTxTurn, Zenon
      <4>5. Sound(t, d)
        BY <2>4, <4>2, <4>3, SoundTurn, Zenon
      <4> QED
        BY <4>4, <4>5
    <3> QED
      BY <3>1, <3>2
  <2> QED
    BY <2>1, <2>5 DEF RunOf, d
<1>6. \A j \in Nat : j \in Good
  <2> HIDE DEF Good
  <2> QED
    BY <1>4, <1>5, SetInduction
<1>7. QED
  BY <1>1, <1>6 DEF n, after

\* ApplyFollow has the result of a finished execution that it follows.
LEMMA FollowResult ==
    ASSUME NEW t \in Accounts, NEW k \in Context, Bounded(k), Finished(k), Sound(t, k),
           Clean(k)
    PROVE  ApplyFollow(t, k.value) = Result(t, k)
<1> DEFINE n == Len(k.value.txs)
           f == FollowTurns(t, k.value)[n]
<1>1. k.i = n + 1 /\ n \in Nat /\ k.i - 1 = n
  BY ContextFields, ValueFields DEF Finished
<1>2. k.expire = k.value.expire /\ k.expire \subseteq 1 .. k.i - 1 /\ k.dropped = {}
  BY DEF Clean, CheckAccepts, Bounded
<1>3. k.expire = k.value.expire \cap (1 .. k.i - 1)
  BY <1>2
<1>4. Follows(t, k)
  BY <1>2 DEF Sound
<1>5. Alike(f, k)
  BY <1>1, <1>3, <1>4 DEF Follows
<1> HIDE DEF f
<1>6. Result(t, f) = Result(t, k)
  BY <1>5 DEF Alike, Result, AllocateReward
<1>7. QED
  BY <1>6 DEF ApplyFollow, f

\* A value that a validator accepts is one that ApplyFollow executes in the
\* same way.
LEMMA CheckedFollows ==
    ASSUME NEW t \in Accounts, NEW v \in Value, NEW late, CheckedBy(t, v, late)
    PROVE  \E k : Proves(t, v, k)
<1> DEFINE c == Begin("check", v)
           k == ProposeTurns(t, c, late)[Len(v.txs)]
<1>1. Fresh(c) /\ c.value = v
  BY BeginFresh
<1>2. Clean(k)
  BY DEF CheckedBy, Clean
<1> HIDE DEF c
<1>3. Len(v.txs) \in Nat
  BY ValueFields
<1>4. \A j \in 0 .. Len(c.value.txs) : RunOf(t, c, ProposeTurns(t, c, late)[j], j)
  BY <1>1, ProposeTurnsSound
<1>5. RunOf(t, c, k, Len(v.txs))
  BY <1>1, <1>3, <1>4
<1> HIDE DEF k
<1>6. /\ k \in Context /\ Bounded(k) /\ Sound(t, k) /\ k.value = v /\ Finished(k)
  BY <1>1, <1>5 DEF RunOf, Finished
<1>7. ApplyFollow(t, v) = Result(t, k)
  BY <1>2, <1>6, FollowResult
<1>8. QED
  BY <1>2, <1>6, <1>7, Zenon DEF Proves

\* AllocateReward after an execution: the fees come back, the block reward is
\* added, and the nonces stay.
LEMMA ResultPays ==
    ASSUME NEW t \in Accounts, NEW k \in Context, Sound(t, k)
    PROVE  /\ Result(t, k) \in Kept
           /\ Advances(t, View(t, Result(t, k).env))
           /\ k.dropped = {} /\ Finished(k)
                => InOrder(t, View(t, Result(t, k).env), k.value.txs, Len(k.value.txs))
<1> DEFINE total == k.fee + block_reward
           new == AllocateReward(t, k)
           V == View(t, k.env)
           W == View(t, new)
           n == Len(Rewarded)
<1>1. /\ k.env \in Env /\ k.fee \in Nat /\ k.value \in Value /\ k.value.seq \in Nat
      /\ k.error \in SUBSET Int /\ k.i \in Nat
  BY ContextFields, ValueFields
<1>2. block_reward \in Nat /\ total \in Nat /\ n \in Nat \ {0} /\ block_reward <= total
  BY <1>1, ExecutionConstants
<1>3. new = RewardTurns(t, k.env, total, k.value.seq)[n]
  BY DEF AllocateReward
<1>4. block_reward \div n \in Int /\ total \div n \in Int /\ block_reward \div n <= total \div n
  <2>1. block_reward \div n \in Nat /\ total \div n \in Nat
    BY <1>2, DivMod, Zenon
  <2>2. total \div n >= block_reward \div n
    BY <1>1, <1>2, DivGrows, Zenon
  <2> DEFINE p == total \div n
             q == block_reward \div n
  <2> HIDE DEF p, q
  <2>3. p \in Nat /\ q \in Nat /\ p >= q
    BY <2>1, <2>2 DEF p, q
  <2>4. p \in Int /\ q \in Int /\ q <= p
    BY <2>3
  <2> QED
    BY <2>4 DEF p, q
<1> HIDE DEF total, new
<1>5. /\ new \in Env /\ Rewards(V, W, total)
      /\ (Reserved(V) /\ RewardsSuffice(V, total \div n)) => Reserved(W)
  BY <1>1, <1>2, <1>3, RewardTurnsPay, Zenon
<1>6. Result(t, k) \in Kept /\ Result(t, k).env = new
  BY <1>1, <1>5, Zenon DEF Result, Kept, new
<1>7. /\ Coins(V) + k.fee = Coins(t) /\ (Reserved(t) => Reserved(V)) /\ Grown(t, V)
      /\ k.dropped = {} => InOrder(t, V, k.value.txs, k.i - 1)
  BY Zenon DEF Sound
<1>8. V \in Accounts /\ Coins(t) \in Int /\ \A j \in 1 .. n : Rewarded[j] \in Account
  BY <1>1, ViewType, CoinsInt, ExecutionConstants
<1> HIDE DEF n
<1>9. W \in Accounts /\ Coins(W) = Coins(t) + block_reward
  BY <1>1, <1>2, <1>5, <1>7, <1>8, SMTT(30), Z3T(30) DEF Rewards, total
<1>10. Grown(t, W)
  BY <1>5, <1>7, Zenon DEF Rewards, Grown
<1>11. RewardsSuffice(t, block_reward \div n) => RewardsSuffice(V, total \div n)
  <2>1. base_reserve \in Nat
    BY ExecutionConstants
  <2> DEFINE q == block_reward \div n
             p == total \div n
  <2>2. q \in Int /\ p \in Int /\ q <= p
    BY <1>4
  <2> HIDE DEF p, q
  <2>3. RewardsSuffice(t, q) => RewardsSuffice(V, p)
    BY <1>7, <1>8, <2>1, <2>2, SMTT(30), Z3T(30) DEF RewardsSuffice, Grown, n
  <2> QED
    BY <2>3 DEF p, q
<1>12. Advances(t, W)
  BY <1>5, <1>7, <1>9, <1>10, <1>11, Zenon DEF Advances, n
<1>13. ASSUME k.dropped = {}, Finished(k) PROVE InOrder(t, W, k.value.txs, Len(k.value.txs))
  <2> DEFINE m == Len(k.value.txs)
             txs == k.value.txs
  <2>1. k.i - 1 = m /\ m \in Nat /\ \A j \in 1 .. m : txs[j] \in Tx
    BY <1>1, <1>13, ValueFields, SMTT(30), Z3T(30) DEF Finished
  <2>2. InOrder(t, V, txs, m)
    BY <1>7, <1>13, <2>1, Zenon
  <2>3. \A a \in Account : FirstNonce(W[a]) = FirstNonce(V[a])
    BY <1>5 DEF Rewards
  <2>4. \A j \in 1 .. m : tx[txs[j]].source \in Account
    BY <2>1, TxType
  <2> HIDE DEF m, txs, V, W
  <2>5. InOrder(t, W, txs, m)
    BY <2>2, <2>3, <2>4, SMTT(30), Z3T(30) DEF InOrder
  <2> QED
    BY <2>5 DEF m, txs
<1>14. QED
  BY <1>6, <1>12, <1>13, Zenon

-----------------------------------------------------------------------------
(* The values.                                                             *)

\* What is not dropped is a list, shorter if anything was dropped.
LEMMA TakenShort ==
    ASSUME NEW txs \in Seq(Tx), NEW dropped \in SUBSET (1 .. Len(txs))
    PROVE  LET taken == Taken(txs, dropped)[Len(txs)]
           IN  /\ taken \in Seq(Tx) /\ Len(taken) <= Len(txs)
               /\ Len(taken) = Len(txs) => dropped = {}
<1> DEFINE n == Len(txs)
           after == Taken(txs, dropped)
           Fine(j) == /\ after[j] \in Seq(Tx) /\ Len(after[j]) <= j
                      /\ Len(after[j]) = j => \A d \in dropped : d > j
           Good == {j \in Nat : j <= n => Fine(j)}
<1>1. n \in Nat /\ \A j \in 1 .. n : txs[j] \in Tx
  OBVIOUS
<1>2. /\ after[0] = <<>>
      /\ \A j \in 1 .. n : after[j] = IF j \in dropped THEN after[j - 1] ELSE Append(after[j - 1], txs[j])
  BY <1>1, TakenAre
<1>3. dropped \subseteq 1 .. n
  OBVIOUS
<1> HIDE DEF n, after
<1>4. 0 \in Good
  <2>1. after[0] \in Seq(Tx) /\ Len(after[0]) = 0
    BY <1>2
  <2>2. \A d \in dropped : d > 0
    BY <1>1, <1>3
  <2> QED
    BY <2>1, <2>2
<1>5. ASSUME NEW j \in Nat, j \in Good PROVE j + 1 \in Good
  <2> SUFFICES ASSUME j + 1 <= n PROVE Fine(j + 1)
    OBVIOUS
  <2>1. Fine(j)
    BY <1>1, <1>5
  <2>2. j + 1 \in 1 .. n /\ (j + 1) - 1 = j
    BY <1>1
  <2>3. after[j + 1] = IF (j + 1) \in dropped THEN after[j] ELSE Append(after[j], txs[j + 1])
    BY <1>2, <2>2
  <2>4. CASE (j + 1) \in dropped
    BY <2>1, <2>3, <2>4
  <2>5. CASE (j + 1) \notin dropped
    <3> DEFINE s == after[j]
               e == txs[j + 1]
    <3>1. s \in Seq(Tx) /\ e \in Tx /\ after[j + 1] = Append(s, e)
      BY <1>1, <2>1, <2>2, <2>3, <2>5
    <3> HIDE DEF s, e
    <3>2. after[j + 1] \in Seq(Tx) /\ Len(after[j + 1]) = Len(s) + 1 /\ Len(s) \in Nat
      BY <3>1
    <3>3. Len(s) <= j /\ (Len(s) = j => \A d \in dropped : d > j)
      BY <2>1 DEF s
    <3>4. (\A d \in dropped : d > j) => \A d \in dropped : d > j + 1
      BY <1>3, <2>5
    <3> QED
      BY <3>2, <3>3, <3>4
  <2> QED
    BY <2>4, <2>5
<1>6. \A j \in Nat : j \in Good
  <2> HIDE DEF Good
  <2> QED
    BY <1>4, <1>5, SetInduction
<1>7. Fine(n)
  BY <1>1, <1>6
<1>8. (\A d \in dropped : d > n) => dropped = {}
  BY <1>1, <1>3
<1>9. QED
  BY <1>7, <1>8 DEF n, after

\* StartConsensus requests what the execution made of its list.
LEMMA ProposalOfType ==
    ASSUME NEW c \in Context, Bounded(c)
    PROVE  /\ Proposes(c, ProposalOf(c)) /\ Proposes(c, PartialProposalOf(c))
           /\ Filled(c, ProposalOf(c))
           /\ Finished(c) /\ ProposalOf(c) = c.value => Clean(c)
<1> DEFINE v == c.value
           taken == Taken(v.txs, c.dropped)[Len(v.txs)]
           p1 == [v EXCEPT !.txs = taken]
           p2 == [p1 EXCEPT !.expire = c.expire]
           p == [p2 EXCEPT !.error = c.error]
           q1 == [p EXCEPT !.expire = {}]
           q == [q1 EXCEPT !.error = {}]
<1>1. /\ v \in Value /\ v.txs \in Seq(Tx) /\ Len(v.txs) \in Nat /\ c.i \in Nat \ {0}
      /\ c.expire \in SUBSET Int /\ c.error \in SUBSET Int
  BY ContextFields, ValueFields
<1>2. c.dropped \in SUBSET (1 .. Len(v.txs))
  BY <1>1 DEF Bounded
<1> HIDE DEF v
<1>3. taken \in Seq(Tx) /\ Len(taken) <= Len(v.txs) /\ (Len(taken) = Len(v.txs) => c.dropped = {})
  BY <1>1, <1>2, TakenShort
<1> HIDE DEF taken
<1>4. p1 \in Value /\ p1.seq = v.seq /\ p1.time = v.time /\ p1.txs = taken
  BY <1>1, <1>3 DEF Value
<1> HIDE DEF p1
<1>5. /\ p2 \in Value /\ p2.seq = v.seq /\ p2.time = v.time /\ p2.txs = taken
      /\ p2.expire = c.expire
  BY <1>1, <1>4 DEF Value
<1> HIDE DEF p2
<1>6. /\ p \in Value /\ p.seq = v.seq /\ p.time = v.time /\ p.txs = taken
      /\ p.expire = c.expire /\ p.error = c.error
  BY <1>1, <1>5 DEF Value
<1>7. ProposalOf(c) = p
  BY Zenon DEF ProposalOf, p2, p1, taken, v
<1> HIDE DEF p
<1>8. q1 \in Value /\ q1.seq = v.seq /\ q1.time = v.time /\ q1.txs = taken
  BY <1>6 DEF Value
<1> HIDE DEF q1
<1>9. q \in Value /\ q.seq = v.seq /\ q.time = v.time /\ q.txs = taken
  BY <1>8 DEF Value
<1>10. PartialProposalOf(c) = q
  BY <1>6, <1>7 DEF Value, PartialProposalOf, q1
<1> HIDE DEF q
<1>11. Proposes(c, p) /\ Proposes(c, q)
  BY <1>3, <1>6, <1>9 DEF Proposes, v
<1>12. ASSUME Finished(c), p = v PROVE Clean(c)
  BY <1>3, <1>6, <1>12 DEF Clean, CheckAccepts, v
<1>13. Filled(c, p)
  BY <1>6, Zenon DEF Filled, taken, v
<1>14. QED
  BY <1>7, <1>10, <1>11, <1>12, <1>13 DEF v

-----------------------------------------------------------------------------
(* Executing a proposal again.                                             *)

\* They answer alike.
LEMMA SameEntry ==
    ASSUME NEW t \in Accounts, NEW e, NEW f, SameView(t, e, f), NEW a \in Account
    PROVE  Entry(t, e, a) = Entry(t, f, a)
<1>1. View(t, e)[a] = Entry(t, e, a) /\ View(t, f)[a] = Entry(t, f, a)
  BY ViewType DEF SameView
<1>2. QED
  BY <1>1 DEF SameView

\* They stay alike when the same record is written.
LEMMA SamePut ==
    ASSUME NEW t \in Accounts, NEW e, NEW f, SameView(t, e, f),
           NEW a \in Account, NEW s \in AccountState
    PROVE  SameView(t, Put(e, a, s), Put(f, a, s))
<1> DEFINE V == View(t, e)
           X == View(t, Put(e, a, s))
           Y == View(t, Put(f, a, s))
<1>1. e \in Env /\ f \in Env /\ View(t, f) = V
  BY DEF SameView
<1>2. /\ Put(e, a, s) \in Env /\ Put(f, a, s) \in Env
      /\ Written(V, X, a, s) /\ Written(V, Y, a, s)
  BY <1>1, ViewSet
<1> HIDE DEF V, X, Y
<1>3. X = Y
  BY <1>2 DEF Written, Accounts
<1>4. QED
  BY <1>2, <1>3 DEF SameView, X, Y

\* PayCoin depends on the accounts that the environment shows.
LEMMA PayCoinSame ==
    ASSUME NEW t \in Accounts, NEW src \in Account, NEW run, NEW run2,
           SameRun(t, run, run2, src), NEW op \in Payment
    PROVE  SameRun(t, PayCoin(t, run, src, op), PayCoin(t, run2, src, op), src)
<1> DEFINE from == Entry(t, run.env, src)
           poorer == [from EXCEPT !.balance = @ - op.amount]
           left == Put(run.env, src, poorer)
           left2 == Put(run2.env, src, poorer)
           to == Entry(t, left, op.dest)
           opened == Opened(to)
           richer == [opened EXCEPT !.balance = @ + op.amount]
           new == Put(left, op.dest, richer)
           new2 == Put(left2, op.dest, richer)
           n == op.amount
           fits == from.balance >= n + base_reserve /\ (to # NoAccount \/ n >= base_reserve)
           r == PayCoin(t, run, src, op)
           r2 == PayCoin(t, run2, src, op)
<1>1. /\ n \in Nat /\ op.dest \in Account /\ run.env \in Env /\ run2.env \in Env
      /\ run \in OpRun /\ run2 \in OpRun /\ SameView(t, run.env, run2.env)
      /\ run.env[src] # Unset /\ run2.env[src] # Unset /\ (run.ok <=> run2.ok)
  BY DEF SameRun, SameView, Payment
<1>2. from \in AccountState /\ Entry(t, run2.env, src) = from
  BY <1>1, ViewType, SameEntry, SMTT(30), Z3T(30)
<1>3. poorer \in AccountState
  <2> HIDE DEF from
  <2> QED
    BY <1>1, <1>2, Poorer
<1>4. SameView(t, left, left2)
  <2> HIDE DEF poorer
  <2> QED
    BY <1>1, <1>3, SamePut, Zenon
<1>5. Entry(t, left2, op.dest) = to /\ to \in AccountState \cup {NoAccount}
  <2> HIDE DEF left, left2
  <2> QED
    BY <1>1, <1>4, SameEntry, ViewType, SMTT(30), Z3T(30) DEF SameView
<1>6. richer \in AccountState
  <2>1. opened \in AccountState
    <3> HIDE DEF to
    <3> QED
      BY <1>5, OpenedType
  <2> HIDE DEF opened
  <2> QED
    BY <1>1, <2>1, Richer
<1>7. SameView(t, new, new2)
  <2> HIDE DEF richer, left, left2
  <2> QED
    BY <1>1, <1>4, <1>6, SamePut, Zenon
<1>8. r = IF run.ok /\ fits THEN [ok |-> TRUE, env |-> new] ELSE [ok |-> FALSE, env |-> run.env]
  BY Zenon DEF PayCoin, Put
<1>9. r2 = IF run2.ok /\ fits THEN [ok |-> TRUE, env |-> new2] ELSE [ok |-> FALSE, env |-> run2.env]
  BY <1>2, <1>5, Zenon DEF PayCoin, Put
<1>10. /\ r \in OpRun /\ r2 \in OpRun /\ r.env[src] # Unset /\ r2.env[src] # Unset
  BY <1>1, PayCoinPays, Zenon
<1> HIDE DEF from, poorer, left, left2, to, opened, richer, new, new2, n, fits, r, r2
<1>11. CASE run.ok /\ fits
  <2>1. r = [ok |-> TRUE, env |-> new] /\ r2 = [ok |-> TRUE, env |-> new2]
    BY <1>1, <1>8, <1>9, <1>11, Zenon
  <2>2. r.env = new /\ r2.env = new2 /\ (r.ok <=> r2.ok)
    BY <2>1
  <2> QED
    BY <1>7, <1>10, <2>2, Zenon DEF SameRun, r, r2
<1>12. CASE ~(run.ok /\ fits)
  <2>1. r = [ok |-> FALSE, env |-> run.env] /\ r2 = [ok |-> FALSE, env |-> run2.env]
    BY <1>1, <1>8, <1>9, <1>12, Zenon
  <2>2. r.env = run.env /\ r2.env = run2.env /\ (r.ok <=> r2.ok)
    BY <2>1
  <2> QED
    BY <1>1, <1>10, <2>2, Zenon DEF SameRun, r, r2
<1>13. QED
  BY <1>11, <1>12

\* So does Apply.
LEMMA ApplyOpsSame ==
    ASSUME NEW t \in Accounts, NEW x \in Tx, NEW e, NEW f, SameView(t, e, f),
           e[tx[x].source] # Unset, f[tx[x].source] # Unset
    PROVE  SameRun(t, ApplyOps(t, e, x), ApplyOps(t, f, x), tx[x].source)
<1> DEFINE src == tx[x].source
           n == Len(tx[x].ops)
           g == OpTurns(t, e, x)
           h == OpTurns(t, f, x)
           enough == tx[x].fee <= tx[x].fee_limit
           Good == {k \in Nat : k <= n => SameRun(t, g[k], h[k], src)}
<1>1. /\ src \in Account /\ n \in Nat
      /\ \A k \in 1 .. n : tx[x].ops[k] \in Payment
  BY TxType
<1>2. /\ g[0] = [ok |-> enough, env |-> e]
      /\ \A k \in 1 .. n : g[k] = PayCoin(t, g[k - 1], src, tx[x].ops[k])
  BY OpTurnsAre, SMTT(30), Z3T(30)
<1>3. /\ h[0] = [ok |-> enough, env |-> f]
      /\ \A k \in 1 .. n : h[k] = PayCoin(t, h[k - 1], src, tx[x].ops[k])
  BY OpTurnsAre, SMTT(30), Z3T(30)
<1>4. ApplyOps(t, e, x) = g[n] /\ ApplyOps(t, f, x) = h[n]
  BY Zenon DEF ApplyOps
<1>5. enough \in BOOLEAN /\ e[src] # Unset /\ f[src] # Unset
  OBVIOUS
<1> HIDE DEF src, n, g, h, enough
<1>6. 0 \in Good
  <2>1. g[0] \in OpRun /\ g[0].env = e /\ g[0].ok = enough
    BY <1>2, <1>5 DEF OpRun, SameView
  <2>2. h[0] \in OpRun /\ h[0].env = f /\ h[0].ok = enough
    BY <1>3, <1>5 DEF OpRun, SameView
  <2>3. SameRun(t, g[0], h[0], src)
    BY <1>5, <2>1, <2>2, Zenon DEF SameRun
  <2> QED
    BY <2>3
<1>7. ASSUME NEW k \in Nat, k \in Good PROVE k + 1 \in Good
  <2> SUFFICES ASSUME k + 1 <= n PROVE SameRun(t, g[k + 1], h[k + 1], src)
    OBVIOUS
  <2> DEFINE op == tx[x].ops[k + 1]
  <2>1. k + 1 \in 1 .. n /\ (k + 1) - 1 = k /\ SameRun(t, g[k], h[k], src)
    BY <1>1, <1>7, SMTT(30), Z3T(30)
  <2>2. /\ g[k + 1] = PayCoin(t, g[k], src, op) /\ h[k + 1] = PayCoin(t, h[k], src, op)
        /\ op \in Payment
    BY <1>1, <1>2, <1>3, <2>1, Zenon
  <2> HIDE DEF op
  <2>3. SameRun(t, PayCoin(t, g[k], src, op), PayCoin(t, h[k], src, op), src)
    BY <1>1, <2>1, <2>2, PayCoinSame, Zenon
  <2> QED
    BY <2>2, <2>3, Zenon
<1>8. n \in Good
  <2> HIDE DEF Good
  <2> QED
    BY <1>1, <1>6, <1>7, SetInduction
<1>9. QED
  BY <1>1, <1>4, <1>8 DEF src

\* And so do the validity of a transaction and what becomes of it.
LEMMA OutcomeSame ==
    ASSUME NEW t \in Accounts, NEW x \in Tx, NEW e, NEW f, SameView(t, e, f),
           ValidForApply(t, e, x), NEW expired \in BOOLEAN
    PROVE  SameOutcome(t, e, f, x, expired)
<1> DEFINE src == tx[x].source
           acc == Entry(t, e, src)
           s == [balance |-> acc.balance - tx[x].fee_limit, nonce |-> acc.nonce + 1]
           paid == Charged(t, e, x)
           paid2 == Charged(t, f, x)
           run == ApplyOps(t, paid, x)
           run2 == ApplyOps(t, paid2, x)
           out == Outcome(t, e, x, expired)
           out2 == Outcome(t, f, x, expired)
<1>1. src \in Account /\ tx[x].fee_limit \in Nat /\ tx[x].fee \in Nat /\ e \in Env /\ f \in Env
  BY TxType, Zenon DEF SameView
<1>2. Entry(t, f, src) = acc
  BY <1>1, SameEntry, Zenon
<1>3. ValidForApply(t, f, x)
  BY <1>2, Zenon DEF ValidForApply
<1>4. /\ paid \in Env /\ paid[src] # Unset /\ paid2 \in Env /\ paid2[src] # Unset
  BY <1>1, <1>3, ChargedPays, Zenon
<1>5. SameView(t, paid, paid2)
  <2>1. paid = Put(e, src, s) /\ paid2 = Put(f, src, s)
    BY <1>2, Zenon DEF Charged, Put
  <2>2. acc \in AccountState
    BY <1>1, ViewType, Zenon DEF ValidForApply
  <2>3. s \in AccountState
    <3> HIDE DEF acc
    <3> QED
      BY <1>1, <2>2 DEF AccountState
  <2> HIDE DEF s, paid, paid2
  <2> QED
    BY <1>1, <2>1, <2>3, SamePut, Zenon
<1> HIDE DEF paid, paid2
<1>6. SameRun(t, run, run2, src)
  BY <1>4, <1>5, ApplyOpsSame, Zenon
<1>7. /\ run \in OpRun /\ run2 \in OpRun /\ SameView(t, run.env, run2.env) /\ (run.ok <=> run2.ok)
      /\ run.env[src] # Unset /\ run2.env[src] # Unset /\ run.env \in Env /\ run2.env \in Env
  BY <1>6, Zenon DEF SameRun, SameView
<1> HIDE DEF run, run2
<1>8. CASE expired
  <2>1. out.env = paid /\ out2.env = paid2 /\ out.kind = "expire" /\ out2.kind = "expire"
    BY <1>8 DEF Outcome, paid, paid2
  <2> QED
    BY <1>3, <1>5, <2>1, Zenon DEF SameOutcome
<1>9. CASE ~expired /\ ~run.ok
  <2>1. out.env = paid /\ out.kind = "error"
    BY <1>9 DEF Outcome, paid, run
  <2>2. out2.env = paid2 /\ out2.kind = "error"
    BY <1>7, <1>9 DEF Outcome, paid2, run2
  <2> QED
    BY <1>3, <1>5, <2>1, <2>2, Zenon DEF SameOutcome
<1>10. CASE ~expired /\ run.ok
  <2> DEFINE left == run.env[src]
             back == [left EXCEPT !.balance = @ + tx[x].fee_limit - tx[x].fee]
             new == Put(run.env, src, back)
             new2 == Put(run2.env, src, back)
  <2>1. run2.env[src] = left /\ left \in AccountState
    <3>1. Entry(t, run.env, src) = Entry(t, run2.env, src)
      BY <1>1, <1>7, SameEntry, Zenon
    <3> QED
      BY <1>1, <1>7, <3>1, Zenon DEF Entry, Env
  <2>2. out = [kind |-> "ok", fee |-> tx[x].fee,
               env |-> [run.env EXCEPT ![src].balance = @ + tx[x].fee_limit - tx[x].fee]]
    BY <1>10 DEF Outcome, run, paid
  <2>3. out2 = [kind |-> "ok", fee |-> tx[x].fee,
                env |-> [run2.env EXCEPT ![src].balance = @ + tx[x].fee_limit - tx[x].fee]]
    BY <1>7, <1>10 DEF Outcome, run2, paid2
  <2>4. out.env = new /\ out.kind = "ok"
    BY <2>2 DEF Put
  <2>5. out2.env = new2 /\ out2.kind = "ok"
    BY <2>1, <2>3 DEF Put
  <2> HIDE DEF left
  <2>6. back \in AccountState
    BY <1>1, <2>1 DEF AccountState
  <2> HIDE DEF back
  <2>7. SameView(t, new, new2)
    BY <1>1, <1>7, <2>6, SamePut, Zenon
  <2> QED
    BY <1>3, <2>4, <2>5, <2>7, Zenon DEF SameOutcome
<1>11. QED
  BY <1>8, <1>9, <1>10

\* What is left of the list so far depends on what was dropped so far.
LEMMA TakenSame ==
    ASSUME NEW txs \in Seq(Tx), NEW D, NEW E, NEW n \in 0 .. Len(txs),
           SameSoFar(D, E, n)
    PROVE  Taken(txs, D)[n] = Taken(txs, E)[n]
<1> DEFINE f == Taken(txs, D)
           g == Taken(txs, E)
           last == Len(txs)
           Good == {j \in Nat : j <= n => f[j] = g[j]}
<1>1. last \in Nat /\ n \in Nat /\ n <= last
  OBVIOUS
<1>2. /\ f[0] = <<>>
      /\ \A j \in 1 .. last : f[j] = IF j \in D THEN f[j - 1] ELSE Append(f[j - 1], txs[j])
  BY <1>1, TakenAre
<1>3. /\ g[0] = <<>>
      /\ \A j \in 1 .. last : g[j] = IF j \in E THEN g[j - 1] ELSE Append(g[j - 1], txs[j])
  BY <1>1, TakenAre
<1> HIDE DEF f, g, last
<1>4. 0 \in Good
  BY <1>2, <1>3
<1>5. ASSUME NEW j \in Nat, j \in Good PROVE j + 1 \in Good
  <2> SUFFICES ASSUME j + 1 <= n PROVE f[j + 1] = g[j + 1]
    OBVIOUS
  <2>1. j + 1 \in 1 .. n /\ j + 1 \in 1 .. last /\ (j + 1) - 1 = j /\ f[j] = g[j]
    BY <1>1, <1>5
  <2>2. /\ f[j + 1] = IF (j + 1) \in D THEN f[j] ELSE Append(f[j], txs[j + 1])
        /\ g[j + 1] = IF (j + 1) \in E THEN g[j] ELSE Append(g[j], txs[j + 1])
    BY <1>2, <1>3, <2>1
  <2>3. (j + 1) \in D <=> (j + 1) \in E
    BY <2>1 DEF SameSoFar
  <2>4. CASE (j + 1) \in D
    <3>1. f[j + 1] = f[j] /\ g[j + 1] = g[j]
      BY <2>2, <2>3, <2>4
    <3> QED
      BY <2>1, <3>1
  <2>5. CASE (j + 1) \notin D
    <3>1. f[j + 1] = Append(f[j], txs[j + 1]) /\ g[j + 1] = Append(g[j], txs[j + 1])
      BY <2>2, <2>3, <2>5
    <3> QED
      BY <2>1, <3>1
  <2> QED
    BY <2>4, <2>5
<1>6. n \in Good
  <2> HIDE DEF Good
  <2> QED
    BY <1>1, <1>4, <1>5, SetInduction
<1>7. QED
  BY <1>1, <1>6 DEF f, g

\* A list of which nothing is dropped is left whole.
LEMMA TakenAll ==
    ASSUME NEW txs \in Seq(Tx), NEW D, (1 .. Len(txs)) \cap D = {}, NEW n \in 0 .. Len(txs)
    PROVE  LET s == Taken(txs, D)[n]
           IN  s \in Seq(Tx) /\ Len(s) = n /\ \A i \in 1 .. n : s[i] = txs[i]
<1> DEFINE f == Taken(txs, D)
           last == Len(txs)
           Fine(j) == f[j] \in Seq(Tx) /\ Len(f[j]) = j /\ \A i \in 1 .. j : f[j][i] = txs[i]
           Good == {j \in Nat : j <= last => Fine(j)}
<1>1. last \in Nat /\ n \in Nat /\ n <= last /\ \A j \in 1 .. last : txs[j] \in Tx
  OBVIOUS
<1>2. /\ f[0] = <<>>
      /\ \A j \in 1 .. last : f[j] = IF j \in D THEN f[j - 1] ELSE Append(f[j - 1], txs[j])
  BY <1>1, TakenAre
<1> HIDE DEF f, last
<1>3. 0 \in Good
  <2>1. f[0] \in Seq(Tx) /\ Len(f[0]) = 0 /\ \A i \in 1 .. 0 : f[0][i] = txs[i]
    BY <1>2
  <2> QED
    BY <2>1
<1>4. ASSUME NEW j \in Nat, j \in Good PROVE j + 1 \in Good
  <2> SUFFICES ASSUME j + 1 <= last PROVE Fine(j + 1)
    OBVIOUS
  <2> DEFINE s == f[j]
             e == txs[j + 1]
  <2>1. j + 1 \in 1 .. last /\ (j + 1) - 1 = j /\ Fine(j) /\ e \in Tx
    BY <1>1, <1>4
  <2>2. f[j + 1] = Append(s, e)
    <3>1. j + 1 \notin D
      BY <2>1 DEF last
    <3>2. f[j + 1] = IF (j + 1) \in D THEN f[(j + 1) - 1] ELSE Append(f[(j + 1) - 1], e)
      BY <1>2, <2>1, Zenon
    <3> QED
      BY <2>1, <3>1, <3>2, Zenon
  <2>3. s \in Seq(Tx) /\ Len(s) = j /\ \A i \in 1 .. j : s[i] = txs[i]
    BY <2>1
  <2> HIDE DEF s
  <2>4. /\ Append(s, e) \in Seq(Tx) /\ Len(Append(s, e)) = j + 1
        /\ \A i \in 1 .. j : Append(s, e)[i] = s[i]
        /\ Append(s, e)[j + 1] = e
    BY <2>1, <2>3
  <2>5. \A i \in 1 .. j + 1 : Append(s, e)[i] = txs[i]
    BY <2>3, <2>4
  <2> QED
    BY <2>2, <2>4, <2>5
<1>5. n \in Good
  <2> HIDE DEF Good
  <2> QED
    BY <1>1, <1>3, <1>4, SetInduction
<1>6. QED
  BY <1>1, <1>5 DEF f

\* A turn adds the transaction to them, unless it is dropped.
LEMMA RestTurn ==
    ASSUME NEW c \in Context, Bounded(c), c.i <= Len(c.value.txs),
           NEW d, d.value = c.value, d.i = c.i + 1
    PROVE  /\ d.dropped = c.dropped => Rest(d) = Append(Rest(c), NextTx(c))
           /\ d.dropped = c.dropped \cup {c.i} => Rest(d) = Rest(c)
<1> DEFINE txs == c.value.txs
           D == c.dropped
           E == D \cup {c.i}
           i == c.i
<1>1. /\ txs \in Seq(Tx) /\ Len(txs) \in Nat /\ i \in Nat \ {0} /\ i <= Len(txs)
      /\ D \subseteq 1 .. i - 1
  BY ContextFields, ValueFields DEF Bounded
<1>2. d.i - 1 = i /\ d.value.txs = txs /\ i \in 1 .. Len(txs) /\ i - 1 \in 0 .. Len(txs)
  BY <1>1
<1>3. i \notin D /\ i \in E /\ \A j \in 1 .. i - 1 : j \in D <=> j \in E
  BY <1>1
<1> HIDE DEF txs, D, E, i
<1> DEFINE f == Taken(txs, D)
           g == Taken(txs, E)
<1>4. f[i] = Append(f[i - 1], txs[i])
  <2>1. \A j \in 1 .. Len(txs) : f[j] = IF j \in D THEN f[j - 1] ELSE Append(f[j - 1], txs[j])
    BY <1>1, TakenAre, SMTT(30), Z3T(30)
  <2> HIDE DEF f
  <2>2. f[i] = IF i \in D THEN f[i - 1] ELSE Append(f[i - 1], txs[i])
    BY <1>2, <2>1, Zenon
  <2> QED
    BY <1>3, <2>2, Zenon
<1>5. g[i] = g[i - 1]
  <2>1. \A j \in 1 .. Len(txs) : g[j] = IF j \in E THEN g[j - 1] ELSE Append(g[j - 1], txs[j])
    BY <1>1, TakenAre
  <2> HIDE DEF g
  <2> QED
    BY <1>2, <1>3, <2>1
<1>6. f[i - 1] = g[i - 1]
  <2> DEFINE n == i - 1
  <2>1. n \in 0 .. Len(txs) /\ SameSoFar(D, E, n)
    BY <1>2, <1>3 DEF SameSoFar
  <2> HIDE DEF n
  <2>2. Taken(txs, D)[n] = Taken(txs, E)[n]
    BY <1>1, <2>1, TakenSame, ZenonT(30)
  <2> QED
    BY <2>2 DEF n
<1>7. Rest(c) = Taken(txs, D)[i - 1]
  BY DEF Rest, txs, D, i
<1>8. ASSUME d.dropped = D PROVE Rest(d) = Append(Rest(c), NextTx(c))
  BY <1>2, <1>4, <1>7, <1>8, Zenon DEF Rest, NextTx, txs, i
<1>9. ASSUME d.dropped = E PROVE Rest(d) = Rest(c)
  BY <1>2, <1>5, <1>6, <1>7, <1>9, Zenon DEF Rest
<1>10. QED
  BY <1>8, <1>9 DEF D, E, i

\* Nothing has been executed yet.
LEMMA FreshRepeats ==
    ASSUME NEW t \in Accounts, NEW c, Fresh(c)
    PROVE  Repeats(t, c)
<1>1. /\ c.value \in Value /\ c.i = 1 /\ c.dropped = {} /\ c.expire = {} /\ c.error = {}
      /\ c.env = NoEnv /\ c.value.txs \in Seq(Tx) /\ Len(c.value.txs) \in Nat /\ c.env \in Env
  BY ContextFields, ValueFields DEF Fresh
<1>2. Rest(c) = <<>>
  <2>1. c.i - 1 = 0
    BY <1>1
  <2> QED
    BY <1>1, <2>1, TakenAre DEF Rest
<1>3. Rest(c) \in Seq(Tx) /\ Len(Rest(c)) = 0 /\ c.i - 1 - Cardinality(c.dropped) = 0
  BY <1>1, <1>2, FS_EmptySet
<1>4. ASSUME NEW v, NEW late, Extends(v, Rest(c))
      PROVE  Redone(t, c, ProposeTurns(t, Begin("check", v), late)[0])
  <2> DEFINE b == Begin("check", v)
  <2>1. v \in Value
    BY <1>4 DEF Extends
  <2>2. Fresh(b) /\ b.value = v
    BY <2>1, BeginFresh
  <2>3. Len(b.value.txs) \in Nat
    BY <2>1, <2>2, ValueFields
  <2> HIDE DEF b
  <2>4. ProposeTurns(t, b, late)[0] = b
    BY <2>3, ProposeTurnsAre
  <2>5. Redone(t, c, b)
    BY <1>1, <2>2, Zenon DEF Redone, SameView, Fresh
  <2> QED
    BY <2>4, <2>5 DEF b
<1>5. QED
  BY <1>1, <1>3, <1>4, Zenon DEF Repeats

\* The relation of two executions of x, from c to d and from p to q, when both
\* stand at the same index.
LEMMA RedoneTurn ==
    ASSUME NEW t \in Accounts, NEW c, NEW d, NEW p, NEW q, NEW x \in Tx,
           NEW expired \in BOOLEAN,
           Ran(t, c, d, x, expired), Ran(t, p, q, x, expired), Redone(t, c, p),
           SameIndex(c, p)
    PROVE  Redone(t, d, q)
<1> DEFINE out == Outcome(t, c.env, x, expired)
           out2 == Outcome(t, p.env, x, expired)
           idx == c.i - Cardinality(c.dropped)
<1>1. SameView(t, c.env, p.env) /\ p.dropped = {} /\ p.expire = c.expire /\ p.error = c.error
  BY DEF Redone
<1>2. ValidForApply(t, c.env, x)
  BY Zenon DEF Ran
<1>3. SameView(t, out.env, out2.env) /\ out.kind = out2.kind
  <2>1. SameOutcome(t, c.env, p.env, x, expired)
    BY <1>1, <1>2, OutcomeSame, Zenon
  <2> QED
    BY <2>1, Zenon DEF SameOutcome
<1>4. /\ d.env = out.env
      /\ d.expire = IF expired THEN c.expire \cup {idx} ELSE c.expire
      /\ d.error = IF out.kind = "error" THEN c.error \cup {idx} ELSE c.error
  BY Zenon DEF Ran
<1>5. /\ q.env = out2.env /\ q.dropped = p.dropped
      /\ q.expire = IF expired THEN p.expire \cup {idx} ELSE p.expire
      /\ q.error = IF out2.kind = "error" THEN p.error \cup {idx} ELSE p.error
  BY Zenon DEF Ran, SameIndex
<1> HIDE DEF out, out2, idx
<1>6. q.expire = d.expire /\ q.error = d.error /\ q.dropped = {}
  BY <1>1, <1>3, <1>4, <1>5, Zenon
<1>7. SameView(t, d.env, q.env)
  BY <1>3, <1>4, <1>5, Zenon
<1>8. QED
  BY <1>6, <1>7, Zenon DEF Redone

\* The transaction is executed again as it was the first time.
LEMMA RepeatsTurn ==
    ASSUME NEW t \in Accounts, NEW c \in Context, Bounded(c), c.i <= Len(c.value.txs),
           Repeats(t, c), NEW expired \in BOOLEAN, expired => NextTx(c) \in Slow,
           NEW d, d = ProposeTx(t, c, expired)
    PROVE  Repeats(t, d)
<1> DEFINE x == NextTx(c)
           s == Rest(c)
           n == Len(s)
           idx == c.i - Cardinality(c.dropped)
<1>1. /\ d \in Context /\ Bounded(d) /\ d.value = c.value /\ d.i = c.i + 1 /\ x \in Tx
      /\ Ran(t, c, d, x, expired) \/ Skipped(t, c, d, x)
  BY ProposeTxTurn, Zenon
<1>2. /\ s \in Seq(Tx) /\ n = c.i - 1 - Cardinality(c.dropped)
      /\ \A j \in c.expire : j \in 1 .. n /\ s[j] \in Slow
      /\ \A v, late : Extends(v, s) /\ late \cap (1 .. n) = c.expire
                       => Redone(t, c, ProposeTurns(t, Begin("check", v), late)[n])
  BY Zenon DEF Repeats
<1>3. /\ d.dropped = c.dropped => Rest(d) = Append(s, x)
      /\ d.dropped = c.dropped \cup {c.i} => Rest(d) = s
  BY <1>1, RestTurn, Zenon
<1>4. /\ c.i \in Nat \ {0} /\ idx \in 1 .. c.i /\ c.dropped \subseteq 1 .. c.i - 1
      /\ IsFiniteSet(c.dropped) /\ Cardinality(c.dropped) \in Nat /\ n \in Nat /\ idx = n + 1
  <2>1. c.i \in Nat \ {0} /\ idx \in 1 .. c.i /\ c.dropped \subseteq 1 .. c.i - 1 /\ c.i - 1 \in Nat
    BY ContextFields, DroppedCount, SMTT(30), Z3T(30) DEF Bounded
  <2>2. IsFiniteSet(1 .. c.i - 1)
    <3> DEFINE k == c.i - 1
    <3>1. 1 \in Int /\ k \in Int
      BY <2>1
    <3> HIDE DEF k
    <3>2. IsFiniteSet(1 .. k)
      BY <3>1, FS_Interval
    <3> QED
      BY <3>2 DEF k
  <2>3. IsFiniteSet(c.dropped) /\ Cardinality(c.dropped) \in Nat
    BY <2>1, <2>2, FS_Subset, FS_CardinalityType
  <2> DEFINE m == Cardinality(c.dropped)
  <2> HIDE DEF m
  <2>4. s \in Seq(Tx) /\ n = c.i - 1 - m /\ idx = c.i - m
    BY <1>2, Zenon DEF m
  <2>5. m \in Nat
    BY <2>3 DEF m
  <2> HIDE DEF s, idx
  <2>6. idx = n + 1 /\ n \in Nat
    BY <2>1, <2>4, <2>5
  <2> QED
    BY <2>1, <2>3, <2>6, Zenon
<1> HIDE DEF x, s, idx
<1>5. CASE Skipped(t, c, d, x)
  <2>1. /\ View(t, d.env) = View(t, c.env) /\ d.dropped = c.dropped \cup {c.i}
        /\ d.expire = c.expire /\ d.error = c.error /\ d.env \in Env /\ c.env \in Env
    BY <1>1, <1>5, ContextFields, Zenon DEF Skipped
  <2>2. Cardinality(d.dropped) = Cardinality(c.dropped) + 1
    <3> DEFINE D == c.dropped
               k == c.i
    <3>1. k \notin D /\ IsFiniteSet(D) /\ d.dropped = D \cup {k}
      BY <1>4, <2>1, SMTT(30), Z3T(30)
    <3> HIDE DEF D, k
    <3>2. Cardinality(D \cup {k}) = IF k \in D THEN Cardinality(D) ELSE Cardinality(D) + 1
      BY <3>1, FS_AddElement, Zenon
    <3> QED
      BY <3>1, <3>2, Zenon DEF D
  <2>3. Rest(d) = s /\ n = d.i - 1 - Cardinality(d.dropped)
    <3> DEFINE m == Cardinality(c.dropped)
    <3>1. m \in Nat /\ n = c.i - 1 - m /\ c.i \in Nat /\ Cardinality(d.dropped) = m + 1 /\ d.i = c.i + 1
      BY <1>1, <1>2, <1>4, <2>2, Zenon
    <3> HIDE DEF m
    <3> QED
      BY <1>3, <2>1, <3>1, SMTT(30), Z3T(30)
  <2>4. \A e : Redone(t, c, e) => Redone(t, d, e)
    BY <2>1, Zenon DEF Redone, SameView
  <2>5. \A v, late : Extends(v, s) /\ late \cap (1 .. n) = d.expire
                      => Redone(t, d, ProposeTurns(t, Begin("check", v), late)[n])
    BY <1>2, <2>1, <2>4, Zenon
  <2>6. \A j \in d.expire : j \in 1 .. n /\ s[j] \in Slow
    BY <1>2, <2>1, Zenon
  <2> QED
    BY <1>2, <2>3, <2>5, <2>6, Zenon DEF Repeats
<1>6. CASE Ran(t, c, d, x, expired)
  <2> DEFINE r == Append(s, x)
  <2>1. d.dropped = c.dropped /\ d.expire = (IF expired THEN c.expire \cup {idx} ELSE c.expire)
    BY <1>6, Zenon DEF Ran, idx
  <2>2. /\ r \in Seq(Tx) /\ Len(r) = idx /\ r[idx] = x
        /\ \A j \in 1 .. n : r[j] = s[j]
    <3>1. s \in Seq(Tx) /\ x \in Tx /\ n \in Nat /\ idx = n + 1
      BY <1>1, <1>2, <1>4, Zenon
    <3> QED
      BY <3>1
  <2>3. Rest(d) = r
    BY <1>3, <2>1
  <2> HIDE DEF r
  <2>4. idx = d.i - 1 - Cardinality(d.dropped)
    <3> DEFINE m == Cardinality(c.dropped)
    <3>1. m \in Nat /\ idx = c.i - m /\ c.i \in Nat /\ Cardinality(d.dropped) = m /\ d.i = c.i + 1
      BY <1>1, <1>4, <2>1, Zenon DEF idx
    <3> HIDE DEF m
    <3> QED
      BY <3>1
  <2>5. \A j \in d.expire : j \in 1 .. idx /\ r[j] \in Slow
    <3>1. \A j \in c.expire : j \in 1 .. idx /\ r[j] \in Slow
      BY <1>2, <1>4, <2>2, SMTT(30), Z3T(30)
    <3>2. expired => r[idx] \in Slow /\ idx \in 1 .. idx
      BY <1>4, <2>2, SMTT(30), Z3T(30) DEF x
    <3> QED
      BY <2>1, <3>1, <3>2
  <2>6. ASSUME NEW v, NEW late, Extends(v, r), late \cap (1 .. idx) = d.expire
        PROVE  Redone(t, d, ProposeTurns(t, Begin("check", v), late)[idx])
    <3> DEFINE b == Begin("check", v)
               turns == ProposeTurns(t, b, late)
               p == turns[n]
               q == turns[idx]
    <3>1. v \in Value /\ idx <= Len(v.txs) /\ Len(v.txs) \in Nat
          /\ \A j \in 1 .. idx : v.txs[j] = r[j]
      BY <2>2, <2>6, ValueFields, Zenon DEF Extends
    <3>2. Extends(v, s)
      BY <1>4, <2>2, <3>1, SMTT(30), Z3T(30) DEF Extends
    <3>3. late \cap (1 .. n) = c.expire /\ (idx \in late <=> expired)
      <4>1. c.expire \subseteq 1 .. n /\ idx \notin 1 .. n /\ 1 .. n \subseteq 1 .. idx /\ idx \in 1 .. idx
        BY <1>2, <1>4, SMTT(30), Z3T(30)
      <4>2. idx \in d.expire <=> expired
        BY <2>1, <4>1, Zenon
      <4>3. d.expire \cap (1 .. n) = c.expire
        BY <2>1, <4>1
      <4> QED
        BY <2>6, <4>1, <4>2, <4>3, Zenon
    <3>4. Redone(t, c, p)
      BY <1>2, <3>2, <3>3, Zenon
    <3>5. Fresh(b) /\ b.value = v
      BY <3>1, BeginFresh, Zenon
    <3> HIDE DEF b
    <3>6. \A j \in 0 .. Len(b.value.txs) : RunOf(t, b, turns[j], j)
      BY <3>5, ProposeTurnsSound
    <3>7. RunOf(t, b, p, n)
      BY <1>4, <3>1, <3>5, <3>6, SMTT(30), Z3T(30)
    <3>8. q = ProposeTx(t, p, idx \in late)
      <4>1. /\ turns[0] = b
            /\ \A j \in 1 .. Len(b.value.txs) : turns[j] = ProposeTx(t, turns[j - 1], j \in late)
        <5>1. Len(b.value.txs) \in Nat
          BY <3>1, <3>5
        <5> QED
          BY <5>1, ProposeTurnsAre, SMTT(30), Z3T(30)
      <4>2. idx \in 1 .. Len(b.value.txs) /\ idx - 1 = n
        BY <1>4, <3>1, <3>5, SMTT(30), Z3T(30)
      <4> HIDE DEF turns
      <4>3. turns[idx] = ProposeTx(t, turns[idx - 1], idx \in late)
        BY <4>1, <4>2, Zenon
      <4> QED
        BY <4>2, <4>3, Zenon
    <3> HIDE DEF p, q
    <3>9. /\ p \in Context /\ Bounded(p) /\ p.i = idx /\ p.value = v /\ p.i <= Len(p.value.txs)
          /\ p.dropped = {}
      BY <1>4, <3>1, <3>4, <3>5, <3>7, Zenon DEF RunOf, Redone
    <3>10. NextTx(p) = x
      BY <1>4, <2>2, <3>1, <3>9, SMTT(30), Z3T(30) DEF NextTx
    <3>11. SameIndex(c, p)
      <4>1. p.i - Cardinality(p.dropped) = p.i
        BY <3>9, DroppedCount, Zenon
      <4> QED
        BY <3>9, <4>1, Zenon DEF SameIndex, idx
    <3>12. Ran(t, p, q, x, expired)
      <4>1. q = ProposeTx(t, p, expired)
        <5>1. CASE expired
          <6>1. \A env, y : Outcome(t, env, y, idx \in late) = Outcome(t, env, y, expired)
            BY <3>3, <5>1, Zenon DEF Outcome
          <6> QED
            BY <3>8, <6>1, Zenon DEF ProposeTx
        <5>2. CASE ~expired
          <6>1. \A env, y : Outcome(t, env, y, idx \in late) = Outcome(t, env, y, expired)
            BY <3>3, <5>2, ZenonT(30) DEF Outcome
          <6> QED
            BY <3>8, <6>1, Zenon DEF ProposeTx
        <5> QED
          BY <5>1, <5>2
      <4>2. Ran(t, p, q, NextTx(p), expired) \/ Skipped(t, p, q, NextTx(p))
        BY <3>9, <4>1, ProposeTxTurn, Zenon
      <4>3. ValidForApply(t, p.env, x)
        <5>1. ValidForApply(t, c.env, x) /\ SameView(t, c.env, p.env)
          BY <1>6, <3>4, Zenon DEF Ran, Redone
        <5>2. SameOutcome(t, c.env, p.env, x, expired)
          BY <1>1, <5>1, OutcomeSame, Zenon
        <5> QED
          BY <5>2, Zenon DEF SameOutcome
      <4> QED
        BY <3>10, <4>2, <4>3, Zenon DEF Skipped
    <3>13. Redone(t, d, q)
      BY <1>1, <1>6, <3>4, <3>11, <3>12, RedoneTurn, Zenon
    <3> QED
      BY <3>13 DEF q, b
  <2> QED
    BY <2>2, <2>3, <2>4, <2>5, <2>6, Zenon DEF Repeats
<1>7. QED
  BY <1>1, <1>5, <1>6

\* An execution without interruption can be repeated at every turn.
LEMMA ProposeTurnsRepeat ==
    ASSUME NEW t \in Accounts, NEW c, Fresh(c), NEW late \in LateSets(c.value.txs)
    PROVE  \A j \in 0 .. Len(c.value.txs) : Repeats(t, ProposeTurns(t, c, late)[j])
<1> DEFINE n == Len(c.value.txs)
           after == ProposeTurns(t, c, late)
           Good == {j \in Nat : j <= n => Repeats(t, after[j])}
<1>1. n \in Nat /\ c.value.txs \in Seq(Tx)
  BY ContextFields, ValueFields DEF Fresh
<1>2. /\ after[0] = c
      /\ \A j \in 1 .. n : after[j] = ProposeTx(t, after[j - 1], j \in late)
  BY <1>1, ProposeTurnsAre
<1>3. \A j \in 0 .. n : RunOf(t, c, after[j], j)
  BY ProposeTurnsSound
<1>4. \A j \in late : c.value.txs[j] \in Slow
  BY DEF LateSets
<1>5. n = Len(c.value.txs)
  OBVIOUS
<1> HIDE DEF n, after
<1>6. 0 \in Good
  BY <1>2, FreshRepeats
<1>7. ASSUME NEW j \in Nat, j \in Good PROVE j + 1 \in Good
  <2> SUFFICES ASSUME j + 1 <= n PROVE Repeats(t, after[j + 1])
    OBVIOUS
  <2> DEFINE p == after[j]
             d == after[j + 1]
  <2>1. Repeats(t, p)
    BY <1>1, <1>7
  <2>2. j + 1 \in 1 .. n /\ (j + 1) - 1 = j /\ j \in 0 .. n
    BY <1>1
  <2>3. d = ProposeTx(t, p, (j + 1) \in late) /\ RunOf(t, c, p, j)
    BY <1>2, <1>3, <2>2
  <2> HIDE DEF p, d
  <2>4. /\ p \in Context /\ Bounded(p) /\ p.i <= Len(p.value.txs) /\ p.i = j + 1
        /\ p.value = c.value
    BY <1>5, <2>3, Zenon DEF RunOf
  <2>5. CASE (j + 1) \in late
    <3>1. \A env, x : Outcome(t, env, x, (j + 1) \in late) = Outcome(t, env, x, TRUE)
      BY <2>5, Zenon DEF Outcome
    <3>2. d = ProposeTx(t, p, TRUE)
      BY <2>3, <3>1, Zenon DEF ProposeTx
    <3>3. TRUE \in BOOLEAN /\ NextTx(p) \in Slow
      BY <1>4, <2>4, <2>5, Zenon DEF NextTx
    <3> QED
      BY <2>1, <2>4, <3>2, <3>3, RepeatsTurn, Zenon DEF d
  <2>6. CASE (j + 1) \notin late
    <3>1. \A env, x : Outcome(t, env, x, (j + 1) \in late) = Outcome(t, env, x, FALSE)
      BY <2>6, Zenon DEF Outcome
    <3>2. d = ProposeTx(t, p, FALSE)
      BY <2>3, <3>1, Zenon DEF ProposeTx
    <3>3. FALSE \in BOOLEAN
      OBVIOUS
    <3> QED
      BY <2>1, <2>4, <3>2, <3>3, RepeatsTurn, Zenon DEF d
  <2> QED
    BY <2>5, <2>6
<1>8. \A j \in Nat : j \in Good
  <2> HIDE DEF Good
  <2> QED
    BY <1>6, <1>7, SetInduction
<1>9. QED
  BY <1>1, <1>8 DEF n, after

\* A value that says what c found, of what c executed, is accepted.
LEMMA RepeatsAccepted ==
    ASSUME NEW t \in Accounts, NEW c \in Context, Repeats(t, c), NEW v,
           Extends(v, Rest(c)), Len(v.txs) = Len(Rest(c)),
           v.expire = c.expire, v.error = c.error
    PROVE  Accepted(t, v)
<1> DEFINE s == Rest(c)
           late == c.expire
           d == ProposeTurns(t, Begin("check", v), late)[Len(v.txs)]
<1>1. /\ \A j \in late : j \in 1 .. Len(s) /\ s[j] \in Slow
      /\ Extends(v, s) /\ late \cap (1 .. Len(s)) = late
         => Redone(t, c, ProposeTurns(t, Begin("check", v), late)[Len(s)])
  BY Zenon DEF Repeats
<1>2. v \in Value /\ Len(v.txs) = Len(s) /\ \A j \in 1 .. Len(s) : v.txs[j] = s[j]
  BY DEF Extends
<1>3. v.txs \in Seq(Tx)
  BY <1>2, ValueFields
<1> HIDE DEF s, late
<1>4. late \cap (1 .. Len(s)) = late
  BY <1>1, Zenon
<1>5. Redone(t, c, d)
  BY <1>1, <1>2, <1>4, Zenon DEF s
<1>6. late \in LateSets(v.txs)
  BY <1>1, <1>2, <1>3, SMTT(30), Z3T(30) DEF LateSets
<1>7. CheckedBy(t, v, late)
  <2> DEFINE b == Begin("check", v)
  <2>1. Fresh(b) /\ b.value = v /\ Len(v.txs) \in Nat
    BY <1>2, BeginFresh, ValueFields, Zenon
  <2> HIDE DEF b
  <2>2. \A j \in 0 .. Len(b.value.txs) : RunOf(t, b, ProposeTurns(t, b, late)[j], j)
    BY <2>1, ProposeTurnsSound, Zenon
  <2>3. RunOf(t, b, ProposeTurns(t, b, late)[Len(v.txs)], Len(v.txs))
    BY <2>1, <2>2, SMTT(30), Z3T(30)
  <2>4. d.value = v
    BY <2>1, <2>3, Zenon DEF RunOf, b
  <2> HIDE DEF d
  <2>5. d.dropped = {} /\ CheckAccepts(d)
    BY <1>5, <2>4 DEF Redone, CheckAccepts
  <2> QED
    BY <2>5, Zenon DEF CheckedBy, d
<1>8. QED
  BY <1>6, <1>7 DEF Accepted

\* So the proposal that StartConsensus makes is one that is accepted.
LEMMA ProposalAccepted ==
    ASSUME NEW t \in Accounts, NEW c \in Context, Bounded(c), Finished(c), Repeats(t, c)
    PROVE  Accepted(t, ProposalOf(c))
<1> DEFINE p == ProposalOf(c)
<1>1. Proposes(c, p) /\ Filled(c, p)
  BY ProposalOfType
<1> HIDE DEF p
<1>2. Len(c.value.txs) \in Nat /\ c.i - 1 = Len(c.value.txs)
  BY ContextFields, ValueFields DEF Finished
<1>3. p \in Value /\ p.txs = Rest(c) /\ p.expire = c.expire /\ p.error = c.error
  BY <1>1, <1>2 DEF Proposes, Filled, Rest
<1>4. Len(p.txs) \in Nat
  BY <1>3, ValueFields
<1>5. Extends(p, Rest(c)) /\ Len(p.txs) = Len(Rest(c))
  BY <1>3, <1>4 DEF Extends
<1>6. QED
  BY <1>3, <1>5, RepeatsAccepted, Zenon DEF p

\* A value that is checked without a difference is accepted.
LEMMA CheckedAccepted ==
    ASSUME NEW t \in Accounts, NEW c \in Context, Finished(c), Repeats(t, c), Clean(c)
    PROVE  Accepted(t, c.value)
<1> DEFINE v == c.value
           n == Len(v.txs)
           D == c.dropped
<1>1. v \in Value /\ v.txs \in Seq(Tx) /\ n \in Nat /\ c.i - 1 = n
  BY ContextFields, ValueFields DEF Finished
<1>2. D = {} /\ c.expire = v.expire /\ c.error = v.error
  BY DEF Clean, CheckAccepts
<1>3. (1 .. n) \cap D = {} /\ n \in 0 .. n
  BY <1>1, <1>2
<1> HIDE DEF D
<1>4. LET s == Taken(v.txs, D)[n]
      IN  s \in Seq(Tx) /\ Len(s) = n /\ \A i \in 1 .. n : s[i] = v.txs[i]
  BY <1>1, <1>3, TakenAll
<1>5. Rest(c) = Taken(v.txs, D)[n]
  BY <1>1 DEF Rest, D
<1>6. Len(Rest(c)) = n /\ \A i \in 1 .. n : v.txs[i] = Rest(c)[i]
  BY <1>4, <1>5, Zenon
<1>7. Extends(v, Rest(c))
  BY <1>1, <1>6 DEF Extends
<1>8. QED
  BY <1>2, <1>6, <1>7, RepeatsAccepted, Zenon

-----------------------------------------------------------------------------
(* The steps of the pre-execution.                                         *)

\* A result has its parts, whatever ledger it was executed on.
LEMMA ResultType ==
    ASSUME NEW t \in Accounts, NEW k \in Context
    PROVE  Result(t, k) \in Kept /\ Result(t, k).value = k.value
<1> DEFINE total == k.fee + block_reward
<1>1. /\ k.env \in Env /\ k.fee \in Nat /\ k.value \in Value /\ k.value.seq \in Nat
      /\ k.error \in SUBSET Int
  BY ContextFields, ValueFields
<1>2. total \in Nat
  BY <1>1, ExecutionConstants
<1>3. AllocateReward(t, k) = RewardTurns(t, k.env, total, k.value.seq)[Len(Rewarded)]
  BY DEF AllocateReward
<1> HIDE DEF total
<1>4. AllocateReward(t, k) \in Env
  BY <1>1, <1>2, <1>3, RewardTurnsPay, Zenon
<1>5. QED
  BY <1>1, <1>4 DEF Result, Kept

-----------------------------------------------------------------------------
(* Closing a ledger.                                                       *)

\* A value of one transaction that is kept though its own execution did not find
\* what the value says: an accepted value has one that is valid and succeeds.
LEMMA OneAgrees ==
    ASSUME NEW t \in Accounts, NEW k \in Context, Bounded(k), Finished(k), Sound(t, k),
           NEW g, Proves(t, k.value, g), Len(k.value.txs) <= 1,
           k.value.expire = {}, k.value.error = {}
    PROVE  k.dropped = {} /\ k.error = {}
<1>1. /\ k.value \in Value /\ Len(k.value.txs) \in Nat /\ k.i = Len(k.value.txs) + 1
      /\ k.dropped \subseteq 1 .. k.i - 1 /\ k.error \subseteq 1 .. k.i - 1
  BY ContextFields, ValueFields, Zenon DEF Bounded, Finished
<1>2. /\ g.value = k.value /\ g.i = k.i /\ g.dropped = {} /\ g.expire = {} /\ g.error = {}
  BY Zenon DEF Proves, Finished, Clean, CheckAccepts
<1>3. CASE Len(k.value.txs) = 0
  BY <1>1, <1>3, SMTT(30), Z3T(30)
<1>4. CASE Len(k.value.txs) = 1
  <2>1. k.i = 2 /\ g.i = 2
    BY <1>1, <1>2, <1>4, SMTT(30), Z3T(30)
  <2>2. FirstTurn(t, g) /\ FirstTurn(t, k)
    BY Zenon DEF Proves, Sound
  <2>3. ValidForApply(t, NoEnv, k.value.txs[1])
    BY <1>2, <2>1, <2>2, Zenon DEF FirstTurn
  <2>4. ApplyOps(t, Charged(t, NoEnv, k.value.txs[1]), k.value.txs[1]).ok
    BY <1>2, <2>1, <2>2, Zenon DEF FirstTurn
  <2> QED
    BY <2>1, <2>2, <2>3, <2>4, Zenon DEF FirstTurn
<1>5. Len(k.value.txs) = 0 \/ Len(k.value.txs) = 1
  <2> DEFINE n == Len(k.value.txs)
  <2>1. n \in Nat /\ n <= 1
    BY <1>1, Zenon
  <2> HIDE DEF n
  <2>2. n = 0 \/ n = 1
    BY <2>1, SMTT(30), Z3T(30)
  <2> QED
    BY <2>2, Zenon DEF n
<1>6. QED
  BY <1>3, <1>4, <1>5, Zenon
=============================================================================

-------------------------- MODULE LedgerExecution --------------------------
(***************************************************************************)
(* What the execution of the transactions of a ledger does to the          *)
(* accounts: the fees and the payments of one transaction, the loops of    *)
(* ApplyPropose, ApplyCheck and ApplyFollow over the transactions of a     *)
(* value, the rewards, and the value that a leader makes of what it        *)
(* executed.                                                               *)
(*                                                                         *)
(* A transaction is a list of payments with the fees it needs.  The        *)
(* environment of an execution is the map of the accounts it committed:    *)
(* that the outermost AtomMap behaves as one is what AtomMap shows.        *)
(* Transactions started by contracts are not modelled here.                *)
(***************************************************************************)
EXTENDS Integers, Sequences, FiniteSets, Functions

CONSTANTS Account,
          Tx,
          tx,               \* Tx -> Transaction
          Slow,             \* the transactions that may run out of time
          NoAccount,
          Unset,            \* no record of the account in an environment
          Rewarded,         \* the accounts of the validators, in order
          base_reserve,
          block_reward

\* What the model keeps of an account.
AccountState == [balance : Int, nonce : Nat]

\* A payment, and a transaction: self is the fee of its bytes and operations,
\* fee what it costs with the contracts it runs.
Payment == [dest : Account, amount : Nat]
Transaction == [source : Account, nonce : Nat, fee_limit : Nat, self : Nat, fee : Nat,
                ops : Seq(Payment)]

ASSUME ExecutionConstants ==
    /\ IsFiniteSet(Account) /\ Slow \subseteq Tx
    /\ tx \in [Tx -> Transaction]
    /\ NoAccount \notin AccountState /\ Unset \notin AccountState /\ Unset # NoAccount
    /\ base_reserve \in Nat /\ block_reward \in Nat \ {0}
    /\ Rewarded \in Seq(Account) /\ Rewarded # <<>>

NoEnv == [a \in Account |-> Unset]

\* An environment answers with its own record, else with the tree's.
Entry(t, env, a) == IF env[a] = Unset THEN t[a] ELSE env[a]

\* The accounts as the environment shows them.
View(t, env) == [a \in Account |-> Entry(t, env, a)]

\* CheckFee: the reserve is left after the limit, and the limit pays for the
\* transaction itself.
CheckFee(acc, x) ==
    acc.balance - tx[x].fee_limit >= base_reserve /\ tx[x].fee_limit >= tx[x].self

ValidForApplyAnyNonce(t, env, x) ==
    LET acc == Entry(t, env, tx[x].source)
    IN  acc # NoAccount /\ acc.nonce < tx[x].nonce /\ CheckFee(acc, x)

ValidForApply(t, env, x) ==
    LET acc == Entry(t, env, tx[x].source)
    IN  acc # NoAccount /\ acc.nonce + 1 = tx[x].nonce /\ CheckFee(acc, x)

\* PayFee and NonceIncrease, committed before the operations run.
Charged(t, env, x) ==
    LET acc == Entry(t, env, tx[x].source)
    IN  [env EXCEPT ![tx[x].source] = [balance |-> acc.balance - tx[x].fee_limit,
                                       nonce |-> acc.nonce + 1]]

\* An account that the payment creates.
Opened(acc) == IF acc = NoAccount THEN [balance |-> 0, nonce |-> 0] ELSE acc

PayCoinNoReserve(t, run, src, op) ==
    LET from == Entry(t, run.env, src)
        left == [run.env EXCEPT ![src] = [from EXCEPT !.balance = @ - op.amount]]
        to == Entry(t, left, op.dest)
    IN  IF run.ok /\ from.balance >= op.amount
                  /\ (to # NoAccount \/ op.amount >= base_reserve)
        THEN [ok |-> TRUE,
              env |-> [left EXCEPT ![op.dest] = [Opened(to) EXCEPT !.balance = @ + op.amount]]]
        ELSE [ok |-> FALSE, env |-> run.env]

\* PayCoin: the payer keeps its reserve, a new account starts with one.
PayCoin(t, run, src, op) ==
    LET from == Entry(t, run.env, src)
        left == [run.env EXCEPT ![src] = [from EXCEPT !.balance = @ - op.amount]]
        to == Entry(t, left, op.dest)
    IN  IF run.ok /\ from.balance >= op.amount + base_reserve
                  /\ (to # NoAccount \/ op.amount >= base_reserve)
        THEN [ok |-> TRUE,
              env |-> [left EXCEPT ![op.dest] = [Opened(to) EXCEPT !.balance = @ + op.amount]]]
        ELSE [ok |-> FALSE, env |-> run.env]

\* TransactionFrm::Apply: AddActualFee, then the operations until one fails.
OpTurns(t, env, x) ==
    LET after[k \in 0 .. Len(tx[x].ops)] ==
          IF k = 0 THEN [ok |-> tx[x].fee <= tx[x].fee_limit, env |-> env]
          ELSE PayCoin(t, after[k - 1], tx[x].source, tx[x].ops[k])
    IN  after

ApplyOps(t, env, x) == OpTurns(t, env, x)[Len(tx[x].ops)]

\* The environment and the fee that a paid transaction leaves.  What it did is
\* committed, the rest of the limit returned, only when it succeeded in time.
Outcome(t, env, x, expired) ==
    LET paid == Charged(t, env, x)
        run == ApplyOps(t, paid, x)
        src == tx[x].source
    IN  IF expired
        THEN [kind |-> "expire", env |-> paid, fee |-> tx[x].fee_limit]
        ELSE IF ~run.ok
        THEN [kind |-> "error", env |-> paid, fee |-> tx[x].fee_limit]
        ELSE [kind |-> "ok", fee |-> tx[x].fee,
              env |-> [run.env EXCEPT
                         ![src].balance = @ + tx[x].fee_limit - tx[x].fee]]

\* An account that is looked up stays in the environment.
Pinned(t, env, a) ==
    IF Entry(t, env, a) = NoAccount THEN env ELSE [env EXCEPT ![a] = Entry(t, env, a)]

Begin(m, v) ==
    [mode |-> m, value |-> v, i |-> 1, env |-> NoEnv, fee |-> 0,
     dropped |-> {}, expire |-> {}, error |-> {}, tried |-> 0]

\* The context after its next transaction, recorded under index idx.
Executed(c, out, idx) ==
    [c EXCEPT !.i = @ + 1, !.env = out.env, !.fee = @ + out.fee,
              !.expire = IF out.kind = "expire" THEN @ \cup {idx} ELSE @,
              !.error = IF out.kind = "error" THEN @ \cup {idx} ELSE @]

NextTx(c) == c.value.txs[c.i]

ProposeTxRawIndex(t, c, expired) ==
    LET x == NextTx(c)
    IN  IF ValidForApply(t, c.env, x)
        THEN Executed(c, Outcome(t, c.env, x, expired), c.i)
        ELSE [c EXCEPT !.i = @ + 1, !.dropped = @ \cup {c.i},
                       !.env = Pinned(t, @, tx[x].source)]

\* One turn of the loop of ApplyPropose: an invalid transaction is dropped,
\* the others are numbered as they will stand in the value.
ProposeTx(t, c, expired) ==
    LET x == NextTx(c)
    IN  IF ValidForApply(t, c.env, x)
        THEN Executed(c, Outcome(t, c.env, x, expired), c.i - Cardinality(c.dropped))
        ELSE [c EXCEPT !.i = @ + 1, !.dropped = @ \cup {c.i},
                       !.env = Pinned(t, @, tx[x].source)]

\* One turn of ApplyFollow: no validity check, and the value says what expired.
FollowTx(t, c) ==
    LET x == NextTx(c)
    IN  IF Entry(t, c.env, tx[x].source) = NoAccount THEN [c EXCEPT !.i = @ + 1]
        ELSE Executed(c, Outcome(t, c.env, x, c.i \in c.value.expire), c.i)

ShareFloor(total, seq, j) == total \div Len(Rewarded)

\* Equal shares, and what the division leaves to the validator whose turn it is.
Share(total, seq, j) ==
    total \div Len(Rewarded)
      + (IF j = (seq % Len(Rewarded)) + 1 THEN total % Len(Rewarded) ELSE 0)

\* The reward of one validator, whose account is created if there is none.
Reward(t, env, a, share) ==
    LET acc == Opened(Entry(t, env, a))
    IN  [env EXCEPT ![a] = [acc EXCEPT !.balance = @ + share]]

\* AllocateRewardDirectly.  The contract that takes the whole reward when it
\* exists is the case of one rewarded account.
RewardTurns(t, env, total, seq) ==
    LET after[j \in 0 .. Len(Rewarded)] ==
          IF j = 0 THEN env
          ELSE Reward(t, after[j - 1], Rewarded[j], Share(total, seq, j))
    IN  after

\* AllocateReward: the fees and the reward of the block.
AllocateReward(t, c) ==
    RewardTurns(t, c.env, c.fee + block_reward, c.value.seq)[Len(Rewarded)]

CheckAcceptsExpired(c) == c.expire = c.value.expire

\* ApplyCheck found what the value says.
CheckAccepts(c) == c.expire = c.value.expire /\ c.error = c.value.error

\* The context c after each turn of that loop, when the transactions at the
\* indices late run out of time.
ProposeTurns(t, c, late) ==
    LET after[j \in 0 .. Len(c.value.txs)] ==
          IF j = 0 THEN c ELSE ProposeTx(t, after[j - 1], j \in late)
    IN  after

\* ApplyPropose and ApplyCheck without interruption: what another node makes of
\* a raw list, and of a value.
ProposedBy(t, v, late) == ProposeTurns(t, Begin("propose", v), late)[Len(v.txs)]

CheckedBy(t, v, late) ==
    LET done == ProposeTurns(t, Begin("check", v), late)[Len(v.txs)]
    IN  done.dropped = {} /\ CheckAccepts(done)

LateSets(txs) == SUBSET {j \in DOMAIN txs : txs[j] \in Slow}

\* The transactions that are not dropped, after each turn of the loop.
Taken(txs, dropped) ==
    LET after[j \in 0 .. Len(txs)] ==
          IF j = 0 THEN <<>>
          ELSE IF j \in dropped THEN after[j - 1] ELSE Append(after[j - 1], txs[j])
    IN  after

\* The value StartConsensus requests after a pre-execution: without the dropped
\* transactions, with the validation the execution filled in.
ProposalOf(c) ==
    [c.value EXCEPT !.txs = Taken(c.value.txs, c.dropped)[Len(c.value.txs)],
                    !.expire = c.expire, !.error = c.error]

\* The same when ApplyPropose gave up: the validation is still empty.
PartialProposalOf(c) == [ProposalOf(c) EXCEPT !.expire = {}, !.error = {}]

RawValue(seq, time, raw) ==
    [seq |-> seq, time |-> time, txs |-> raw, expire |-> {}, error |-> {}]

Result(t, c) == [value |-> c.value, env |-> AllocateReward(t, c), error |-> c.error]

FollowTurns(t, v) ==
    LET after[j \in 0 .. Len(v.txs)] ==
          IF j = 0 THEN Begin("follow", v) ELSE FollowTx(t, after[j - 1])
    IN  after

\* ApplyFollow as a whole: it runs while nothing else can close a ledger.
ApplyFollow(t, v) == Result(t, FollowTurns(t, v)[Len(v.txs)])

-----------------------------------------------------------------------------

\* The accounts in some order.
Listed == CHOOSE s \in Bijection(1 .. Cardinality(Account), Account) : TRUE

Balance(acc) == IF acc = NoAccount THEN 0 ELSE acc.balance

\* The sum of the balances, account by account.
Sums(t) ==
    LET sum[k \in 0 .. Cardinality(Account)] ==
          IF k = 0 THEN 0 ELSE sum[k - 1] + Balance(t[Listed[k]])
    IN  sum

Coins(t) == Sums(t)[Cardinality(Account)]

FirstNonce(acc) == IF acc = NoAccount THEN 0 ELSE acc.nonce
=============================================================================

------------------------ MODULE LedgerExecutionTerms ------------------------
(***************************************************************************)
(* What the proofs say of an execution: the types of its values and        *)
(* contexts, what one payment, one transaction, one turn and a whole       *)
(* execution do, what its context satisfies at every turn (Sound), and     *)
(* that what it has done so far is what another node will find (Repeats).  *)
(***************************************************************************)
EXTENDS LedgerExecution

-----------------------------------------------------------------------------
(* The inductive invariant.                                                *)

\* The accounts of a ledger, and those an execution has a record of.
Accounts == [Account -> AccountState \cup {NoAccount}]

Env == [Account -> AccountState \cup {Unset}]

\* Proposed values, and the contexts that execute them.
Value == [seq : Nat, time : Nat, txs : Seq(Tx), expire : SUBSET Int, error : SUBSET Int]

Context == [mode : {"propose", "check", "recheck", "follow"}, value : Value,
            i : Nat \ {0}, env : Env, fee : Nat, dropped : SUBSET Nat,
            expire : SUBSET Int, error : SUBSET Int, tried : Nat]

\* No account is below the base reserve.
Reserved(t) == \A a \in Account : t[a] # NoAccount => t[a].balance >= base_reserve

\* Accounts stay, and their nonces do not fall.
Grown(t, u) ==
    \A a \in Account : /\ t[a] # NoAccount => u[a] # NoAccount
                       /\ FirstNonce(t[a]) <= FirstNonce(u[a])

\* The transactions txs[1 .. n] are those that lead the nonces from the ones of
\* t to the ones of u, in order.
InOrder(t, u, txs, n) ==
    /\ \A j \in 1 .. n : /\ FirstNonce(t[tx[txs[j]].source]) < tx[txs[j]].nonce
                         /\ tx[txs[j]].nonce <= FirstNonce(u[tx[txs[j]].source])
    /\ \A j, k \in 1 .. n : j < k /\ tx[txs[j]].source = tx[txs[k]].source
                             => tx[txs[j]].nonce < tx[txs[k]].nonce
    /\ \A a \in Account : \A k \in FirstNonce(t[a]) + 1 .. FirstNonce(u[a]) :
          \E j \in 1 .. n : tx[txs[j]].source = a /\ tx[txs[j]].nonce = k

\* Two contexts that agree but for their mode.
Alike(c, d) ==
    /\ c \in Context
    /\ c.value = d.value /\ c.i = d.i /\ c.env = d.env /\ c.fee = d.fee
    /\ c.expire = d.expire /\ c.error = d.error

\* The execution c has found so far what a node that follows its value finds.
Follows(t, c) ==
    c.expire = c.value.expire \cap (1 .. c.i - 1)
       => Alike(FollowTurns(t, c.value)[c.i - 1], c)

\* What the first turn found.
FirstTurn(t, c) ==
    LET x == c.value.txs[1]
        done == ApplyOps(t, Charged(t, NoEnv, x), x).ok
    IN  /\ c.i = 1 => c.env = NoEnv
        /\ c.i = 2 => /\ c.dropped # {} <=> ~ValidForApply(t, NoEnv, x)
                      /\ c.error # {} => ~done
                      /\ c.dropped = {} /\ c.expire = {} /\ c.error = {} => done

\* The indices of a context are those of the transactions it has seen.
Bounded(c) ==
    /\ c.i <= Len(c.value.txs) + 1 /\ c.dropped \subseteq 1 .. c.i - 1
    /\ c.expire \subseteq 1 .. c.i - 1 /\ c.error \subseteq 1 .. c.i - 1

\* A context that was executed on the accounts t.
Sound(t, c) ==
    /\ Coins(View(t, c.env)) + c.fee = Coins(t)
    /\ Reserved(t) => Reserved(View(t, c.env))
    /\ Grown(t, View(t, c.env))
    /\ c.dropped = {} => /\ InOrder(t, View(t, c.env), c.value.txs, c.i - 1)
                         /\ Follows(t, c)
    /\ FirstTurn(t, c)

\* Every transaction has had its turn.
Finished(c) == c.i = Len(c.value.txs) + 1

\* What the value says is what the execution found.
Clean(c) == c.dropped = {} /\ CheckAccepts(c)

\* Results that are kept, and ledgers.
Kept == [value : Value, env : Env, error : SUBSET Int]

-----------------------------------------------------------------------------
(* Environments.                                                           *)

\* The accounts W are the accounts V with the state s for a.
Written(V, W, a, s) ==
    /\ W \in Accounts /\ W[a] = s
    /\ \A b \in Account : b # a => W[b] = V[b]
    /\ Coins(V) \in Int /\ Coins(W) = Coins(V) + s.balance - Balance(V[a])

\* An environment that keeps the records of another.
KeepsRecords(env, new) == \A b \in Account : env[b] # Unset => new[b] # Unset

\* A record written to an environment.
Put(env, a, s) == [env EXCEPT ![a] = s]

-----------------------------------------------------------------------------
(* Payments.                                                               *)

\* Payments among the accounts V, which lead to W.
Paid(V, W) ==
    /\ W \in Accounts /\ Coins(W) = Coins(V)
    /\ Reserved(V) => Reserved(W)
    /\ \A b \in Account : /\ V[b] # NoAccount => W[b] # NoAccount
                          /\ FirstNonce(W[b]) = FirstNonce(V[b])

\* The state of a transaction between two operations.
OpRun == [ok : BOOLEAN, env : Env]

-----------------------------------------------------------------------------
(* One transaction.                                                        *)

\* The accounts V after a transaction x for which fee was taken are W.
Charges(V, W, x, fee) ==
    /\ W \in Accounts /\ fee \in Nat /\ Coins(V) \in Int /\ Coins(W) = Coins(V) - fee
    /\ Reserved(V) => Reserved(W)
    /\ \A b \in Account :
         /\ V[b] # NoAccount => W[b] # NoAccount
         /\ FirstNonce(W[b]) = FirstNonce(V[b]) + (IF b = tx[x].source THEN 1 ELSE 0)

-----------------------------------------------------------------------------
(* The rewards.                                                            *)

\* The rewards lead from V to W, and give out total.
Rewards(V, W, total) ==
    /\ W \in Accounts /\ Coins(V) \in Int /\ Coins(W) = Coins(V) + total
    /\ \A b \in Account : /\ V[b] # NoAccount => W[b] # NoAccount
                          /\ FirstNonce(W[b]) = FirstNonce(V[b])

\* A rewarded account exists or gets the reserve at once.
RewardsSuffice(V, share) ==
    \A j \in 1 .. Len(Rewarded) : V[Rewarded[j]] # NoAccount \/ share >= base_reserve

-----------------------------------------------------------------------------
(* One turn of an execution.                                               *)

\* The context c with the fields that a turn changes.
Turned(c, d, env, fee, dropped, expire, error) ==
    /\ d \in Context /\ d.mode = c.mode /\ d.value = c.value /\ d.tried = c.tried
    /\ d.i = c.i + 1 /\ d.env = env /\ d.fee = fee /\ d.dropped = dropped
    /\ d.expire = expire /\ d.error = error

\* A transaction that is not valid is dropped.
Dropped(t, c) ==
    [c EXCEPT !.i = @ + 1, !.dropped = @ \cup {c.i}, !.env = Pinned(t, @, tx[NextTx(c)].source)]

\* The transaction x of the context c was executed, and leaves d.
Ran(t, c, d, x, expired) ==
    LET out == Outcome(t, c.env, x, expired)
        idx == c.i - Cardinality(c.dropped)
    IN  /\ ValidForApply(t, c.env, x)
        /\ Charges(View(t, c.env), View(t, d.env), x, out.fee)
        /\ d.env = out.env /\ d.fee = c.fee + out.fee /\ d.dropped = c.dropped
        /\ d.expire = IF expired THEN c.expire \cup {idx} ELSE c.expire
        /\ d.error = IF out.kind = "error" THEN c.error \cup {idx} ELSE c.error
        /\ out.kind = "error" => ~ApplyOps(t, Charged(t, c.env, x), x).ok

\* It was dropped.
Skipped(t, c, d, x) ==
    /\ ~ValidForApply(t, c.env, x)
    /\ View(t, d.env) = View(t, c.env) /\ d.fee = c.fee /\ d.dropped = c.dropped \cup {c.i}
    /\ d.expire = c.expire /\ d.error = c.error

\* The value says of the next transaction whether it runs out of time.
SaidLate(c, late) == late <=> c.i \in c.value.expire

-----------------------------------------------------------------------------
(* Whole executions.                                                       *)

\* A context that is about to execute its first transaction.
Fresh(c) ==
    /\ c \in Context /\ c.i = 1 /\ c.env = NoEnv /\ c.fee = 0
    /\ c.dropped = {} /\ c.expire = {} /\ c.error = {}

\* An execution of c on the accounts t that has made j turns.
RunOf(t, c, d, j) ==
    /\ d \in Context /\ Bounded(d) /\ Sound(t, d) /\ d.i = j + 1
    /\ d.value = c.value /\ d.mode = c.mode

\* A finished execution k of the value v that found what the value says.
Proves(t, v, k) ==
    /\ k \in Context /\ Bounded(k) /\ Finished(k) /\ Sound(t, k) /\ Clean(k)
    /\ k.value = v /\ ApplyFollow(t, v) = Result(t, k)

\* A finished execution and the rewards lead from the accounts t to W.
Advances(t, W) ==
    /\ W \in Accounts /\ Coins(W) = Coins(t) + block_reward
    /\ Reserved(t) /\ RewardsSuffice(t, block_reward \div Len(Rewarded)) => Reserved(W)
    /\ Grown(t, W)

-----------------------------------------------------------------------------
(* The values.                                                             *)

\* The value p is proposed for the list of c.
Proposes(c, p) ==
    /\ p \in Value /\ p.seq = c.value.seq /\ p.time = c.value.time
    /\ Len(p.txs) <= Len(c.value.txs)

\* It has what the execution found.
Filled(c, p) ==
    /\ p.txs = Taken(c.value.txs, c.dropped)[Len(c.value.txs)]
    /\ p.expire = c.expire /\ p.error = c.error

-----------------------------------------------------------------------------
(* Executing a proposal again.                                             *)

\* Two environments that show the same accounts.  They may differ in what they
\* looked up without changing it.
SameView(t, e, f) == e \in Env /\ f \in Env /\ View(t, e) = View(t, f)

\* Two runs of the operations that stand alike; src has a record in both.
SameRun(t, r, q, src) ==
    /\ r \in OpRun /\ q \in OpRun /\ SameView(t, r.env, q.env) /\ (r.ok <=> q.ok)
    /\ r.env[src] # Unset /\ q.env[src] # Unset

\* The transaction x has the same outcome in both.
SameOutcome(t, e, f, x, expired) ==
    /\ ValidForApply(t, f, x)
    /\ SameView(t, Outcome(t, e, x, expired).env, Outcome(t, f, x, expired).env)
    /\ Outcome(t, e, x, expired).kind = Outcome(t, f, x, expired).kind

\* The first n indices are in both sets or in neither.
SameSoFar(D, E, n) == \A i \in 1 .. n : i \in D <=> i \in E

\* The transactions of c that were executed so far.
Rest(c) == Taken(c.value.txs, c.dropped)[c.i - 1]

\* The value v begins with the transactions s.
Extends(v, s) == v \in Value /\ Len(s) <= Len(v.txs) /\ \A j \in 1 .. Len(s) : v.txs[j] = s[j]

\* The execution d found what c found, and dropped nothing.
Redone(t, c, d) ==
    /\ d.dropped = {} /\ d.expire = c.expire /\ d.error = c.error
    /\ SameView(t, c.env, d.env)

\* Whoever checks a value that begins with what c executed, and for whom the
\* same transactions run out of time, finds what c found.
Repeats(t, c) ==
    LET s == Rest(c)
    IN  /\ s \in Seq(Tx) /\ Len(s) = c.i - 1 - Cardinality(c.dropped)
        /\ \A j \in c.expire : j \in 1 .. Len(s) /\ s[j] \in Slow
        /\ \A v, late : Extends(v, s) /\ late \cap (1 .. Len(s)) = c.expire
                         => Redone(t, c, ProposeTurns(t, Begin("check", v), late)[Len(s)])

\* Their next transactions will have the same index in the value.
SameIndex(c, p) == p.i - Cardinality(p.dropped) = c.i - Cardinality(c.dropped)

\* A validator accepts the value v on the accounts t.
Accepted(t, v) == \E late \in LateSets(v.txs) : CheckedBy(t, v, late)
=============================================================================

---------------------------- MODULE LedgerApply ----------------------------
(***************************************************************************)
(* When one node executes the transactions of a ledger: the leader to make *)
(* a proposal (StartConsensus, ApplyPropose), a validator to judge one     *)
(* (CheckValue, ApplyCheck), and every node to close the ledger            *)
(* (CloseLedger, with the result of an earlier execution that the context  *)
(* manager kept, else ApplyFollow).  A pre-execution runs on a thread of   *)
(* its own, one transaction at a time, while the network thread may close  *)
(* a ledger it received.                                                   *)
(***************************************************************************)
EXTENDS LedgerExecution

CONSTANTS Genesis,          \* Account -> the accounts of the first ledger
          Loads,            \* the values slow may have
          Checked,          \* TRUE iff other validators have a vote
          MaxTxs,           \* bound on the transactions of a proposal
          MaxLedger,        \* bound on the ledgers
          MaxRuns           \* bound on the executions of this node

ASSUME ApplyConstants ==
    /\ Genesis \in [Account -> AccountState \cup {NoAccount}]
    /\ Checked \in BOOLEAN /\ Loads \subseteq BOOLEAN
    /\ MaxTxs \in Nat /\ MaxLedger \in Nat /\ MaxRuns \in Nat

VARIABLES tree,         \* tree_: the accounts as of the last closed ledger
          chain,        \* the ledgers closed so far: [value, failed], failed the
                        \* transactions whose result is stored as an error
          ctx,          \* the context that is being pre-executed, or Idle
          completed,    \* completed_ctxs_: [value, env, error]
          requested,    \* the values this node handed to Request
          runs,         \* how many executions it has begun
          slow          \* TRUE iff blocks may take too long to execute here

vars == <<tree, chain, ctx, completed, requested, runs, slow>>

Idle == [mode |-> "idle"]

RawLists == {s \in UNION {[1..n -> Tx] : n \in 0..MaxTxs} : IsInjective(s)}

\* The close time of a proposal, in microseconds, is its proposer's clock: two
\* proposals of different nodes or of different runs of StartConsensus differ.
\* A run that rechecks a value first has read the clock before.
OwnTime == runs + 1
OthersTime == 0

\* The values that the leaders of other views propose for the next ledger.
OthersValues ==
    UNION {{ProposalOf(ProposedBy(tree, RawValue(Len(chain) + 1, OthersTime, raw), late)) :
              late \in LateSets(raw)} : raw \in RawLists}

Keep(t, c) == completed' = completed \cup {Result(t, c)}

Request(v) == requested' = requested \cup {v}

\* SyncPreProcess of a value to propose: a value that was executed before is
\* not executed again, and the result stays empty.
PreProcess(v) ==
    IF \E c \in completed : c.value = v
    THEN ctx' = Idle /\ Request(v)
    ELSE ctx' = Begin("propose", v) /\ UNCHANGED requested

StartConsensus(raw) ==
    /\ ctx = Idle /\ runs < MaxRuns /\ Len(chain) < MaxLedger
    /\ PreProcess(RawValue(Len(chain) + 1, OwnTime, raw))
    /\ runs' = runs + 1
    /\ UNCHANGED <<tree, chain, completed, slow>>

\* StartConsensus with the value that was prepared in the last view, which is
\* checked as any other before it is requested again.
StartConsensusAgain(v) ==
    /\ ctx = Idle /\ runs < MaxRuns /\ Len(chain) < MaxLedger
    /\ v.seq = Len(chain) + 1
    /\ IF \E c \in completed : c.value = v
       THEN ctx' = Idle /\ Request(v)
       ELSE ctx' = Begin("recheck", v) /\ UNCHANGED requested
    /\ runs' = runs + 1
    /\ UNCHANGED <<tree, chain, completed, slow>>

\* CheckValue of a proposal; what was executed before is accepted at once.
CheckValue(v) ==
    /\ ctx = Idle /\ Len(chain) < MaxLedger
    /\ v.seq = Len(chain) + 1
    /\ runs < MaxRuns
    /\ ~\E c \in completed : c.value = v
    /\ ctx' = Begin("check", v)
    /\ runs' = runs + 1
    /\ UNCHANGED <<tree, chain, completed, requested, slow>>

\* The value is not accepted; a leader that checked it proposes anew.
Reject ==
    IF ctx.mode = "recheck"
    THEN \E raw \in RawLists : PreProcess(RawValue(ctx.value.seq, runs, raw))
    ELSE ctx' = Idle /\ UNCHANGED requested

Running == ctx # Idle /\ ctx.i <= Len(ctx.value.txs)

ApplyTx ==
    /\ Running
    /\ \E expired \in IF NextTx(ctx) \in Slow THEN BOOLEAN ELSE {FALSE} :
          IF ctx.mode # "propose" /\ ~ValidForApply(tree, ctx.env, NextTx(ctx))
          THEN Reject
          ELSE ctx' = ProposeTx(tree, ctx, expired) /\ UNCHANGED requested
    /\ UNCHANGED <<tree, chain, completed, runs, slow>>

\* The execution ends: AllocateReward, and the context is kept.
FinishPropose ==
    /\ ctx # Idle /\ ~Running /\ ctx.mode = "propose"
    /\ Keep(tree, ctx)
    /\ Request(ProposalOf(ctx))
    /\ ctx' = Idle
    /\ UNCHANGED <<tree, chain, runs, slow>>

FinishCheck ==
    /\ ctx # Idle /\ ~Running /\ ctx.mode # "propose"
    /\ IF CheckAccepts(ctx)
       THEN /\ Keep(tree, ctx)
            /\ ctx' = Idle
            /\ IF ctx.mode = "recheck" THEN Request(ctx.value) ELSE UNCHANGED requested
       ELSE Reject /\ UNCHANGED completed
    /\ UNCHANGED <<tree, chain, runs, slow>>

\* The thread finds after a transaction that the block took too long, before
\* SyncPreProcess does: the result is FALSE, and block_timeout_ is not set.
GiveUp ==
    /\ slow /\ ctx # Idle
    /\ ctx.i - 1 > Cardinality(ctx.dropped)
    /\ IF ctx.mode = "propose"
       THEN Request(PartialProposalOf(ctx)) /\ ctx' = Idle
       ELSE Reject
    /\ UNCHANGED <<tree, chain, completed, runs, slow>>

\* How many transactions StartConsensus tries next: 0.7 of those it executed,
\* rounded, or of all when it executed none.
NextSize(c) ==
    LET executed == c.i - 1 - Cardinality(c.dropped)
        total == IF executed = 0 THEN Len(c.value.txs) ELSE executed
    IN  (7 * total + 5) \div 10

\* SyncPreProcess finds it first and cancels the context, or finds that the
\* thread has just ended; either way it tries again with fewer transactions.
BlockTimeout ==
    /\ slow /\ ctx # Idle
    /\ IF ~Running /\ (ctx.mode = "propose" \/ CheckAccepts(ctx))
       THEN Keep(tree, ctx) ELSE UNCHANGED completed
    /\ IF ctx.mode = "propose"
       THEN LET again == [ctx.value EXCEPT !.txs = SubSeq(@, 1, NextSize(ctx))]
            IN  IF \E c \in completed' : c.value = again
                THEN ctx' = Idle /\ Request(again)
                ELSE /\ ctx' = [Begin("propose", again) EXCEPT !.tried = Len(ctx.value.txs)]
                     /\ UNCHANGED requested
       ELSE Reject
    /\ UNCHANGED <<tree, chain, runs, slow>>

SyncProcessAnyRun(v) ==
    LET kept == {c \in completed : c.value.txs = v.txs}
    IN  IF kept # {} THEN CHOOSE c \in kept : TRUE ELSE ApplyFollow(tree, v)

\* SyncProcess: what was kept for exactly this value, if anything.
SyncProcess(v) ==
    LET kept == {c \in completed : c.value = v}
    IN  IF kept # {} THEN CHOOSE c \in kept : TRUE ELSE ApplyFollow(tree, v)

\* CloseLedger, from consensus or from a ledger that was received: the value
\* extends the last ledger and, with other validators, one of them accepted it.
CloseLedger(v) ==
    /\ Len(chain) < MaxLedger
    /\ v.seq = Len(chain) + 1
    /\ Checked => \E late \in LateSets(v.txs) : CheckedBy(tree, v, late)
    /\ LET res == SyncProcess(v)
       IN  /\ tree' = View(tree, res.env)
           /\ chain' = Append(chain, [value |-> v, failed |-> res.error])
    /\ completed' = {c \in completed : c.value.seq > v.seq}
    /\ requested' = {w \in requested : w.seq > v.seq}
    /\ UNCHANGED <<ctx, runs, slow>>

Init ==
    /\ tree = Genesis /\ chain = <<>>
    /\ ctx = Idle /\ completed = {} /\ requested = {} /\ runs = 0
    /\ slow \in Loads

Next ==
    \/ \E raw \in RawLists : StartConsensus(raw)
    \/ \E v \in IF Len(chain) < MaxLedger THEN requested \cup OthersValues ELSE {} :
          StartConsensusAgain(v) \/ CheckValue(v) \/ CloseLedger(v)
    \/ ApplyTx \/ FinishPropose \/ FinishCheck \/ GiveUp \/ BlockTimeout

Spec == Init /\ [][Next]_vars

-----------------------------------------------------------------------------

\* The accounts after each ledger, for a node that only follows the ledgers.
Followed(ledgers) ==
    LET after[n \in 0 .. Len(ledgers)] ==
          IF n = 0 THEN Genesis
          ELSE View(after[n - 1], ApplyFollow(after[n - 1], ledgers[n].value).env)
    IN  after

\* The accounts of a node that pre-executed values are those of a node that
\* only followed them: a context SyncProcess finds in completed_ctxs_ was
\* executed on the ledger it closes, and with the outcome its value states.
ClosesAsFollowed == ~slow => tree = Followed(chain)[Len(chain)]

\* The transactions that fail when a ledger is closed are those its value says
\* fail (ApplyFollow logs otherwise "This statement should not be executed").
FollowAgrees == \A n \in 1..Len(chain) : chain[n].failed = chain[n].value.error

\* A value that this node requested for the next ledger is one that a node
\* which checks it accepts, if the same transactions run out of time there:
\* the ids of the failed ones survive the removal of the dropped ones.
ProposalsAccepted ==
    ~slow =>
    \A v \in requested :
        v.seq = Len(chain) + 1 => \E late \in LateSets(v.txs) : CheckedBy(tree, v, late)

\* Executing ledgers makes no coins but the block rewards and destroys none:
\* fees, refunds, failed payments and the remainder of the shares included.
Conservation == Coins(tree) = Coins(Genesis) + Len(chain) * block_reward

\* No account is ever left below the base reserve, whatever limits it offered
\* and whatever its transactions did before they failed.
ReserveKept == \A a \in Account : tree[a] # NoAccount => tree[a].balance >= base_reserve

\* The places of the chain, and the transaction at a place.
Places == UNION {{<<n, j>> : j \in 1 .. Len(chain[n].value.txs)} : n \in 1 .. Len(chain)}
At(p) == tx[chain[p[1]].value.txs[p[2]]]
Before(p, q) == p[1] < q[1] \/ (p[1] = q[1] /\ p[2] < q[2])

\* The transactions of an account stand in the chain in the order of their
\* nonces, none twice and none missing: the nonce of an account counts those
\* that failed or expired too.
AppliedOnce ==
    \A p \in Places :
        /\ \A q \in Places : Before(p, q) /\ At(q).source = At(p).source
                              => At(p).nonce < At(q).nonce
        /\ \A k \in FirstNonce(Genesis[At(p).source]) + 1 .. At(p).nonce - 1 :
              \E q \in Places : Before(q, p) /\ At(q).source = At(p).source /\ At(q).nonce = k

\* Each time a block took too long, fewer transactions are tried ("Reopensesame
\* the timeout tx, and reduct to 0.7 with executed count").  NOT an invariant: a
\* list of one stays a list of one.
RetryShrinks == ctx # Idle /\ ctx.tried > 0 => Len(ctx.value.txs) < ctx.tried
=============================================================================

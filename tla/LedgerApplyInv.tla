--------------------------- MODULE LedgerApplyInv ---------------------------
(***************************************************************************)
(* The inductive invariant of LedgerApply, Sane, with what the steps do    *)
(* that preserve it, and the conditions of the theorems.  Guarded says     *)
(* that the ledgers closed have the vote of a node that checked them,      *)
(* unless blocks never take too long here, and RewardsOpen that a reward   *)
(* which creates an account is no less than its reserve.                   *)
(***************************************************************************)
EXTENDS LedgerApply, LedgerExecutionTerms

-----------------------------------------------------------------------------
(* The inductive invariant.                                                *)

\* A result r that was kept for the next ledger comes from an execution k on the
\* last one.  A raw list that was requested as it stands, though its execution
\* dropped or failed some of it, has at most one transaction.
KeptFrom(t, asked, load, r, k) ==
    /\ k \in Context /\ Bounded(k) /\ Finished(k) /\ Sound(t, k)
    /\ r = Result(t, k)
    /\ ~Clean(k) => /\ k.value.time > 0 /\ k.value.expire = {} /\ k.value.error = {}
                    /\ k.value \in asked => load /\ Len(k.value.txs) <= 1

\* Each result kept for the next ledger has such an execution.
KeptSound ==
    \A r \in completed :
        r.value.seq = Len(chain) + 1 => \E k : KeptFrom(tree, requested, slow, r, k)

\* No value is of a ledger after the next one, and each run of StartConsensus
\* has its own close time.
Times ==
    /\ \A r \in completed : r.value.seq <= Len(chain) + 1 /\ r.value.time <= runs
    /\ \A v \in requested : v.seq <= Len(chain) + 1 /\ v.time <= runs
    /\ ctx # Idle => /\ ctx.value.seq <= Len(chain) + 1 /\ ctx.value.time <= runs
                     /\ \A r \in completed : r.value # ctx.value
    /\ ctx.mode = "recheck" => /\ ctx.value.time < runs
                               /\ \A r \in completed : r.value.time < runs
                               /\ \A v \in requested : v.time < runs
    /\ ctx.mode = "propose" =>
         /\ ctx.value.time > 0 /\ ctx.value.expire = {} /\ ctx.value.error = {}
         /\ \A v \in requested : v.time # ctx.value.time
         /\ \A r \in completed : r.value.time = ctx.value.time
                                  => Len(r.value.txs) > Len(ctx.value.txs)

\* The running context was executed on the last ledger, unless its own is closed.
CtxSound ==
    ctx # Idle => /\ Bounded(ctx)
                  /\ ctx.value.seq = Len(chain) + 1 => Sound(tree, ctx)
                  /\ ctx.mode # "propose" => ctx.dropped = {}

Ledger == [value : Value, failed : SUBSET Int]

\* The types of the variables.
Typed ==
    /\ tree \in Accounts /\ chain \in Seq(Ledger)
    /\ ctx \in Context \cup {Idle}
    /\ completed \in SUBSET Kept
    /\ requested \in SUBSET Value /\ runs \in Nat /\ slow \in BOOLEAN

\* What the executions preserve.
IInv ==
    /\ Typed /\ Times /\ CtxSound /\ KeptSound

-----------------------------------------------------------------------------
(* The steps of the pre-execution.                                         *)

\* The accounts and the chain stay.
Stays == tree' = tree /\ chain' = chain /\ slow' = slow

\* The running context has come to its end, and its result is kept.
Finishes == ctx # Idle /\ Finished(ctx) /\ (ctx.mode = "propose" \/ CheckAccepts(ctx))

\* What a step keeps.
KeptStep ==
    \/ completed' = completed
    \/ completed' = completed \cup {Result(tree, ctx)} /\ Finishes

\* A value that may be requested: it was not kept, but as what the context just
\* found, or for want of more transactions to leave out.
MayRequest(v) ==
    \/ v.time = 0
    \/ /\ \A r \in completed : r.value # v
       /\ v = ctx.value => \/ completed' = completed \/ Clean(ctx)
                           \/ slow /\ Len(v.txs) <= 1

\* A list that is proposed at a time of its own, c with it.
Proposing(c) ==
    /\ Fresh(c) /\ c.mode = "propose" /\ c.value.expire = {} /\ c.value.error = {}
    /\ c.value.seq <= Len(chain) + 1 /\ c.value.time > 0 /\ c.value.time <= runs'
    /\ \A v \in requested : v.time # c.value.time
    /\ \A r \in completed' : r.value.time = c.value.time => Len(r.value.txs) > Len(c.value.txs)

\* Nothing is requested, and another execution begins, if any.
Restarts == requested' = requested /\ (ctx' = Idle \/ Fresh(ctx'))

\* The values that this node receives or has requested.
Known == requested \cup OthersValues

\* The list that is tried next.
Again(c) == [c.value EXCEPT !.txs = SubSeq(@, 1, NextSize(c))]

-----------------------------------------------------------------------------
(* Closing a ledger.                                                       *)

\* The result res for the value v is that of a whole execution k on the accounts
\* t, which dropped nothing and failed what the value says.
Executes(t, v, res, k) ==
    /\ k \in Context /\ Bounded(k) /\ Finished(k) /\ Sound(t, k) /\ k.value = v
    /\ k.dropped = {} /\ k.error = v.error /\ res = Result(t, k)
    /\ ~slow => res = ApplyFollow(t, v)

\* What closing a ledger with the value v does.
Closes(v) ==
    /\ v \in Value /\ v.seq = Len(chain) + 1
    /\ Advances(tree, tree')
    /\ InOrder(tree, tree', v.txs, Len(v.txs))
    /\ chain' = Append(chain, [value |-> v, failed |-> v.error])
    /\ ~slow => tree' = View(tree, ApplyFollow(tree, v).env)

-----------------------------------------------------------------------------
(* The proposals.                                                          *)

\* What the running context found so far would be found again.
CtxRepeats == ctx # Idle /\ ctx.value.seq = Len(chain) + 1 => Repeats(tree, ctx)

\* What every step preserves where blocks do not take too long.
Repeating == CtxRepeats /\ ProposalsAccepted

-----------------------------------------------------------------------------
(* The chain.                                                              *)

\* The transactions of the chain lead the nonces from those of the first ledger
\* to those of the last, in order.
Ordered ==
    /\ \A p \in Places : /\ FirstNonce(Genesis[At(p).source]) < At(p).nonce
                         /\ At(p).nonce <= FirstNonce(tree[At(p).source])
    /\ \A p, q \in Places : Before(p, q) /\ At(q).source = At(p).source => At(p).nonce < At(q).nonce
    /\ \A a \in Account : \A k \in FirstNonce(Genesis[a]) + 1 .. FirstNonce(tree[a]) :
          \E p \in Places : At(p).source = a /\ At(p).nonce = k
    /\ Grown(Genesis, tree)

\* The places of a chain, and what is there.
PlacesOf(l) == UNION {{<<n, j>> : j \in 1 .. Len(l[n].value.txs)} : n \in 1 .. Len(l)}

AtIn(l, p) == tx[l[p[1]].value.txs[p[2]]]

\* The same of accounts and a chain.
OrderedIn(t, l) ==
    /\ \A p \in PlacesOf(l) : /\ FirstNonce(Genesis[AtIn(l, p).source]) < AtIn(l, p).nonce
                              /\ AtIn(l, p).nonce <= FirstNonce(t[AtIn(l, p).source])
    /\ \A p, q \in PlacesOf(l) : Before(p, q) /\ AtIn(l, q).source = AtIn(l, p).source
                                  => AtIn(l, p).nonce < AtIn(l, q).nonce
    /\ \A a \in Account : \A k \in FirstNonce(Genesis[a]) + 1 .. FirstNonce(t[a]) :
          \E p \in PlacesOf(l) : AtIn(l, p).source = a /\ AtIn(l, p).nonce = k
    /\ Grown(Genesis, t)

\* The rewards leave every account its reserve: those of the validators exist,
\* or a share of the block reward is enough to open them.
RewardsOpen ==
    /\ Reserved(Genesis)
    /\ RewardsSuffice(Genesis, block_reward \div Len(Rewarded))

-----------------------------------------------------------------------------
(* The theorems.                                                           *)

\* The chain is what its values say.
ChainSound == Conservation /\ FollowAgrees /\ ClosesAsFollowed /\ Ordered

\* Other validators have a vote, or blocks do not take too long.
Calm == Checked \/ ~slow

\* The inductive invariant, where other validators have a vote or blocks do not
\* take too long.
Sane == Calm => IInv /\ ChainSound /\ (~slow => Repeating)

\* Other validators have a vote, or no block takes too long.
Guarded == Checked \/ \A load \in Loads : ~load
=============================================================================

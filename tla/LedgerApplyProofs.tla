------------------------- MODULE LedgerApplyProofs --------------------------
(***************************************************************************)
(* That executing ledgers conserves the coins, keeps the reserves, applies *)
(* the transactions of an account in the order of their nonces, and fails  *)
(* what the values say; that a node which pre-executes values ends with    *)
(* the accounts of one which only follows them; and that what a leader     *)
(* proposes is what the others accept.  For every set of accounts and      *)
(* transactions, and every number of ledgers and of executions.            *)
(***************************************************************************)
EXTENDS LedgerApplyInv, LedgerExecutionProofs

\* The provers of a leaf that names none.
USE SMT, Zenon, Z3T(20)

-----------------------------------------------------------------------------
(* The loops.                                                              *)

\* A node that only follows closes the ledgers in order.
LEMMA FollowedAre ==
    ASSUME NEW ledgers, Len(ledgers) \in Nat
    PROVE  LET after == Followed(ledgers)
           IN  /\ after[0] = Genesis
               /\ \A i \in 1 .. Len(ledgers) : after[i] = View(after[i - 1], ApplyFollow(after[i - 1], ledgers[i].value).env)
<1> DEFINE start == Genesis
           Turn(p, i) == View(p, ApplyFollow(p, ledgers[i].value).env)
           Is(k, g) == g = [i \in 0 .. k |-> IF i = 0 THEN start ELSE Turn(g[i - 1], i)]
           Has == {k \in Nat : \E g : Is(k, g)}
           after == Followed(ledgers)
           last == Len(ledgers)
<1>1. last \in Nat
  OBVIOUS
<1>2. after = CHOOSE g : Is(last, g)
  BY DEF Followed
<1> HIDE DEF start, Turn, after, last
<1>3. 0 \in Has
  <2>1. Is(0, [i \in 0 .. 0 |-> start])
    OBVIOUS
  <2> HIDE DEF Is
  <2> QED
    BY <2>1
<1>4. ASSUME NEW k \in Nat, k \in Has PROVE k + 1 \in Has
  <2>1. PICK g : Is(k, g)
    BY <1>4
  <2> DEFINE h == [i \in 0 .. k + 1 |-> IF i = k + 1 THEN Turn(g[k], i) ELSE g[i]]
  <2>2. Is(k + 1, h)
    BY <2>1
  <2> HIDE DEF Is, h
  <2> QED
    BY <2>2
<1>5. last \in Has
  <2> HIDE DEF Has
  <2> QED
    BY <1>1, <1>3, <1>4, SetInduction
<1>6. Is(last, after)
  <2> HIDE DEF Is
  <2> QED
    BY <1>2, <1>5
<1>7. after[0] = start /\ \A i \in 1 .. last : after[i] = Turn(after[i - 1], i)
  BY <1>1, <1>6
<1>8. QED
  BY <1>7, Zenon DEF start, Turn, after, last

-----------------------------------------------------------------------------
(* The values.                                                             *)

\* A proposal starts from a list of transactions.
LEMMA RawType ==
    ASSUME NEW raw \in RawLists, NEW seq \in Nat, NEW time \in Nat
    PROVE  LET v == RawValue(seq, time, raw)
           IN  /\ v \in Value /\ v.seq = seq /\ v.time = time
               /\ v.expire = {} /\ v.error = {}
<1>1. PICK n \in 0 .. MaxTxs : raw \in [1 .. n -> Tx]
  BY DEF RawLists
<1>2. raw \in Seq(Tx)
  BY <1>1, ApplyConstants
<1>3. QED
  BY <1>2 DEF RawValue, Value

\* The values of other leaders are for the next ledger and have their time.
LEMMA OthersType ==
    ASSUME Typed, NEW v \in OthersValues
    PROVE  v \in Value /\ v.seq = Len(chain) + 1 /\ v.time = 0
<1>1. PICK raw \in RawLists : \E late \in LateSets(raw) :
           v = ProposalOf(ProposedBy(tree, RawValue(Len(chain) + 1, OthersTime, raw), late))
  BY DEF OthersValues
<1>2. PICK late \in LateSets(raw) :
           v = ProposalOf(ProposedBy(tree, RawValue(Len(chain) + 1, OthersTime, raw), late))
  BY <1>1
<1> DEFINE w == RawValue(Len(chain) + 1, OthersTime, raw)
           c == Begin("propose", w)
           k == ProposeTurns(tree, c, late)[Len(w.txs)]
<1>3. Len(chain) + 1 \in Nat /\ OthersTime = 0 /\ OthersTime \in Nat /\ tree \in Accounts
  BY DEF Typed, OthersTime
<1>4. w \in Value /\ w.seq = Len(chain) + 1 /\ w.time = 0
  BY <1>3, RawType
<1>5. v = ProposalOf(k)
  BY <1>2 DEF ProposedBy
<1> HIDE DEF w
<1>6. Fresh(c) /\ c.value = w /\ Len(w.txs) \in Nat
  BY <1>4, BeginFresh, ValueFields
<1> HIDE DEF c
<1>7. \A j \in 0 .. Len(c.value.txs) : RunOf(tree, c, ProposeTurns(tree, c, late)[j], j)
  BY <1>3, <1>6, ProposeTurnsSound
<1>8. RunOf(tree, c, k, Len(w.txs))
  BY <1>6, <1>7
<1> HIDE DEF k
<1>9. Proposes(k, ProposalOf(k)) /\ k.value = w
  BY <1>6, <1>8, ProposalOfType DEF RunOf
<1>10. QED
  BY <1>4, <1>5, <1>9 DEF Proposes

\* StartConsensus tries fewer transactions, unless there is at most one.
LEMMA NextSizeShrinks ==
    ASSUME NEW c \in Context, Bounded(c)
    PROVE  /\ NextSize(c) \in 0 .. Len(c.value.txs)
           /\ NextSize(c) = Len(c.value.txs) => Len(c.value.txs) <= 1
<1> DEFINE executed == c.i - 1 - Cardinality(c.dropped)
           n == Len(c.value.txs)
           total == IF executed = 0 THEN n ELSE executed
           size == (7 * total + 5) \div 10
<1>1. c.i \in Nat /\ n \in Nat /\ c.i <= n + 1
  BY ContextFields, ValueFields DEF Bounded
<1>2. c.i - Cardinality(c.dropped) \in 1 .. c.i
  BY DroppedCount
<1>3. executed \in 0 .. n
  <2> DEFINE m == Cardinality(c.dropped)
             e == c.i - m
  <2>1. e \in 1 .. c.i
    BY <1>2
  <2>2. IsFiniteSet(c.dropped)
    <3>1. c.dropped \in SUBSET (1 .. c.i - 1) /\ 1 \in Int /\ c.i - 1 \in Int
      BY <1>1 DEF Bounded
    <3>2. IsFiniteSet(1 .. c.i - 1)
      BY <3>1, FS_Interval
    <3> QED
      BY <3>1, <3>2, FS_Subset
  <2>3. m \in Nat
    BY <2>2, FS_CardinalityType
  <2> HIDE DEF m
  <2>4. c.i - 1 - m = e - 1
    BY <1>1, <2>3
  <2> HIDE DEF e
  <2> QED
    BY <1>1, <2>1, <2>4 DEF m
<1> HIDE DEF executed, n
<1>4. total \in 0 .. n
  BY <1>1, <1>3
<1> HIDE DEF total
<1>5. size \in 0 .. total /\ (total > 1 => size < total)
  <2> DEFINE a == 7 * total + 5
             q == a \div 10
             r == a % 10
  <2>1. a \in Nat /\ 10 \in Nat \ {0} /\ total \in Nat /\ a = 7 * total + 5
    BY <1>1, <1>4
  <2> HIDE DEF a
  <2>2. q \in Nat /\ r \in 0 .. 10 - 1 /\ 10 * q + r = a
    BY <2>1, DivMod, Zenon
  <2> HIDE DEF q, r
  <2>3. q \in 0 .. total /\ (total > 1 => q < total)
    BY <2>1, <2>2
  <2> QED
    BY <2>3 DEF q, a
<1>6. NextSize(c) = size
  BY DEF NextSize, total, executed, n
<1> HIDE DEF size
<1>7. QED
  BY <1>1, <1>4, <1>5, <1>6 DEF n

-----------------------------------------------------------------------------
(* Executing a proposal again.                                             *)

\* The values of other leaders are accepted too.
LEMMA OthersAccepted ==
    ASSUME Typed, NEW v \in OthersValues
    PROVE  Accepted(tree, v)
<1>1. PICK raw \in RawLists : \E late \in LateSets(raw) :
           v = ProposalOf(ProposedBy(tree, RawValue(Len(chain) + 1, OthersTime, raw), late))
  BY DEF OthersValues
<1>2. PICK late \in LateSets(raw) :
           v = ProposalOf(ProposedBy(tree, RawValue(Len(chain) + 1, OthersTime, raw), late))
  BY <1>1
<1> DEFINE w == RawValue(Len(chain) + 1, OthersTime, raw)
           c == Begin("propose", w)
           k == ProposeTurns(tree, c, late)[Len(w.txs)]
<1>3. Len(chain) + 1 \in Nat /\ OthersTime \in Nat /\ tree \in Accounts
  BY DEF Typed, OthersTime
<1>4. w \in Value /\ w.txs = raw
  BY <1>3, RawType, Zenon DEF RawValue
<1>5. v = ProposalOf(k)
  BY <1>2 DEF ProposedBy
<1> HIDE DEF w
<1>6. Fresh(c) /\ c.value = w /\ Len(w.txs) \in Nat
  BY <1>4, BeginFresh, ValueFields
<1> HIDE DEF c
<1>7. \A j \in 0 .. Len(c.value.txs) : RunOf(tree, c, ProposeTurns(tree, c, late)[j], j)
  BY <1>3, <1>6, ProposeTurnsSound
<1>8. RunOf(tree, c, k, Len(w.txs))
  BY <1>6, <1>7
<1>9. late \in LateSets(c.value.txs)
  BY <1>4, <1>6
<1>10. \A j \in 0 .. Len(c.value.txs) : Repeats(tree, ProposeTurns(tree, c, late)[j])
  BY <1>3, <1>6, <1>9, ProposeTurnsRepeat, Zenon
<1>11. Repeats(tree, k)
  BY <1>6, <1>10
<1> HIDE DEF k
<1>12. k \in Context /\ Bounded(k) /\ Finished(k)
  BY <1>6, <1>8 DEF RunOf, Finished
<1>13. QED
  BY <1>3, <1>5, <1>11, <1>12, ProposalAccepted

-----------------------------------------------------------------------------
(* The steps of the pre-execution.                                         *)

\* The context is one of these two kinds.
LEMMA CtxKinds ==
    ASSUME Typed
    PROVE  /\ ctx # Idle => ctx \in Context
           /\ ctx = Idle => ctx.mode = "idle"
BY DEF Typed, Idle

\* What a step keeps is the running context, if anything.
LEMMA KeptStepType ==
    ASSUME Typed, KeptStep
    PROVE  /\ completed' \in SUBSET Kept
           /\ \A r \in completed' : r \in completed \/ (ctx # Idle /\ r.value = ctx.value)
<1>1. CASE completed' = completed
  BY <1>1 DEF Typed
<1>2. CASE completed' = completed \cup {Result(tree, ctx)} /\ Finishes
  <2>1. ctx # Idle /\ ctx \in Context /\ tree \in Accounts /\ completed \in SUBSET Kept
    BY <1>2, CtxKinds DEF Finishes, Typed
  <2>2. Result(tree, ctx) \in Kept /\ Result(tree, ctx).value = ctx.value
    BY <2>1, ResultType
  <2> QED
    BY <1>2, <2>1, <2>2, Zenon
<1>3. QED
  BY <1>1, <1>2 DEF KeptStep

\* What is kept and what is requested stay in this relation.
LEMMA KeptStepSound ==
    ASSUME IInv, Stays, KeptStep,
           \A v \in requested' : v \in requested \/ MayRequest(v)
    PROVE  KeptSound'
<1>1. SUFFICES ASSUME NEW r \in completed', r.value.seq = Len(chain) + 1
               PROVE  \E k : KeptFrom(tree, requested', slow, r, k)
  BY DEF KeptSound, Stays
<1>2. CASE r \in completed
  <2>1. PICK k : KeptFrom(tree, requested, slow, r, k)
    BY <1>1, <1>2 DEF IInv, KeptSound
  <2>2. r.value = k.value
    BY <2>1 DEF KeptFrom, Result
  <2>3. ASSUME ~Clean(k), k.value \in requested' PROVE slow /\ Len(k.value.txs) <= 1
    <3>1. k.value.time > 0 /\ k.value.time \in Nat
      BY <2>1, <2>3, ContextFields, ValueFields, Zenon DEF KeptFrom
    <3>2. k.value \in requested
      <4>1. k.value.time # 0
        BY <3>1
      <4> QED
        BY <1>2, <2>2, <2>3, <4>1 DEF MayRequest
    <3> QED
      BY <2>1, <2>3, <3>2 DEF KeptFrom
  <2>4. KeptFrom(tree, requested', slow, r, k)
    BY <2>1, <2>3, Zenon DEF KeptFrom
  <2> QED
    BY <2>4
<1>3. CASE r \notin completed
  <2>1. r = Result(tree, ctx) /\ Finishes
    BY <1>1, <1>3 DEF KeptStep
  <2>2. ctx \in Context /\ tree \in Accounts /\ ctx # Idle /\ Finished(ctx)
    BY <2>1, CtxKinds DEF IInv, Typed, Finishes
  <2>3. r.value = ctx.value
    BY <2>1, <2>2, ResultType
  <2>4. Bounded(ctx) /\ Sound(tree, ctx)
    BY <1>1, <2>2, <2>3 DEF IInv, CtxSound
  <2>5. ASSUME ~Clean(ctx)
        PROVE  /\ ctx.value.time > 0 /\ ctx.value.expire = {} /\ ctx.value.error = {}
               /\ ctx.value \in requested' => slow /\ Len(ctx.value.txs) <= 1
    <3>1. ctx.mode = "propose"
      BY <2>1, <2>2, <2>5 DEF Finishes, IInv, CtxSound, Clean
    <3>2. /\ ctx.value.time > 0 /\ ctx.value.expire = {} /\ ctx.value.error = {}
          /\ ctx.value \notin requested
      BY <3>1 DEF IInv, Times
    <3>3. ctx.value.time # 0
      BY <2>2, <3>2, ContextFields, ValueFields
    <3>4. ctx.value \in requested' => slow /\ Len(ctx.value.txs) <= 1
      BY <1>1, <1>3, <2>5, <3>2, <3>3, Zenon DEF MayRequest
    <3> QED
      BY <3>2, <3>4
  <2>6. KeptFrom(tree, requested', slow, r, ctx)
    BY <2>1, <2>2, <2>4, <2>5, Zenon DEF KeptFrom
  <2> QED
    BY <2>6
<1>4. QED
  BY <1>2, <1>3

\* A context that starts, or none, is sound.
LEMMA StartSound ==
    ASSUME Typed, Stays, ctx' = Idle \/ Fresh(ctx')
    PROVE  CtxSound' /\ ctx' \in Context \cup {Idle}
<1>1. tree \in Accounts
  BY DEF Typed
<1>2. CASE ctx' = Idle
  BY <1>2 DEF CtxSound
<1>3. CASE Fresh(ctx')
  <2>1. Bounded(ctx') /\ Sound(tree, ctx')
    BY <1>1, <1>3, FreshSound
  <2> QED
    BY <1>3, <2>1, Zenon DEF CtxSound, Stays, Fresh
<1>4. QED
  BY <1>2, <1>3

\* The running context is gone, and what it found may have been kept and
\* requested.
LEMMA EndStep ==
    ASSUME IInv, Stays, KeptStep, ctx' = Idle, runs' \in Nat, runs <= runs',
           \A v \in requested' :
               v \in requested \/ (v \in Value /\ v.seq <= Len(chain) + 1
                                      /\ v.time <= runs /\ MayRequest(v))
    PROVE  IInv'
<1>1. Typed /\ Times /\ chain' = chain /\ runs \in Nat
  BY DEF IInv, Typed, Stays
<1>2. KeptSound'
  BY KeptStepSound
<1>3. CtxSound' /\ ctx' \in Context \cup {Idle}
  BY <1>1, StartSound
<1>4. /\ completed' \in SUBSET Kept
      /\ \A r \in completed' : r \in completed \/ (ctx # Idle /\ r.value = ctx.value)
  BY <1>1, KeptStepType
<1>5. Typed'
  BY <1>1, <1>3, <1>4 DEF Typed, Stays
<1>6. Times'
  <2>1. ctx'.mode = "idle"
    BY DEF Idle
  <2>2. \A r \in completed' : r.value.seq <= Len(chain) + 1 /\ r.value.time <= runs /\ r.value.time \in Nat
    BY <1>1, <1>4 DEF Times, Kept, Value
  <2>3. \A v \in requested' : v.seq <= Len(chain) + 1 /\ v.time <= runs /\ v.time \in Nat
    BY <1>1 DEF Times, Typed, Value
  <2>4. /\ \A r \in completed' : r.value.seq <= Len(chain') + 1 /\ r.value.time <= runs'
        /\ \A v \in requested' : v.seq <= Len(chain') + 1 /\ v.time <= runs'
    BY <1>1, <2>2, <2>3
  <2> QED
    BY <2>1, <2>4, Zenon DEF Times
<1>7. QED
  BY <1>2, <1>3, <1>5, <1>6 DEF IInv

\* StartConsensus begins to execute a list.
LEMMA ProposeStep ==
    ASSUME IInv, Stays, KeptStep, requested' = requested, runs' \in Nat, runs <= runs',
           Proposing(ctx')
    PROVE  IInv'
<1>1. Typed /\ Times /\ chain' = chain /\ runs \in Nat
  BY DEF IInv, Typed, Stays
<1>2. KeptSound'
  BY KeptStepSound
<1>3. CtxSound' /\ ctx' \in Context \cup {Idle} /\ ctx' \in Context
  BY <1>1, StartSound DEF Proposing, Fresh
<1>4. /\ completed' \in SUBSET Kept
      /\ \A r \in completed' : r \in completed \/ (ctx # Idle /\ r.value = ctx.value)
  BY <1>1, KeptStepType
<1>5. Typed'
  BY <1>1, <1>3, <1>4 DEF Typed, Stays
<1>6. Times'
  <2>1. /\ ctx'.mode = "propose" /\ ctx'.value.seq <= Len(chain') + 1 /\ ctx'.value.time <= runs'
        /\ ctx'.value.time > 0 /\ ctx'.value.expire = {} /\ ctx'.value.error = {}
        /\ \A v \in requested' : v.time # ctx'.value.time
        /\ \A r \in completed' : r.value.time = ctx'.value.time
                                  => Len(r.value.txs) > Len(ctx'.value.txs)
    BY <1>1 DEF Proposing
  <2>2. \A r \in completed' : r.value # ctx'.value
    <3>1. Len(ctx'.value.txs) \in Nat
      BY <1>3, ContextFields, ValueFields
    <3>2. ~(Len(ctx'.value.txs) > Len(ctx'.value.txs))
      BY <3>1
    <3> QED
      BY <2>1, <3>2
  <2>3. \A r \in completed' : r.value.seq <= Len(chain) + 1 /\ r.value.time <= runs /\ r.value.time \in Nat
    BY <1>1, <1>4 DEF Times, Kept, Value
  <2>4. \A v \in requested' : v.seq <= Len(chain) + 1 /\ v.time <= runs /\ v.time \in Nat
    BY <1>1 DEF Times, Typed, Value
  <2>5. /\ \A r \in completed' : r.value.seq <= Len(chain') + 1 /\ r.value.time <= runs'
        /\ \A v \in requested' : v.seq <= Len(chain') + 1 /\ v.time <= runs'
    BY <1>1, <2>3, <2>4
  <2>6. ctx'.mode # "recheck"
    BY <2>1
  <2> QED
    BY <2>1, <2>2, <2>5, <2>6, Zenon DEF Times
<1>7. QED
  BY <1>2, <1>3, <1>5, <1>6 DEF IInv

\* A validator, or the leader of a new view, begins to check a value.
LEMMA CheckStep ==
    ASSUME IInv, Stays, completed' = completed, requested' = requested, runs' = runs + 1,
           NEW v \in Value, v.seq <= Len(chain) + 1, v.time <= runs,
           \A r \in completed : r.value # v,
           NEW m \in {"check", "recheck"}, ctx' = Begin(m, v)
    PROVE  IInv'
<1>1. Typed /\ Times /\ chain' = chain /\ runs \in Nat
  BY DEF IInv, Typed, Stays
<1>2. Fresh(ctx') /\ ctx'.value = v /\ ctx'.mode = m
  BY BeginFresh
<1>3. KeptSound'
  BY KeptStepSound DEF KeptStep
<1>4. CtxSound' /\ ctx' \in Context \cup {Idle} /\ ctx' \in Context
  BY <1>1, <1>2, StartSound DEF Fresh
<1>5. Typed'
  BY <1>1, <1>4 DEF Typed, Stays
<1>6. Times'
  <2>1. v.time \in Nat /\ v.time < runs' /\ v.time <= runs'
    BY <1>1, ValueFields
  <2>2. \A r \in completed : r.value.seq <= Len(chain) + 1 /\ r.value.time <= runs /\ r.value.time \in Nat
    BY <1>1, Zenon DEF Times, Typed, Kept, Value
  <2>3. \A w \in requested : w.seq <= Len(chain) + 1 /\ w.time <= runs /\ w.time \in Nat
    BY <1>1 DEF Times, Typed, Value
  <2>4. /\ \A r \in completed' : /\ r.value.seq <= Len(chain') + 1 /\ r.value.time <= runs'
                                 /\ r.value.time < runs'
        /\ \A w \in requested' : /\ w.seq <= Len(chain') + 1 /\ w.time <= runs'
                                 /\ w.time < runs'
    BY <1>1, <2>2, <2>3
  <2>5. ctx'.mode # "propose"
    BY <1>2
  <2> QED
    BY <1>1, <1>2, <2>1, <2>4, <2>5, Zenon DEF Times
<1>7. QED
  BY <1>3, <1>4, <1>5, <1>6 DEF IInv

\* The running context executes its next transaction.
LEMMA TurnStep ==
    ASSUME IInv, Stays, completed' = completed, requested' = requested, runs' = runs, Running,
           NEW expired \in BOOLEAN, ctx' = ProposeTx(tree, ctx, expired),
           ctx.mode # "propose" => ValidForApply(tree, ctx.env, NextTx(ctx))
    PROVE  IInv'
<1>1. /\ Typed /\ Times /\ CtxSound /\ chain' = chain /\ tree' = tree /\ tree \in Accounts
      /\ ctx # Idle /\ ctx.i <= Len(ctx.value.txs)
  BY DEF IInv, Typed, Stays, Running
<1>2. ctx \in Context /\ Bounded(ctx)
  BY <1>1, CtxKinds, Zenon DEF CtxSound
<1>3. KeptSound'
  BY KeptStepSound DEF KeptStep
<1>4. /\ ctx' \in Context /\ Bounded(ctx') /\ ctx'.value = ctx.value /\ ctx'.mode = ctx.mode
      /\ Ran(tree, ctx, ctx', NextTx(ctx), expired) \/ Skipped(tree, ctx, ctx', NextTx(ctx))
  BY <1>1, <1>2, ProposeTxTurn, ZenonT(30)
<1>5. Sound(tree, ctx) => Sound(tree, ctx')
  BY <1>1, <1>2, SoundTurn, Zenon
<1>6. ctx.mode # "propose" => ctx'.dropped = {}
  <2>1. ctx.mode # "propose" => ctx.dropped = {}
    BY <1>1, Zenon DEF CtxSound
  <2>2. ASSUME ctx.mode # "propose" PROVE ctx'.dropped = ctx.dropped
    BY <1>4, <2>2, Zenon DEF Ran, Skipped
  <2> QED
    BY <2>1, <2>2
<1>7. CtxSound'
  BY <1>1, <1>4, <1>5, <1>6, Zenon DEF CtxSound
<1>8. Typed'
  BY <1>1, <1>4, Zenon DEF Typed, Stays
<1>9. Times'
  BY <1>1, <1>4, Zenon DEF Times
<1>10. QED
  BY <1>3, <1>7, <1>8, <1>9, Zenon DEF IInv

\* A value that was not executed before is not kept, so its list is executed.
LEMMA PreProcessRuns ==
    ASSUME NEW v \in Value, \A r \in completed : r.value # v, PreProcess(v)
    PROVE  /\ requested' = requested
           /\ Fresh(ctx') /\ ctx'.value = v /\ ctx'.mode = "propose"
<1>1. ctx' = Begin("propose", v) /\ requested' = requested
  BY DEF PreProcess
<1>2. QED
  BY <1>1, BeginFresh

\* The value is not accepted.
LEMMA RejectStep ==
    ASSUME IInv, Stays, KeptStep, runs' = runs, ctx # Idle, Reject
    PROVE  IInv' /\ Restarts
<1>1. Typed /\ Times /\ runs \in Nat /\ ctx \in Context
  BY CtxKinds DEF IInv, Typed
<1>2. CASE ctx.mode # "recheck"
  <2>1. ctx' = Idle /\ requested' = requested
    BY <1>2 DEF Reject
  <2> QED
    BY <1>1, <2>1, EndStep DEF Restarts
<1>3. CASE ctx.mode = "recheck"
  <2>1. PICK raw \in RawLists : PreProcess(RawValue(ctx.value.seq, runs, raw))
    BY <1>3, Zenon DEF Reject
  <2> DEFINE v == RawValue(ctx.value.seq, runs, raw)
  <2>2. ctx.value.seq \in Nat /\ ctx.value.time \in Nat /\ ctx.value.seq <= Len(chain) + 1
    BY <1>1, ContextFields, ValueFields DEF Times
  <2>3. /\ v \in Value /\ v.seq = ctx.value.seq /\ v.time = runs
        /\ v.expire = {} /\ v.error = {}
    BY <1>1, <2>2, RawType
  <2>4. PreProcess(v)
    BY <2>1
  <2> HIDE DEF v
  <2>5. /\ ctx.value.time < runs /\ \A r \in completed : r.value.time < runs
        /\ \A w \in requested : w.time < runs
    BY <1>1, <1>3 DEF Times
  <2>6. \A r \in completed : r.value # v
    BY <1>1, <2>3, <2>5
  <2>7. requested' = requested /\ Fresh(ctx') /\ ctx'.value = v /\ ctx'.mode = "propose"
    BY <2>3, <2>4, <2>6, PreProcessRuns
  <2>8. \A r \in completed' : r \in completed \/ r.value = ctx.value
    BY <1>1, KeptStepType
  <2>9. \A r \in completed' : r.value.time # v.time
    BY <1>1, <2>2, <2>3, <2>5, <2>8
  <2>10. \A w \in requested : w.time # v.time
    BY <1>1, <2>3, <2>5
  <2>11. v.time > 0 /\ v.time <= runs' /\ v.seq <= Len(chain) + 1
    BY <1>1, <2>2, <2>3, <2>5
  <2>12. Proposing(ctx')
    BY <2>3, <2>7, <2>9, <2>10, <2>11, Zenon DEF Proposing
  <2>13. runs' \in Nat /\ runs <= runs'
    BY <1>1
  <2> QED
    BY <2>7, <2>12, <2>13, ProposeStep DEF Restarts
<1>4. QED
  BY <1>2, <1>3

\* StartConsensus makes a list of its own time.
LEMMA StartConsensusStep ==
    ASSUME IInv, NEW raw \in RawLists, StartConsensus(raw)
    PROVE  IInv' /\ Restarts
<1> DEFINE v == RawValue(Len(chain) + 1, OwnTime, raw)
<1>1. Typed /\ Times /\ runs \in Nat /\ Len(chain) + 1 \in Nat /\ OwnTime = runs + 1
  BY DEF IInv, Typed, OwnTime
<1>2. /\ PreProcess(v) /\ runs' = runs + 1 /\ completed' = completed /\ Stays
  BY DEF StartConsensus, Stays
<1>3. /\ v \in Value /\ v.seq = Len(chain) + 1 /\ v.time = runs + 1
      /\ v.expire = {} /\ v.error = {}
  BY <1>1, RawType
<1> HIDE DEF v
<1>4. /\ \A r \in completed : r.value.time # v.time
      /\ \A w \in requested : w.time # v.time
  BY <1>1, <1>3, SMTT(30), Z3T(30) DEF Times, Typed, Kept, Value
<1>5. \A r \in completed : r.value # v
  BY <1>4
<1>6. requested' = requested /\ Fresh(ctx') /\ ctx'.value = v /\ ctx'.mode = "propose"
  BY <1>2, <1>3, <1>5, PreProcessRuns
<1>7. v.time > 0 /\ v.time <= runs' /\ v.seq <= Len(chain) + 1
  BY <1>1, <1>2, <1>3
<1>8. Proposing(ctx')
  BY <1>2, <1>3, <1>4, <1>6, <1>7, Zenon DEF Proposing
<1>9. runs' \in Nat /\ runs <= runs' /\ KeptStep
  BY <1>1, <1>2 DEF KeptStep
<1>10. QED
  BY <1>2, <1>6, <1>8, <1>9, ProposeStep DEF Restarts

\* They are of the next ledger at the latest, and of a time that has come.
LEMMA KnownType ==
    ASSUME Typed, Times, NEW v \in Known
    PROVE  v \in Value /\ v.seq <= Len(chain) + 1 /\ v.time <= runs
<1>1. runs \in Nat /\ Len(chain) \in Nat
  BY DEF Typed
<1>2. CASE v \in requested
  BY <1>2 DEF Typed, Times
<1>3. CASE v \in OthersValues
  <2>1. v \in Value /\ v.seq = Len(chain) + 1 /\ v.time = 0
    BY <1>3, OthersType
  <2> QED
    BY <1>1, <2>1
<1>4. QED
  BY <1>2, <1>3 DEF Known

\* The leader of a new view checks the value that was prepared before.
LEMMA StartConsensusAgainStep ==
    ASSUME IInv, NEW v \in Known, StartConsensusAgain(v)
    PROVE  IInv'
<1>1. Typed /\ Times /\ runs \in Nat
  BY DEF IInv, Typed
<1>2. /\ runs' = runs + 1 /\ completed' = completed /\ Stays
      /\ runs' \in Nat /\ runs <= runs' /\ KeptStep
  BY <1>1 DEF StartConsensusAgain, Stays, KeptStep
<1>3. v \in Value /\ v.seq <= Len(chain) + 1 /\ v.time <= runs
  BY <1>1, KnownType
<1>4. CASE \E c \in completed : c.value = v
  <2>1. ctx' = Idle /\ requested' = requested \cup {v}
    BY <1>4 DEF StartConsensusAgain, Request
  <2>2. v \in requested \/ v.time = 0
    BY <1>1, OthersType DEF Known
  <2>3. v \in requested \/ MayRequest(v)
    BY <2>2 DEF MayRequest
  <2> QED
    BY <1>2, <1>3, <2>1, <2>3, EndStep
<1>5. CASE ~\E c \in completed : c.value = v
  <2>1. ctx' = Begin("recheck", v) /\ requested' = requested
    BY <1>5 DEF StartConsensusAgain
  <2> QED
    BY <1>2, <1>3, <1>5, <2>1, CheckStep
<1>6. QED
  BY <1>4, <1>5

\* A validator begins to check a proposal.
LEMMA CheckValueStep ==
    ASSUME IInv, NEW v \in Known, CheckValue(v)
    PROVE  IInv'
<1>1. /\ runs' = runs + 1 /\ completed' = completed /\ Stays /\ requested' = requested
      /\ ctx' = Begin("check", v) /\ \A r \in completed : r.value # v
  BY DEF CheckValue, Stays
<1>2. v \in Value /\ v.seq <= Len(chain) + 1 /\ v.time <= runs
  BY KnownType DEF IInv
<1>3. QED
  BY <1>1, <1>2, CheckStep

\* The thread executes a transaction, or finds one that the value should not have.
LEMMA ApplyTxStep ==
    ASSUME IInv, ApplyTx
    PROVE  IInv'
<1>1. Running /\ completed' = completed /\ runs' = runs /\ Stays /\ ctx # Idle /\ KeptStep
  BY Zenon DEF ApplyTx, Stays, Running, KeptStep
<1>2. PICK expired \in BOOLEAN :
           IF ctx.mode # "propose" /\ ~ValidForApply(tree, ctx.env, NextTx(ctx))
           THEN Reject
           ELSE ctx' = ProposeTx(tree, ctx, expired) /\ UNCHANGED requested
  BY Zenon DEF ApplyTx
<1>3. CASE ctx.mode # "propose" /\ ~ValidForApply(tree, ctx.env, NextTx(ctx))
  <2>1. Reject
    BY <1>2, <1>3, Zenon
  <2> QED
    BY <1>1, <2>1, RejectStep, Zenon
<1>4. CASE ~(ctx.mode # "propose" /\ ~ValidForApply(tree, ctx.env, NextTx(ctx)))
  <2>1. ctx' = ProposeTx(tree, ctx, expired) /\ requested' = requested
    BY <1>2, <1>4, Zenon
  <2>2. ctx.mode # "propose" => ValidForApply(tree, ctx.env, NextTx(ctx))
    BY <1>4, Zenon
  <2> QED
    BY <1>1, <2>1, <2>2, TurnStep, Zenon
<1>5. QED
  BY <1>3, <1>4

\* A context that no longer runs has come to its end.
LEMMA NotRunning ==
    ASSUME IInv, ctx # Idle, ~Running
    PROVE  Finished(ctx)
<1>1. ctx \in Context /\ Bounded(ctx)
  BY CtxKinds DEF IInv, CtxSound
<1>2. ctx.i \in Nat /\ Len(ctx.value.txs) \in Nat
  BY <1>1, ContextFields, ValueFields
<1>3. QED
  BY <1>1, <1>2 DEF Running, Bounded, Finished

\* What this node makes of its list is not the list of another execution.
LEMMA ProposalNew ==
    ASSUME IInv, ctx # Idle, ctx.mode = "propose", NEW p, Proposes(ctx, p)
    PROVE  /\ p \in Value /\ p.seq <= Len(chain) + 1 /\ p.time <= runs
           /\ \A r \in completed : r.value # p
<1>1. ctx \in Context /\ Times /\ Typed
  BY CtxKinds DEF IInv
<1>2. /\ p \in Value /\ p.seq = ctx.value.seq /\ p.time = ctx.value.time
      /\ Len(p.txs) <= Len(ctx.value.txs)
  BY DEF Proposes
<1>3. Len(p.txs) \in Nat /\ Len(ctx.value.txs) \in Nat
  BY <1>1, <1>2, ContextFields, ValueFields
<1>4. \A r \in completed : r.value.time = p.time => Len(r.value.txs) > Len(ctx.value.txs)
  BY <1>1, <1>2 DEF Times
<1>5. \A r \in completed : r.value # p
  BY <1>2, <1>3, <1>4
<1>6. QED
  BY <1>1, <1>2, <1>5 DEF Times

\* The leader requests what it made of its list, and keeps it.
LEMMA FinishProposeStep ==
    ASSUME IInv, FinishPropose
    PROVE  IInv'
<1> DEFINE p == ProposalOf(ctx)
<1>1. /\ ctx # Idle /\ ctx.mode = "propose" /\ ~Running /\ ctx' = Idle /\ runs' = runs /\ Stays
      /\ completed' = completed \cup {Result(tree, ctx)} /\ requested' = requested \cup {p}
  BY Zenon DEF FinishPropose, Keep, Request, Stays
<1>2. Finished(ctx) /\ ctx \in Context /\ Bounded(ctx) /\ runs \in Nat
  BY <1>1, NotRunning, CtxKinds, Zenon DEF IInv, CtxSound, Typed
<1>3. KeptStep
  BY <1>1, <1>2, Zenon DEF KeptStep, Finishes
<1>4. Proposes(ctx, p) /\ (p = ctx.value => Clean(ctx))
  BY <1>2, ProposalOfType, Zenon
<1> HIDE DEF p
<1>5. /\ p \in Value /\ p.seq <= Len(chain) + 1 /\ p.time <= runs
      /\ \A r \in completed : r.value # p
  BY <1>1, <1>4, ProposalNew, Zenon
<1>6. MayRequest(p)
  BY <1>4, <1>5, Zenon DEF MayRequest
<1>7. runs' \in Nat /\ runs <= runs'
  BY <1>1, <1>2
<1>8. QED
  BY <1>1, <1>3, <1>5, <1>6, <1>7, EndStep

\* A check comes to its end.
LEMMA FinishCheckStep ==
    ASSUME IInv, FinishCheck
    PROVE  IInv'
<1>1. ctx # Idle /\ ctx.mode # "propose" /\ ~Running /\ runs' = runs /\ Stays
  BY Zenon DEF FinishCheck, Stays
<1>2. /\ Finished(ctx) /\ ctx \in Context /\ ctx.dropped = {} /\ runs \in Nat
  BY <1>1, NotRunning, CtxKinds, Zenon DEF IInv, CtxSound, Typed
<1>3. runs' \in Nat /\ runs <= runs'
  BY <1>1, <1>2
<1>4. CASE CheckAccepts(ctx)
  <2>1. /\ completed' = completed \cup {Result(tree, ctx)} /\ ctx' = Idle
        /\ requested' = requested \/ requested' = requested \cup {ctx.value}
    BY <1>4, Zenon DEF FinishCheck, Keep, Request
  <2>2. KeptStep
    BY <1>1, <1>2, <1>4, <2>1, Zenon DEF KeptStep, Finishes
  <2>3. /\ ctx.value \in Value /\ ctx.value.seq <= Len(chain) + 1 /\ ctx.value.time <= runs
        /\ \A r \in completed : r.value # ctx.value
    BY <1>1, <1>2, ContextFields DEF IInv, Times
  <2>4. MayRequest(ctx.value)
    BY <1>2, <1>4, <2>3, Zenon DEF MayRequest, Clean
  <2> QED
    BY <1>1, <1>3, <2>1, <2>2, <2>3, <2>4, EndStep
<1>5. CASE ~CheckAccepts(ctx)
  <2>1. Reject /\ completed' = completed
    BY <1>5, Zenon DEF FinishCheck
  <2>2. KeptStep
    BY <2>1 DEF KeptStep
  <2> QED
    BY <1>1, <2>1, <2>2, RejectStep, Zenon
<1>6. QED
  BY <1>4, <1>5

\* The thread gives up.
LEMMA GiveUpStep ==
    ASSUME IInv, GiveUp
    PROVE  IInv'
<1> DEFINE p == PartialProposalOf(ctx)
<1>1. ctx # Idle /\ slow /\ runs' = runs /\ completed' = completed /\ Stays
  BY Zenon DEF GiveUp, Stays
<1>2. /\ ctx \in Context /\ Bounded(ctx) /\ runs \in Nat /\ KeptStep
  BY <1>1, CtxKinds DEF IInv, CtxSound, Typed, KeptStep
<1>3. CASE ctx.mode = "propose"
  <2>1. ctx' = Idle /\ requested' = requested \cup {p}
    BY <1>3, Zenon DEF GiveUp, Request
  <2>2. Proposes(ctx, p)
    BY <1>2, ProposalOfType, Zenon
  <2> HIDE DEF p
  <2>3. /\ p \in Value /\ p.seq <= Len(chain) + 1 /\ p.time <= runs
        /\ \A r \in completed : r.value # p
    BY <1>1, <1>3, <2>2, ProposalNew, Zenon
  <2>4. MayRequest(p)
    BY <1>1, <2>3, Zenon DEF MayRequest
  <2>5. runs' \in Nat /\ runs <= runs'
    BY <1>1, <1>2
  <2> QED
    BY <1>1, <1>2, <2>1, <2>3, <2>4, <2>5, EndStep
<1>4. CASE ctx.mode # "propose"
  <2>1. Reject
    BY <1>4, Zenon DEF GiveUp
  <2> QED
    BY <1>1, <1>2, <2>1, RejectStep, Zenon
<1>5. QED
  BY <1>3, <1>4

\* It is the same list only if that has at most one transaction.
LEMMA AgainType ==
    ASSUME NEW c \in Context, Bounded(c)
    PROVE  LET v == Again(c)
           IN  /\ Proposes(c, v) /\ v.expire = c.value.expire /\ v.error = c.value.error
               /\ v = c.value => Len(v.txs) <= 1
               /\ Len(v.txs) = Len(c.value.txs) => v = c.value
<1> DEFINE w == c.value
           n == NextSize(c)
           s == SubSeq(w.txs, 1, n)
           v == [w EXCEPT !.txs = s]
<1>1. w \in Value /\ w.txs \in Seq(Tx) /\ Len(w.txs) \in Nat
  BY ContextFields, ValueFields
<1>2. n \in 0 .. Len(w.txs) /\ (n = Len(w.txs) => Len(w.txs) <= 1)
  BY NextSizeShrinks
<1>3. Again(c) = v
  BY DEF Again
<1> HIDE DEF w, n
<1>4. s \in Seq(Tx) /\ Len(s) = n /\ (n = Len(w.txs) => s = w.txs)
  BY <1>1, <1>2
<1> HIDE DEF s
<1>5. /\ v \in Value /\ v.seq = w.seq /\ v.time = w.time /\ v.txs = s
      /\ v.expire = w.expire /\ v.error = w.error /\ (s = w.txs => v = w)
  <2>1. s = w.txs => v = w
    BY <1>1 DEF Value
  <2> QED
    BY <1>1, <1>4, <2>1 DEF Value
<1> HIDE DEF v
<1>6. Proposes(c, v)
  BY <1>1, <1>2, <1>4, <1>5 DEF Proposes, w
<1>7. v = w => Len(v.txs) <= 1
  BY <1>1, <1>2, <1>4, <1>5
<1>8. Len(v.txs) = Len(w.txs) => v = w
  BY <1>4, <1>5
<1>9. QED
  BY <1>3, <1>5, <1>6, <1>7, <1>8 DEF w

\* SyncPreProcess cancels the context, or finds that it has just ended.
LEMMA BlockTimeoutStep ==
    ASSUME IInv, BlockTimeout
    PROVE  IInv'
<1>1. /\ ctx # Idle /\ slow /\ runs' = runs /\ Stays
      /\ IF ~Running /\ (ctx.mode = "propose" \/ CheckAccepts(ctx))
         THEN Keep(tree, ctx) ELSE UNCHANGED completed
  BY Zenon DEF BlockTimeout, Stays
<1>2. /\ ctx \in Context /\ Bounded(ctx) /\ runs \in Nat /\ Typed /\ Times
      /\ runs' \in Nat /\ runs <= runs'
  BY <1>1, CtxKinds DEF IInv, CtxSound, Typed
<1>3. KeptStep
  <2>1. CASE ~Running /\ (ctx.mode = "propose" \/ CheckAccepts(ctx))
    <3>1. completed' = completed \cup {Result(tree, ctx)}
      BY <1>1, <2>1, Zenon DEF Keep
    <3>2. Finished(ctx)
      BY <1>1, <2>1, NotRunning
    <3> QED
      BY <1>1, <2>1, <3>1, <3>2, Zenon DEF KeptStep, Finishes
  <2>2. CASE ~(~Running /\ (ctx.mode = "propose" \/ CheckAccepts(ctx)))
    BY <1>1, <2>2, Zenon DEF KeptStep
  <2> QED
    BY <2>1, <2>2
<1>4. CASE ctx.mode = "propose"
  <2> DEFINE v == Again(ctx)
  <2>1. IF \E c \in completed' : c.value = v
        THEN ctx' = Idle /\ Request(v)
        ELSE /\ ctx' = [Begin("propose", v) EXCEPT !.tried = Len(ctx.value.txs)]
             /\ UNCHANGED requested
    BY <1>4, Zenon DEF BlockTimeout, Again
  <2>2. /\ Proposes(ctx, v) /\ v.expire = ctx.value.expire /\ v.error = ctx.value.error
        /\ v = ctx.value => Len(v.txs) <= 1
        /\ Len(v.txs) = Len(ctx.value.txs) => v = ctx.value
    BY <1>2, AgainType
  <2> HIDE DEF v
  <2>3. /\ v \in Value /\ v.seq <= Len(chain) + 1 /\ v.time <= runs
        /\ \A r \in completed : r.value # v
    BY <1>1, <1>4, <2>2, ProposalNew, Zenon
  <2>4. CASE \E c \in completed' : c.value = v
    <3>1. ctx' = Idle /\ requested' = requested \cup {v}
      BY <2>1, <2>4, Zenon DEF Request
    <3>2. MayRequest(v)
      BY <1>1, <2>2, <2>3, Zenon DEF MayRequest
    <3> QED
      BY <1>1, <1>2, <1>3, <2>3, <3>1, <3>2, EndStep
  <2>5. CASE ~\E c \in completed' : c.value = v
    <3> DEFINE b == Begin("propose", v)
    <3>1. requested' = requested /\ ctx' = [b EXCEPT !.tried = Len(ctx.value.txs)]
      BY <2>1, <2>5, Zenon
    <3>2. Fresh(b) /\ b.value = v /\ b.mode = "propose"
      BY <2>3, BeginFresh
    <3>3. Len(ctx.value.txs) \in Nat /\ Len(v.txs) \in Nat /\ Len(v.txs) <= Len(ctx.value.txs)
      BY <1>2, <2>2, <2>3, ContextFields, ValueFields DEF Proposes
    <3> HIDE DEF b
    <3>4. Fresh(ctx') /\ ctx'.value = v /\ ctx'.mode = "propose"
      BY <3>1, <3>2, <3>3 DEF Fresh, Context
    <3>5. /\ v.time = ctx.value.time /\ v.expire = {} /\ v.error = {} /\ v.time > 0
          /\ \A w \in requested : w.time # v.time
          /\ \A r \in completed : r.value.time = v.time => Len(r.value.txs) > Len(ctx.value.txs)
      BY <1>2, <1>4, <2>2 DEF Times, Proposes
    <3>6. \A r \in completed' : r \in completed \/ r.value = ctx.value
      BY <1>2, <1>3, KeptStepType
    <3>7. ASSUME NEW r \in completed', r.value.time = v.time PROVE Len(r.value.txs) > Len(v.txs)
      <4>1. CASE r \in completed
        <5>1. Len(r.value.txs) \in Nat /\ Len(r.value.txs) > Len(ctx.value.txs)
          BY <1>2, <3>5, <3>7, <4>1 DEF Typed, Kept, Value
        <5> QED
          BY <3>3, <5>1
      <4>2. CASE r.value = ctx.value
        <5>1. v # ctx.value
          BY <2>5, <4>2
        <5>2. Len(v.txs) # Len(ctx.value.txs)
          BY <2>2, <5>1
        <5> QED
          BY <3>3, <4>2, <5>2
      <4> QED
        BY <3>6, <4>1, <4>2
    <3>8. v.time <= runs'
      BY <1>1, <2>3
    <3>9. Proposing(ctx')
      BY <2>3, <3>4, <3>5, <3>7, <3>8, Zenon DEF Proposing
    <3> QED
      BY <1>1, <1>2, <1>3, <3>1, <3>9, ProposeStep
  <2> QED
    BY <2>4, <2>5
<1>5. CASE ctx.mode # "propose"
  <2>1. Reject
    BY <1>5, Zenon DEF BlockTimeout
  <2> QED
    BY <1>1, <1>3, <2>1, RejectStep, Zenon
<1>6. QED
  BY <1>4, <1>5

-----------------------------------------------------------------------------
(* Closing a ledger.                                                       *)

\* What SyncProcess finds for a value that may be accepted.
LEMMA SyncProcessExecutes ==
    ASSUME IInv, NEW v \in Known, v.seq = Len(chain) + 1, Accepted(tree, v)
    PROVE  \E k : Executes(tree, v, SyncProcess(v), k)
<1>1. tree \in Accounts /\ v \in Value /\ Typed
  BY KnownType DEF IInv, Typed
<1>2. PICK late \in LateSets(v.txs) : CheckedBy(tree, v, late)
  BY DEF Accepted
<1>3. PICK g : Proves(tree, v, g)
  BY <1>1, <1>2, CheckedFollows
<1> DEFINE kept == {c \in completed : c.value = v}
           res == SyncProcess(v)
<1>4. CASE kept = {}
  <2>1. res = ApplyFollow(tree, v)
    BY <1>4, Zenon DEF SyncProcess
  <2> HIDE DEF res
  <2>2. Executes(tree, v, res, g)
    BY <1>3, <2>1, Zenon DEF Executes, Proves, Clean, CheckAccepts
  <2> QED
    BY <2>2 DEF res
<1>5. CASE kept # {}
  <2>1. res = CHOOSE c \in kept : TRUE
    BY <1>5, Zenon DEF SyncProcess
  <2>2. res \in completed /\ res.value = v
    <3>1. (CHOOSE c \in kept : TRUE) \in kept
      BY <1>5
    <3> HIDE DEF res
    <3> QED
      BY <2>1, <3>1
  <2> HIDE DEF res
  <2>3. PICK k : KeptFrom(tree, requested, slow, res, k)
    BY <2>2 DEF IInv, KeptSound
  <2>4. /\ k \in Context /\ Bounded(k) /\ Finished(k) /\ Sound(tree, k) /\ res = Result(tree, k)
        /\ ~Clean(k) => /\ k.value.time > 0 /\ k.value.expire = {} /\ k.value.error = {}
                        /\ k.value \in requested => slow /\ Len(k.value.txs) <= 1
    BY <2>3, Zenon DEF KeptFrom
  <2>5. k.value = v
    BY <1>1, <2>2, <2>4, ResultType, Zenon
  <2>6. CASE Clean(k)
    <3>1. ApplyFollow(tree, v) = res
      BY <1>1, <2>4, <2>5, <2>6, FollowResult, Zenon
    <3>2. k.dropped = {} /\ k.error = v.error
      BY <2>5, <2>6 DEF Clean, CheckAccepts
    <3>3. Executes(tree, v, res, k)
      BY <2>4, <2>5, <3>1, <3>2, Zenon DEF Executes
    <3> QED
      BY <3>3 DEF res
  <2>7. CASE ~Clean(k)
    <3>1. v.time > 0 /\ v.expire = {} /\ v.error = {}
      BY <2>4, <2>5, <2>7, Zenon
    <3>2. v \in requested
      <4>1. v \notin OthersValues
        BY <1>1, <3>1, OthersType
      <4> QED
        BY <4>1 DEF Known
    <3>3. slow /\ Len(k.value.txs) <= 1
      BY <2>4, <2>5, <2>7, <3>2, Zenon
    <3>4. Proves(tree, k.value, g)
      BY <1>3, <2>5
    <3>5. k.value.expire = {} /\ k.value.error = {}
      BY <2>5, <3>1
    <3>6. k.dropped = {} /\ k.error = {}
      BY <1>1, <2>4, <3>3, <3>4, <3>5, OneAgrees, Zenon
    <3>7. Executes(tree, v, res, k)
      BY <2>4, <2>5, <3>1, <3>3, <3>6, Zenon DEF Executes
    <3> QED
      BY <3>7 DEF res
  <2> QED
    BY <2>6, <2>7
<1>6. QED
  BY <1>4, <1>5, Zenon

\* CloseLedger of a value that may be accepted.
LEMMA CloseLedgerCloses ==
    ASSUME IInv, NEW v \in Known, CloseLedger(v), Accepted(tree, v)
    PROVE  Closes(v)
<1> DEFINE res == SyncProcess(v)
<1>1. /\ v.seq = Len(chain) + 1 /\ tree' = View(tree, res.env)
      /\ chain' = Append(chain, [value |-> v, failed |-> res.error])
  BY Zenon DEF CloseLedger
<1>2. tree \in Accounts /\ v \in Value
  BY KnownType DEF IInv, Typed
<1>3. PICK k : Executes(tree, v, res, k)
  BY <1>1, SyncProcessExecutes
<1> HIDE DEF res
<1>4. /\ k \in Context /\ Sound(tree, k) /\ k.dropped = {} /\ Finished(k) /\ k.value = v
      /\ k.error = v.error /\ res = Result(tree, k) /\ (~slow => res = ApplyFollow(tree, v))
  BY <1>3, Zenon DEF Executes
<1>5. /\ Advances(tree, View(tree, res.env))
      /\ InOrder(tree, View(tree, res.env), v.txs, Len(v.txs))
  BY <1>2, <1>4, ResultPays, Zenon
<1>6. res.error = v.error
  BY <1>4, Zenon DEF Result
<1>7. QED
  BY <1>1, <1>2, <1>4, <1>5, <1>6, Zenon DEF Closes

\* The next ledger starts with nothing kept for it.
LEMMA CloseLedgerStep ==
    ASSUME IInv, NEW v \in Known, CloseLedger(v), Accepted(tree, v)
    PROVE  IInv'
<1>1. /\ completed' = {c \in completed : c.value.seq > v.seq} /\ ctx' = ctx /\ runs' = runs
      /\ requested' = {w \in requested : w.seq > v.seq} /\ slow' = slow
  BY Zenon DEF CloseLedger
<1>2. Typed /\ Times /\ CtxSound
  BY DEF IInv
<1>3. /\ v \in Value /\ v.seq = Len(chain) + 1 /\ tree' \in Accounts
      /\ chain' = Append(chain, [value |-> v, failed |-> v.error])
  BY CloseLedgerCloses DEF Closes, Advances
<1>4. chain \in Seq(Ledger) /\ Len(chain) \in Nat /\ v.error \in SUBSET Int
  BY <1>2, <1>3, ValueFields DEF Typed
<1>5. [value |-> v, failed |-> v.error] \in Ledger
  BY <1>3, <1>4 DEF Ledger
<1>6. chain' \in Seq(Ledger) /\ Len(chain') = Len(chain) + 1
  BY <1>3, <1>4, <1>5
<1>7. completed' = {} /\ requested' = {}
  <2>1. /\ \A r \in completed : r.value.seq \in Nat /\ r.value.seq <= Len(chain) + 1
        /\ \A w \in requested : w.seq \in Nat /\ w.seq <= Len(chain) + 1
    BY <1>2 DEF Typed, Times, Kept, Value
  <2> QED
    BY <1>1, <1>3, <1>4, <2>1
<1>8. Typed'
  BY <1>1, <1>2, <1>3, <1>6, <1>7, Zenon DEF Typed
<1>9. ctx # Idle => ctx.value.seq \in Nat /\ ctx.value.seq <= Len(chain) + 1
  BY <1>2, CtxKinds, ContextFields, ValueFields DEF Times
<1>10. ctx # Idle => ctx'.value.seq <= Len(chain') + 1 /\ ctx'.value.seq # Len(chain') + 1
  BY <1>1, <1>4, <1>6, <1>9
<1>11. Times'
  BY <1>1, <1>2, <1>7, <1>10 DEF Times
<1>12. CtxSound'
  BY <1>1, <1>2, <1>10, Zenon DEF CtxSound
<1>13. KeptSound'
  BY <1>7 DEF KeptSound
<1>14. QED
  BY <1>8, <1>11, <1>12, <1>13 DEF IInv

-----------------------------------------------------------------------------
(* The invariant is inductive.                                             *)

\* One step: the pre-execution leaves the ledgers alone, and CloseLedger adds one.
LEMMA NextStep ==
    ASSUME IInv, [Next]_vars,
           \A v \in Known : CloseLedger(v) => Accepted(tree, v)
    PROVE  /\ IInv'
           /\ slow' = slow
           /\ (tree' = tree /\ chain' = chain) \/ \E v \in Known : Closes(v)
<1>1. ASSUME NEW raw \in RawLists, StartConsensus(raw) PROVE IInv' /\ Stays
  BY <1>1, StartConsensusStep DEF StartConsensus, Stays
<1>2. ASSUME NEW v \in Known, StartConsensusAgain(v) PROVE IInv' /\ Stays
  BY <1>2, StartConsensusAgainStep, Zenon DEF StartConsensusAgain, Stays
<1>3. ASSUME NEW v \in Known, CheckValue(v) PROVE IInv' /\ Stays
  BY <1>3, CheckValueStep, Zenon DEF CheckValue, Stays
<1>4. ASSUME NEW v \in Known, CloseLedger(v) PROVE IInv' /\ slow' = slow /\ Closes(v)
  <2>1. slow' = slow
    BY <1>4, Zenon DEF CloseLedger
  <2> QED
    BY <1>4, <2>1, CloseLedgerStep, CloseLedgerCloses, Zenon
<1>5. ASSUME ApplyTx PROVE IInv' /\ Stays
  <2>1. Stays
    BY <1>5, Zenon DEF ApplyTx, Stays
  <2> QED
    BY <1>5, <2>1, ApplyTxStep, Zenon
<1>6. ASSUME FinishPropose PROVE IInv' /\ Stays
  <2>1. Stays
    BY <1>6, Zenon DEF FinishPropose, Stays
  <2> QED
    BY <1>6, <2>1, FinishProposeStep, Zenon
<1>7. ASSUME FinishCheck PROVE IInv' /\ Stays
  <2>1. Stays
    BY <1>7, Zenon DEF FinishCheck, Stays
  <2> QED
    BY <1>7, <2>1, FinishCheckStep, Zenon
<1>8. ASSUME GiveUp PROVE IInv' /\ Stays
  <2>1. Stays
    BY <1>8, Zenon DEF GiveUp, Stays
  <2> QED
    BY <1>8, <2>1, GiveUpStep, Zenon
<1>9. ASSUME BlockTimeout PROVE IInv' /\ Stays
  <2>1. Stays
    BY <1>9, Zenon DEF BlockTimeout, Stays
  <2> QED
    BY <1>9, <2>1, BlockTimeoutStep, Zenon
<1>10. ASSUME UNCHANGED vars PROVE IInv' /\ Stays
  BY <1>10, Zenon DEF vars, Stays, IInv, Typed, Times, CtxSound, KeptSound
<1>11. CASE Next
  <2>1. \/ \E raw \in RawLists : StartConsensus(raw)
        \/ \E v \in Known : StartConsensusAgain(v) \/ CheckValue(v) \/ CloseLedger(v)
        \/ ApplyTx \/ FinishPropose \/ FinishCheck \/ GiveUp \/ BlockTimeout
    <3>1. ASSUME NEW v \in IF Len(chain) < MaxLedger THEN requested \cup OthersValues ELSE {}
          PROVE  v \in Known
      BY <3>1, Zenon DEF Known
    <3> QED
      BY <1>11, <3>1, Zenon DEF Next
  <2> QED
    BY <1>1, <1>2, <1>3, <1>4, <1>5, <1>6, <1>7, <1>8, <1>9, <2>1, Zenon DEF Stays
<1>12. QED
  BY <1>10, <1>11, Zenon DEF Stays

-----------------------------------------------------------------------------
(* The proposals.                                                          *)

\* Requested values stay acceptable while the accounts stay.
LEMMA RequestedAccepted ==
    ASSUME Stays, ProposalsAccepted,
           \A v \in requested' : \/ v \in requested \/ v.seq # Len(chain) + 1
                                 \/ slow \/ Accepted(tree, v)
    PROVE  ProposalsAccepted'
<1> SUFFICES ASSUME ~slow, NEW v \in requested', v.seq = Len(chain) + 1
             PROVE  Accepted(tree, v)
  BY DEF ProposalsAccepted, Accepted, Stays
<1>1. CASE v \in requested
  BY <1>1 DEF ProposalsAccepted, Accepted
<1>2. QED
  BY <1>1

\* Another execution begins.
LEMMA RestartRepeats ==
    ASSUME IInv, Stays, ctx' = Idle \/ Fresh(ctx'), ProposalsAccepted,
           \A v \in requested' : \/ v \in requested \/ v.seq # Len(chain) + 1
                                 \/ slow \/ Accepted(tree, v)
    PROVE  Repeating'
<1>1. tree \in Accounts
  BY DEF IInv, Typed
<1>2. ProposalsAccepted'
  BY RequestedAccepted
<1>3. CtxRepeats'
  <2>1. Fresh(ctx') => Repeats(tree, ctx')
    BY <1>1, FreshRepeats
  <2> QED
    BY <2>1, Zenon DEF CtxRepeats, Stays
<1>4. QED
  BY <1>2, <1>3 DEF Repeating

\* The leader of a new view requests only what was accepted.
LEMMA StartConsensusAgainRepeats ==
    ASSUME IInv, Repeating, NEW v \in Known, StartConsensusAgain(v)
    PROVE  Repeating'
<1>1. Stays /\ Typed /\ Times /\ v \in Value
  BY KnownType DEF IInv, StartConsensusAgain, Stays
<1>2. v \in requested \/ Accepted(tree, v)
  BY <1>1, OthersAccepted DEF Known
<1>3. CASE \E c \in completed : c.value = v
  <2>1. ctx' = Idle /\ requested' = requested \cup {v}
    BY <1>3 DEF StartConsensusAgain, Request
  <2> QED
    BY <1>1, <1>2, <2>1, RestartRepeats DEF Repeating
<1>4. CASE ~\E c \in completed : c.value = v
  <2>1. ctx' = Begin("recheck", v) /\ requested' = requested
    BY <1>4 DEF StartConsensusAgain
  <2>2. Fresh(ctx')
    BY <1>1, <2>1, BeginFresh
  <2> QED
    BY <1>1, <2>1, <2>2, RestartRepeats DEF Repeating
<1>5. QED
  BY <1>3, <1>4

\* A check begins.
LEMMA CheckValueRepeats ==
    ASSUME IInv, Repeating, NEW v \in Known, CheckValue(v)
    PROVE  Repeating'
<1>1. Stays /\ ctx' = Begin("check", v) /\ requested' = requested
  BY DEF CheckValue, Stays
<1>2. v \in Value
  BY KnownType DEF IInv
<1>3. Fresh(ctx')
  BY <1>1, <1>2, BeginFresh
<1>4. QED
  BY <1>1, <1>3, RestartRepeats DEF Repeating

\* A transaction is executed, or the value is rejected.
LEMMA ApplyTxRepeats ==
    ASSUME IInv, Repeating, ApplyTx
    PROVE  Repeating'
<1>1. Running /\ completed' = completed /\ runs' = runs /\ Stays /\ ctx # Idle /\ KeptStep
  BY Zenon DEF ApplyTx, Stays, Running, KeptStep
<1>2. PICK expired \in IF NextTx(ctx) \in Slow THEN BOOLEAN ELSE {FALSE} :
           IF ctx.mode # "propose" /\ ~ValidForApply(tree, ctx.env, NextTx(ctx))
           THEN Reject
           ELSE ctx' = ProposeTx(tree, ctx, expired) /\ UNCHANGED requested
  BY Zenon DEF ApplyTx
<1>3. expired \in BOOLEAN /\ (expired => NextTx(ctx) \in Slow)
  <2>1. CASE NextTx(ctx) \in Slow
    BY <1>2, <2>1, Zenon
  <2>2. CASE NextTx(ctx) \notin Slow
    BY <1>2, <2>2, Zenon
  <2> QED
    BY <2>1, <2>2
<1>4. CASE Reject
  <2>1. Restarts
    BY <1>1, <1>4, RejectStep, Zenon
  <2> QED
    BY <1>1, <2>1, RestartRepeats DEF Restarts, Repeating
<1>5. CASE ctx' = ProposeTx(tree, ctx, expired) /\ requested' = requested
  <2>1. ctx \in Context /\ Bounded(ctx) /\ tree \in Accounts /\ ctx.i <= Len(ctx.value.txs)
    BY <1>1, CtxKinds DEF IInv, CtxSound, Running, Typed
  <2>2. ctx'.value = ctx.value
    BY <1>3, <1>5, <2>1, ProposeTxTurn, ZenonT(30)
  <2>3. Repeats(tree, ctx) => Repeats(tree, ctx')
    BY <1>3, <1>5, <2>1, RepeatsTurn, Zenon
  <2>4. CtxRepeats'
    BY <1>1, <2>2, <2>3, Zenon DEF CtxRepeats, Repeating, Stays
  <2>5. ProposalsAccepted'
    BY <1>1, <1>5, RequestedAccepted DEF Repeating
  <2> QED
    BY <2>4, <2>5 DEF Repeating
<1>6. QED
  BY <1>2, <1>4, <1>5, Zenon

\* The leader requests what it found.
LEMMA FinishProposeRepeats ==
    ASSUME IInv, Repeating, FinishPropose
    PROVE  Repeating'
<1> DEFINE p == ProposalOf(ctx)
<1>1. /\ ctx # Idle /\ ~Running /\ ctx' = Idle /\ Stays /\ requested' = requested \cup {p}
  BY Zenon DEF FinishPropose, Request, Stays
<1>2. Finished(ctx) /\ ctx \in Context /\ Bounded(ctx) /\ tree \in Accounts
  BY <1>1, NotRunning, CtxKinds, Zenon DEF IInv, CtxSound, Typed
<1>3. Repeats(tree, ctx) => Accepted(tree, p)
  BY <1>2, ProposalAccepted
<1>4. p.seq = ctx.value.seq
  BY <1>2, ProposalOfType DEF Proposes
<1> HIDE DEF p
<1>5. p.seq # Len(chain) + 1 \/ Accepted(tree, p)
  BY <1>1, <1>3, <1>4, Zenon DEF Repeating, CtxRepeats
<1>6. QED
  BY <1>1, <1>5, RestartRepeats DEF Repeating

\* The leader of a new view requests what it found correct.
LEMMA FinishCheckRepeats ==
    ASSUME IInv, Repeating, FinishCheck
    PROVE  Repeating'
<1>1. ctx # Idle /\ ~Running /\ ctx.mode # "propose" /\ runs' = runs /\ Stays
  BY Zenon DEF FinishCheck, Stays
<1>2. /\ Finished(ctx) /\ ctx \in Context /\ Bounded(ctx) /\ tree \in Accounts
      /\ ctx.dropped = {}
  BY <1>1, NotRunning, CtxKinds, Zenon DEF IInv, CtxSound, Typed
<1>3. CASE CheckAccepts(ctx)
  <2>1. ctx' = Idle /\ (requested' = requested \/ requested' = requested \cup {ctx.value})
    BY <1>3, Zenon DEF FinishCheck, Request
  <2>2. Clean(ctx)
    BY <1>2, <1>3 DEF Clean
  <2>3. Repeats(tree, ctx) => Accepted(tree, ctx.value)
    BY <1>2, <2>2, CheckedAccepted
  <2>4. ctx.value.seq # Len(chain) + 1 \/ Accepted(tree, ctx.value)
    BY <1>1, <2>3, Zenon DEF Repeating, CtxRepeats
  <2> QED
    BY <1>1, <2>1, <2>4, RestartRepeats DEF Repeating
<1>4. CASE ~CheckAccepts(ctx)
  <2>1. Reject /\ completed' = completed
    BY <1>4, Zenon DEF FinishCheck
  <2>2. KeptStep
    BY <2>1 DEF KeptStep
  <2>3. Restarts
    BY <1>1, <2>1, <2>2, RejectStep, Zenon
  <2> QED
    BY <1>1, <2>3, RestartRepeats DEF Restarts, Repeating
<1>5. QED
  BY <1>3, <1>4

\* A ledger ends what was found and requested for it.
LEMMA CloseLedgerRepeats ==
    ASSUME IInv, NEW v \in Known, CloseLedger(v)
    PROVE  Repeating'
<1>1. /\ v.seq = Len(chain) + 1 /\ ctx' = ctx /\ requested' = {w \in requested : w.seq > v.seq}
  BY Zenon DEF CloseLedger
<1>2. Len(chain) \in Nat /\ Len(chain') = Len(chain) + 1
  <2>1. PICK res : chain' = Append(chain, res)
    BY Zenon DEF CloseLedger
  <2> QED
    BY <2>1 DEF IInv, Typed
<1>3. requested' = {}
  BY <1>1, <1>2 DEF IInv, Times, Typed, Value
<1>4. ctx # Idle => ctx.value.seq \in Nat /\ ctx.value.seq <= Len(chain) + 1
  BY CtxKinds, ContextFields, ValueFields, Zenon DEF IInv, Times
<1>5. ctx' # Idle => ctx'.value.seq # Len(chain') + 1
  BY <1>1, <1>2, <1>4
<1>6. QED
  BY <1>3, <1>5, Zenon DEF Repeating, CtxRepeats, ProposalsAccepted

\* So does every step, unless blocks may take too long: then the lists that a
\* timeout cut short are requested as they are.
LEMMA RepeatingStep ==
    ASSUME IInv, Repeating, ~slow, [Next]_vars
    PROVE  Repeating'
<1>1. ASSUME NEW raw \in RawLists, StartConsensus(raw) PROVE Repeating'
  <2>1. Restarts /\ Stays
    BY <1>1, StartConsensusStep DEF StartConsensus, Stays
  <2> QED
    BY <2>1, RestartRepeats DEF Restarts, Repeating
<1>2. ASSUME NEW v \in Known, StartConsensusAgain(v) \/ CheckValue(v) \/ CloseLedger(v)
      PROVE  Repeating'
  BY <1>2, StartConsensusAgainRepeats, CheckValueRepeats, CloseLedgerRepeats, Zenon
<1>3. ASSUME ApplyTx \/ FinishPropose \/ FinishCheck PROVE Repeating'
  BY <1>3, ApplyTxRepeats, FinishProposeRepeats, FinishCheckRepeats, Zenon
<1>4. ~GiveUp /\ ~BlockTimeout
  BY Zenon DEF GiveUp, BlockTimeout
<1>5. ASSUME UNCHANGED vars PROVE Repeating'
  BY <1>5 DEF vars, Repeating, CtxRepeats, ProposalsAccepted
<1>6. CASE Next
  <2>1. \/ \E raw \in RawLists : StartConsensus(raw)
        \/ \E v \in Known : StartConsensusAgain(v) \/ CheckValue(v) \/ CloseLedger(v)
        \/ ApplyTx \/ FinishPropose \/ FinishCheck
    <3>1. ASSUME NEW v \in IF Len(chain) < MaxLedger THEN requested \cup OthersValues ELSE {}
          PROVE  v \in Known
      BY <3>1, Zenon DEF Known
    <3> QED
      BY <1>4, <1>6, <3>1, Zenon DEF Next
  <2> QED
    BY <1>1, <1>2, <1>3, <2>1, Zenon
<1>7. QED
  BY <1>5, <1>6

-----------------------------------------------------------------------------
(* The chain.                                                              *)

\* The chain is longer by one ledger.
LEMMA ChainGrows ==
    ASSUME Typed, NEW v, Closes(v)
    PROVE  /\ Len(chain) \in Nat /\ Len(chain') = Len(chain) + 1
           /\ chain'[Len(chain) + 1].value = v /\ chain'[Len(chain) + 1].failed = v.error
           /\ \A n \in 1 .. Len(chain) : chain'[n] = chain[n] /\ chain[n] \in Ledger
<1> DEFINE l == [value |-> v, failed |-> v.error]
<1>1. chain \in Seq(Ledger) /\ chain' = Append(chain, l) /\ l.value = v /\ l.failed = v.error
  BY DEF Typed, Closes
<1> HIDE DEF l
<1>2. QED
  BY <1>1

\* A ledger adds its reward to the coins.
LEMMA ConservationStep ==
    ASSUME Typed, Conservation, NEW v, Closes(v)
    PROVE  Conservation'
<1>1. Len(chain) \in Nat /\ Len(chain') = Len(chain) + 1
  BY ChainGrows
<1>2. tree \in Accounts /\ Genesis \in Accounts /\ block_reward \in Nat
  BY ApplyConstants, ExecutionConstants DEF Typed, Accounts
<1>3. Coins(tree) \in Int /\ Coins(Genesis) \in Int
  BY <1>2, CoinsInt
<1>4. Coins(tree') = Coins(tree) + block_reward
  BY DEF Closes, Advances
<1>5. Coins(tree) = Coins(Genesis) + Len(chain) * block_reward
  BY DEF Conservation
<1> DEFINE n == Len(chain)
           b == block_reward
<1>6. n \in Nat /\ b \in Nat
  BY <1>1, <1>2
<1> HIDE DEF n, b
<1>7. (n + 1) * b = n * b + b /\ n * b \in Int
  BY <1>6
<1>8. Coins(tree') = Coins(Genesis) + Len(chain') * block_reward
  BY <1>1, <1>2, <1>3, <1>4, <1>5, <1>7 DEF n, b
<1>9. QED
  BY <1>8 DEF Conservation

\* A place is a ledger and an index in it.
LEMMA PlaceIs ==
    ASSUME NEW l
    PROVE  \A p : p \in PlacesOf(l)
                   <=> \E n \in 1 .. Len(l) : \E j \in 1 .. Len(l[n].value.txs) : p = <<n, j>>
<1>1. ASSUME NEW p \in PlacesOf(l)
      PROVE  \E n \in 1 .. Len(l) : \E j \in 1 .. Len(l[n].value.txs) : p = <<n, j>>
  BY Zenon DEF PlacesOf
<1>2. ASSUME NEW n \in 1 .. Len(l), NEW j \in 1 .. Len(l[n].value.txs)
      PROVE  <<n, j>> \in PlacesOf(l)
  <2> DEFINE S(m) == {<<m, k>> : k \in 1 .. Len(l[m].value.txs)}
  <2>1. <<n, j>> \in S(n)
    BY Zenon
  <2>2. PlacesOf(l) = UNION {S(m) : m \in 1 .. Len(l)}
    BY DEF PlacesOf
  <2> HIDE DEF S
  <2> QED
    BY <2>1, <2>2, Zenon
<1>3. QED
  BY <1>1, <1>2, Zenon

\* The places of the longer chain: those there were, and those of the ledger.
LEMMA PlacesGrow ==
    ASSUME Typed, NEW v, Closes(v)
    PROVE  LET N == Len(chain) + 1
               m == Len(v.txs)
           IN  /\ \A p \in Places' : p \in Places \/ \E j \in 1 .. m : p = <<N, j>>
               /\ \A p \in Places : p \in Places'
               /\ \A j \in 1 .. m : <<N, j>> \in Places'
<1> DEFINE N == Len(chain) + 1
           m == Len(v.txs)
<1>1. /\ Len(chain) \in Nat /\ Len(chain') = N /\ chain'[N].value = v
      /\ \A n \in 1 .. Len(chain) : chain'[n] = chain[n]
  BY ChainGrows
<1>2. \A p : p \in Places <=> \E n \in 1 .. Len(chain) : \E j \in 1 .. Len(chain[n].value.txs) : p = <<n, j>>
  BY PlaceIs DEF Places, PlacesOf
<1>3. \A p : p \in Places' <=> \E n \in 1 .. Len(chain') : \E j \in 1 .. Len(chain'[n].value.txs) : p = <<n, j>>
  <2>1. Places' = PlacesOf(chain')
    BY DEF Places, PlacesOf
  <2> QED
    BY <2>1, PlaceIs
<1>4. ASSUME NEW p \in Places' PROVE p \in Places \/ \E j \in 1 .. m : p = <<N, j>>
  <2>10. PICK n \in 1 .. Len(chain') : \E j \in 1 .. Len(chain'[n].value.txs) : p = <<n, j>>
    BY <1>3, Zenon
  <2>1. PICK j \in 1 .. Len(chain'[n].value.txs) : p = <<n, j>>
    BY <2>10, Zenon
  <2>2. n = N \/ n \in 1 .. Len(chain)
    BY <1>1
  <2>3. CASE n = N
    BY <1>1, <2>1, <2>3, Zenon
  <2>4. CASE n \in 1 .. Len(chain)
    <3>1. chain'[n] = chain[n]
      BY <1>1, <2>4
    <3> QED
      BY <1>2, <2>1, <2>4, <3>1, Zenon
  <2> QED
    BY <2>2, <2>3, <2>4
<1>5. ASSUME NEW p \in Places PROVE p \in Places'
  <2>10. PICK n \in 1 .. Len(chain) : \E j \in 1 .. Len(chain[n].value.txs) : p = <<n, j>>
    BY <1>2, Zenon
  <2>1. PICK j \in 1 .. Len(chain[n].value.txs) : p = <<n, j>>
    BY <2>10, Zenon
  <2>2. n \in 1 .. Len(chain') /\ chain'[n] = chain[n]
    BY <1>1
  <2> QED
    BY <1>3, <2>1, <2>2, Zenon
<1>6. ASSUME NEW j \in 1 .. m PROVE <<N, j>> \in Places'
  <2>1. N \in 1 .. Len(chain')
    BY <1>1
  <2> QED
    BY <1>1, <1>3, <2>1, Zenon
<1>7. QED
  BY <1>4, <1>5, <1>6

\* What stands at the places.
LEMMA PlacesHold ==
    ASSUME Typed, NEW p \in Places
    PROVE  /\ p[1] \in 1 .. Len(chain) /\ p[2] \in Nat
           /\ At(p).source \in Account /\ At(p).nonce \in Nat
<1>10. PICK n \in 1 .. Len(chain) : \E j \in 1 .. Len(chain[n].value.txs) : p = <<n, j>>
  BY Zenon DEF Places
<1>1. PICK j \in 1 .. Len(chain[n].value.txs) : p = <<n, j>>
  BY <1>10, Zenon
<1>2. p[1] = n /\ p[2] = j
  BY <1>1
<1>3. chain[n].value \in Value
  <2>1. chain[n] \in Ledger
    BY DEF Typed
  <2> QED
    BY <2>1 DEF Ledger
<1>4. chain[n].value.txs[j] \in Tx /\ Len(chain[n].value.txs) \in Nat
  BY <1>3, ValueFields
<1>5. tx[chain[n].value.txs[j]].source \in Account /\ tx[chain[n].value.txs[j]].nonce \in Nat
  BY <1>4, TxType, Zenon
<1>6. QED
  BY <1>2, <1>4, <1>5, SMTT(30), Z3T(30) DEF At

\* Two different places come one before the other.
LEMMA PlacesTotal ==
    ASSUME Typed, NEW p \in Places, NEW q \in Places
    PROVE  p = q \/ Before(p, q) \/ Before(q, p)
<1>10. PICK n \in 1 .. Len(chain) : \E j \in 1 .. Len(chain[n].value.txs) : p = <<n, j>>
  BY Zenon DEF Places
<1>1. PICK j \in 1 .. Len(chain[n].value.txs) : p = <<n, j>>
  BY <1>10, Zenon
<1>20. PICK m \in 1 .. Len(chain) : \E k \in 1 .. Len(chain[m].value.txs) : q = <<m, k>>
  BY Zenon DEF Places
<1>2. PICK k \in 1 .. Len(chain[m].value.txs) : q = <<m, k>>
  BY <1>20, Zenon
<1>3. p[1] \in 1 .. Len(chain) /\ p[2] \in Nat /\ q[1] \in 1 .. Len(chain) /\ q[2] \in Nat
  BY PlacesHold
<1>4. p[1] = q[1] /\ p[2] = q[2] => p = q
  BY <1>1, <1>2
<1>5. QED
  BY <1>3, <1>4 DEF Before

\* The transactions of the ledger continue the order.
LEMMA OrderedStep ==
    ASSUME Typed, Typed', Ordered, NEW v, Closes(v)
    PROVE  Ordered'
<1> DEFINE N == Len(chain) + 1
           m == Len(v.txs)
           P == Places
           Q == Places'
           Src(p) == At(p).source
           Nonce(p) == At(p).nonce
           Src1(p) == AtIn(chain', p).source
           Nonce1(p) == AtIn(chain', p).nonce
           s(j) == tx[v.txs[j]].source
           o(j) == tx[v.txs[j]].nonce
           First(a) == FirstNonce(Genesis[a])
           Was(a) == FirstNonce(tree[a])
           Is(a) == FirstNonce(tree'[a])
           Earlier(p, q) == Before(p, q)
<1>1. /\ Len(chain) \in Nat /\ m \in Nat /\ v \in Value /\ chain'[N].value = v
      /\ \A n \in 1 .. Len(chain) : chain'[n] = chain[n]
  BY ChainGrows, ValueFields, Zenon DEF Closes
<1>2. /\ \A p \in Q : p \in P \/ \E j \in 1 .. m : p = <<N, j>>
      /\ \A p \in P : p \in Q
      /\ \A j \in 1 .. m : <<N, j>> \in Q
  BY PlacesGrow
<1>3. \A p \in P : /\ p[1] \in 1 .. Len(chain) /\ p[2] \in Nat
                   /\ Src(p) \in Account /\ Nonce(p) \in Nat
  BY PlacesHold
<1>4. \A p \in P : Src1(p) = Src(p) /\ Nonce1(p) = Nonce(p)
  <2> TAKE p \in P
  <2>1. chain'[p[1]] = chain[p[1]]
    BY <1>1, <1>3
  <2>2. AtIn(chain', p) = At(p)
    BY <2>1, Zenon DEF AtIn, At
  <2> QED
    BY <2>2, Zenon
<1>5. \A j \in 1 .. m : Src1(<<N, j>>) = s(j) /\ Nonce1(<<N, j>>) = o(j)
  <2> TAKE j \in 1 .. m
  <2>1. <<N, j>>[1] = N /\ <<N, j>>[2] = j
    OBVIOUS
  <2> DEFINE p == <<N, j>>
  <2> HIDE DEF p
  <2>2. AtIn(chain', p) = tx[v.txs[j]]
    BY <1>1, <2>1, Zenon DEF AtIn, p
  <2> QED
    BY <2>2, Zenon DEF p
<1>6. \A j \in 1 .. m : s(j) \in Account /\ o(j) \in Nat
  BY <1>1, ValueFields, TxType, Zenon
<1>7. tree \in Accounts /\ tree' \in Accounts /\ Genesis \in Accounts
  BY ApplyConstants DEF Typed, Accounts
<1>8. \A a \in Account : First(a) \in Nat /\ Was(a) \in Nat /\ Is(a) \in Nat
  BY <1>7, FirstNonceNat
<1>9. /\ \A a \in Account : First(a) <= Was(a) /\ Was(a) <= Is(a)
      /\ Grown(Genesis, tree')
  <2>1. Grown(Genesis, tree) /\ Grown(tree, tree')
    BY Zenon DEF Ordered, Closes, Advances
  <2>2. \A a \in Account : First(a) <= Was(a) /\ Was(a) <= Is(a)
    BY <2>1 DEF Grown
  <2>3. \A a \in Account : First(a) <= Is(a)
    BY <1>8, <2>2
  <2> QED
    BY <2>1, <2>2, <2>3 DEF Grown
<1>10. InOrder(tree, tree', v.txs, m)
  BY DEF Closes
<1>11. \A p, q \in P : Earlier(p, q) <=> (p[1] < q[1] \/ (p[1] = q[1] /\ p[2] < q[2]))
  BY DEF Before
<1>12. \A p \in Q, j \in 1 .. m : ~Earlier(<<N, j>>, p) \/ p \notin P
  BY <1>1, <1>3 DEF Before
<1>13. \A i, j \in 1 .. m : Earlier(<<N, i>>, <<N, j>>) => i < j
  BY <1>1 DEF Before
<1> HIDE DEF P, Q, Src, Nonce, Src1, Nonce1, s, o, First, Was, Is, Earlier
<1>14. /\ \A p \in P : First(Src(p)) < Nonce(p) /\ Nonce(p) <= Was(Src(p))
       /\ \A p, q \in P : Earlier(p, q) /\ Src(q) = Src(p) => Nonce(p) < Nonce(q)
       /\ \A a \in Account : \A k \in First(a) + 1 .. Was(a) : \E p \in P : Src(p) = a /\ Nonce(p) = k
  BY Zenon DEF Ordered, P, Src, Nonce, First, Was, Earlier
<1>15. /\ \A j \in 1 .. m : Was(s(j)) < o(j) /\ o(j) <= Is(s(j))
       /\ \A i, j \in 1 .. m : i < j /\ s(i) = s(j) => o(i) < o(j)
       /\ \A a \in Account : \A k \in Was(a) + 1 .. Is(a) : \E j \in 1 .. m : s(j) = a /\ o(j) = k
  BY <1>10, Zenon DEF InOrder, s, o, Was, Is
<1>16. ASSUME NEW p \in Q PROVE First(Src1(p)) < Nonce1(p) /\ Nonce1(p) <= Is(Src1(p))
  <2>1. CASE p \in P
    <3>1. /\ Src1(p) = Src(p) /\ Nonce1(p) = Nonce(p) /\ Src(p) \in Account /\ Nonce(p) \in Nat
          /\ First(Src(p)) < Nonce(p) /\ Nonce(p) <= Was(Src(p))
      BY <1>3, <1>4, <1>14, <2>1
    <3> QED
      BY <1>8, <1>9, <3>1
  <2>2. CASE \E j \in 1 .. m : p = <<N, j>>
    <3>1. PICK j \in 1 .. m : p = <<N, j>>
      BY <2>2
    <3>2. Src1(p) = s(j) /\ Nonce1(p) = o(j)
      BY <1>5, <3>1, Zenon
    <3>3. Was(s(j)) < o(j) /\ o(j) <= Is(s(j)) /\ s(j) \in Account /\ o(j) \in Nat
      BY <1>6, <1>15
    <3> QED
      BY <1>8, <1>9, <3>2, <3>3
  <2> QED
    BY <1>2, <2>1, <2>2, Zenon
<1>17. ASSUME NEW p \in Q, NEW q \in Q, Earlier(p, q), Src1(q) = Src1(p)
       PROVE  Nonce1(p) < Nonce1(q)
  <2>1. CASE p \in P /\ q \in P
    BY <1>4, <1>14, <1>17, <2>1
  <2>2. CASE p \in P /\ \E j \in 1 .. m : q = <<N, j>>
    <3>1. PICK j \in 1 .. m : q = <<N, j>>
      BY <2>2
    <3>2. Src1(q) = s(j) /\ Nonce1(q) = o(j)
      BY <1>5, <3>1, Zenon
    <3>3. Was(s(j)) < o(j) /\ s(j) \in Account /\ o(j) \in Nat
      BY <1>6, <1>15
    <3>4. Src1(p) = Src(p) /\ Nonce1(p) = Nonce(p) /\ Nonce(p) <= Was(Src(p)) /\ Nonce(p) \in Nat
      BY <1>3, <1>4, <1>14, <2>2
    <3>5. Src(p) = s(j) /\ Was(s(j)) \in Nat
      BY <1>8, <1>17, <3>2, <3>3, <3>4, Zenon
    <3> QED
      BY <3>2, <3>3, <3>4, <3>5
  <2>3. CASE q \in P /\ \E j \in 1 .. m : p = <<N, j>>
    BY <1>12, <1>17, <2>3, Zenon
  <2>4. CASE (\E j \in 1 .. m : p = <<N, j>>) /\ \E j \in 1 .. m : q = <<N, j>>
    <3>1. PICK i \in 1 .. m : p = <<N, i>>
      BY <2>4
    <3>2. PICK j \in 1 .. m : q = <<N, j>>
      BY <2>4
    <3>3. Src1(p) = s(i) /\ Nonce1(p) = o(i) /\ Src1(q) = s(j) /\ Nonce1(q) = o(j)
      BY <1>5, <3>1, <3>2, Zenon
    <3>4. i < j
      BY <1>13, <1>17, <3>1, <3>2, Zenon
    <3> QED
      BY <1>15, <1>17, <3>3, <3>4, Zenon
  <2> QED
    BY <1>2, <2>1, <2>2, <2>3, <2>4, Zenon
<1>18. ASSUME NEW a \in Account, NEW k \in First(a) + 1 .. Is(a)
       PROVE  \E p \in Q : Src1(p) = a /\ Nonce1(p) = k
  <2>1. k \in First(a) + 1 .. Was(a) \/ k \in Was(a) + 1 .. Is(a)
    BY <1>8, <1>18
  <2>2. CASE k \in First(a) + 1 .. Was(a)
    <3>1. PICK p \in P : Src(p) = a /\ Nonce(p) = k
      BY <1>14, <2>2
    <3> QED
      BY <1>2, <1>4, <3>1, Zenon
  <2>3. CASE k \in Was(a) + 1 .. Is(a)
    <3>1. PICK j \in 1 .. m : s(j) = a /\ o(j) = k
      BY <1>15, <2>3
    <3> QED
      BY <1>2, <1>5, <3>1, Zenon
  <2> QED
    BY <2>1, <2>2, <2>3
<1>19. QED
  BY <1>9, <1>16, <1>17, <1>18, Zenon
     DEF Ordered, Q, Src1, Nonce1, First, Is, Earlier, At, AtIn, Before

\* In an ordered chain no nonce is missing before a transaction.
LEMMA OrderedOnce ==
    ASSUME Typed, Ordered
    PROVE  AppliedOnce
<1>1. ASSUME NEW p \in Places, NEW k \in FirstNonce(Genesis[At(p).source]) + 1 .. At(p).nonce - 1
      PROVE  \E q \in Places : Before(q, p) /\ At(q).source = At(p).source /\ At(q).nonce = k
  <2> DEFINE a == At(p).source
             n == At(p).nonce
  <2>1. a \in Account /\ n \in Nat /\ tree \in Accounts /\ Genesis \in Accounts
    BY PlacesHold, ApplyConstants DEF Typed, Accounts
  <2>2. FirstNonce(tree[a]) \in Nat /\ FirstNonce(Genesis[a]) \in Nat
    BY <2>1, FirstNonceNat
  <2>3. n <= FirstNonce(tree[a])
    BY Zenon DEF Ordered
  <2> HIDE DEF a, n
  <2>4. k \in FirstNonce(Genesis[a]) + 1 .. FirstNonce(tree[a]) /\ k < n /\ k \in Nat
    BY <1>1, <2>1, <2>2, <2>3 DEF a, n
  <2>5. PICK q \in Places : At(q).source = a /\ At(q).nonce = k
    BY <2>1, <2>4, Zenon DEF Ordered
  <2>6. p # q
    BY <2>4, <2>5 DEF n
  <2>7. ~Before(p, q)
    <3>1. Before(p, q) => n < k
      BY <2>5, Zenon DEF Ordered, a, n
    <3> QED
      BY <2>1, <2>4, <3>1
  <2>8. Before(q, p)
    BY <2>6, <2>7, PlacesTotal, Zenon
  <2> QED
    BY <2>5, <2>8, Zenon DEF a
<1>2. QED
  BY <1>1, Zenon DEF AppliedOnce, Ordered

\* What a node that only follows finds on the longer chain.
LEMMA FollowedGrows ==
    ASSUME Typed, NEW v, Closes(v)
    PROVE  LET last == Followed(chain)[Len(chain)]
           IN  Followed(chain')[Len(chain')] = View(last, ApplyFollow(last, v).env)
<1> DEFINE N == Len(chain)
           f == Followed(chain)
           g == Followed(chain')
           Good == {n \in Nat : n <= N => g[n] = f[n]}
<1>1. /\ N \in Nat /\ Len(chain') = N + 1 /\ chain'[N + 1].value = v
      /\ \A n \in 1 .. N : chain'[n] = chain[n]
  BY ChainGrows
<1>2. /\ f[0] = Genesis
      /\ \A i \in 1 .. N : f[i] = View(f[i - 1], ApplyFollow(f[i - 1], chain[i].value).env)
  BY <1>1, FollowedAre, Zenon
<1>3. /\ g[0] = Genesis
      /\ \A i \in 1 .. N + 1 : g[i] = View(g[i - 1], ApplyFollow(g[i - 1], chain'[i].value).env)
  <2>1. Len(chain') \in Nat
    BY <1>1
  <2> QED
    BY <1>1, <2>1, FollowedAre
<1> HIDE DEF N, f, g
<1>4. 0 \in Good
  BY <1>2, <1>3
<1>5. ASSUME NEW n \in Nat, n \in Good PROVE n + 1 \in Good
  <2> SUFFICES ASSUME n + 1 <= N PROVE g[n + 1] = f[n + 1]
    OBVIOUS
  <2>1. n + 1 \in 1 .. N /\ n + 1 \in 1 .. N + 1 /\ (n + 1) - 1 = n /\ g[n] = f[n]
    BY <1>1, <1>5
  <2>2. chain'[n + 1] = chain[n + 1]
    BY <1>1, <2>1
  <2>3. /\ f[n + 1] = View(f[n], ApplyFollow(f[n], chain[n + 1].value).env)
        /\ g[n + 1] = View(g[n], ApplyFollow(g[n], chain'[n + 1].value).env)
    BY <1>2, <1>3, <2>1
  <2> QED
    BY <2>1, <2>2, <2>3, Zenon
<1>6. \A n \in Nat : n \in Good
  <2> HIDE DEF Good
  <2> QED
    BY <1>4, <1>5, SetInduction
<1>7. g[N] = f[N]
  BY <1>1, <1>6
<1>8. N + 1 \in 1 .. N + 1 /\ (N + 1) - 1 = N
  BY <1>1
<1>9. g[N + 1] = View(g[N], ApplyFollow(g[N], chain'[N + 1].value).env)
  BY <1>3, <1>8
<1>10. QED
  BY <1>1, <1>7, <1>9, Zenon DEF N, f, g

\* The step for the accounts of a node that follows.
LEMMA ClosesAsFollowedStep ==
    ASSUME Typed, ClosesAsFollowed, slow' = slow, NEW v, Closes(v)
    PROVE  ClosesAsFollowed'
<1> SUFFICES ASSUME ~slow PROVE tree' = Followed(chain')[Len(chain')]
  BY DEF ClosesAsFollowed
<1>1. tree = Followed(chain)[Len(chain)]
  BY DEF ClosesAsFollowed
<1>2. tree' = View(tree, ApplyFollow(tree, v).env)
  BY DEF Closes
<1>3. QED
  BY <1>1, <1>2, FollowedGrows, Zenon

\* The step for the transactions that fail.
LEMMA FollowAgreesStep ==
    ASSUME Typed, FollowAgrees, NEW v, Closes(v)
    PROVE  FollowAgrees'
<1> SUFFICES ASSUME NEW n \in 1 .. Len(chain')
             PROVE  chain'[n].failed = chain'[n].value.error
  BY DEF FollowAgrees
<1>1. /\ Len(chain) \in Nat /\ Len(chain') = Len(chain) + 1
      /\ chain'[Len(chain) + 1].value = v /\ chain'[Len(chain) + 1].failed = v.error
      /\ \A m \in 1 .. Len(chain) : chain'[m] = chain[m]
  BY ChainGrows
<1>2. CASE n = Len(chain) + 1
  BY <1>1, <1>2
<1>3. CASE n # Len(chain) + 1
  <2>1. n \in 1 .. Len(chain) /\ chain'[n] = chain[n]
    BY <1>1, <1>3, SMTT(30), Z3T(30)
  <2> QED
    BY <2>1 DEF FollowAgrees
<1>4. QED
  BY <1>2, <1>3

\* The step for the reserves.
LEMMA ReserveKeptStep ==
    ASSUME RewardsOpen, Typed, Ordered, ReserveKept, NEW v, Closes(v)
    PROVE  ReserveKept'
<1> DEFINE share == block_reward \div Len(Rewarded)
<1>1. Reserved(tree) /\ Grown(Genesis, tree) /\ RewardsSuffice(Genesis, share)
  BY Zenon DEF ReserveKept, Reserved, Ordered, RewardsOpen
<1>2. \A j \in 1 .. Len(Rewarded) : Rewarded[j] \in Account
  BY ExecutionConstants
<1> HIDE DEF share
<1>3. RewardsSuffice(tree, share)
  BY <1>1, <1>2 DEF RewardsSuffice, Grown
<1>4. Reserved(tree')
  BY <1>1, <1>3, Zenon DEF Closes, Advances, share
<1>5. QED
  BY <1>4, Zenon DEF Reserved, ReserveKept

-----------------------------------------------------------------------------
(* The theorems.                                                           *)

\* Nothing has been executed at the start.
LEMMA InitIInv == Init => IInv
<1> SUFFICES ASSUME Init PROVE IInv
  OBVIOUS
<1>1. /\ tree = Genesis /\ chain = <<>> /\ ctx = Idle /\ completed = {} /\ requested = {}
      /\ runs = 0 /\ slow \in Loads
  BY DEF Init
<1>2. Typed
  BY <1>1, ApplyConstants DEF Typed, Accounts
<1>3. ctx.mode = "idle"
  BY <1>1 DEF Idle
<1>4. Times
  BY <1>1, <1>3 DEF Times
<1>5. CtxSound /\ KeptSound
  BY <1>1, Zenon DEF CtxSound, KeptSound
<1>6. QED
  BY <1>2, <1>4, <1>5 DEF IInv

\* A value that is closed is one that another validator accepts: it has a vote,
\* or nothing that took too long was requested.
LEMMA ClosedAccepted ==
    ASSUME IInv, Checked \/ (~slow /\ ProposalsAccepted)
    PROVE  \A v \in Known : CloseLedger(v) => Accepted(tree, v)
<1> SUFFICES ASSUME NEW v \in Known, CloseLedger(v) PROVE Accepted(tree, v)
  OBVIOUS
<1>1. v.seq = Len(chain) + 1 /\ (Checked => Accepted(tree, v))
  BY Zenon DEF CloseLedger, Accepted
<1>2. CASE v \in requested /\ ~slow /\ ProposalsAccepted
  BY <1>1, <1>2 DEF ProposalsAccepted, Accepted
<1>3. CASE v \in OthersValues
  BY <1>3, OthersAccepted DEF IInv
<1>4. QED
  BY <1>1, <1>2, <1>3 DEF Known

\* The empty chain.
LEMMA InitSane == Init => Sane
<1> SUFFICES ASSUME Init PROVE Sane
  OBVIOUS
<1>1. IInv /\ Typed
  BY InitIInv DEF IInv
<1>2. tree = Genesis /\ chain = <<>> /\ ctx = Idle /\ requested = {} /\ Len(chain) = 0
  BY DEF Init
<1>3. tree \in Accounts /\ block_reward \in Nat
  BY <1>1, ExecutionConstants DEF Typed
<1>4. Conservation
  <2>1. Coins(tree) \in Int
    BY <1>3, CoinsInt
  <2> QED
    BY <1>2, <1>3, <2>1 DEF Conservation
<1>5. FollowAgrees
  BY <1>2 DEF FollowAgrees
<1>6. ClosesAsFollowed
  <2>1. Len(chain) \in Nat
    BY <1>2
  <2>2. Followed(chain)[0] = Genesis
    BY <2>1, FollowedAre
  <2> QED
    BY <1>2, <2>2 DEF ClosesAsFollowed
<1>7. Ordered
  <2>1. \A a \in Account : FirstNonce(Genesis[a]) \in Nat
    BY <1>2, <1>3, FirstNonceNat
  <2>2. Grown(Genesis, tree)
    BY <1>2, <2>1 DEF Grown
  <2>3. Places = {}
    BY <1>2 DEF Places
  <2>4. \A a \in Account : FirstNonce(Genesis[a]) + 1 .. FirstNonce(tree[a]) = {}
    BY <1>2, <2>1
  <2> QED
    BY <2>2, <2>3, <2>4, Zenon DEF Ordered
<1>8. Repeating
  BY <1>2 DEF Repeating, CtxRepeats, ProposalsAccepted
<1>9. QED
  BY <1>1, <1>4, <1>5, <1>6, <1>7, <1>8 DEF Sane, ChainSound

\* Whether blocks may take too long does not change.
LEMMA SlowStays == [Next]_vars => slow' = slow
BY Zenon DEF Next, vars, StartConsensus, StartConsensusAgain, CheckValue, CloseLedger, ApplyTx,
       FinishPropose, FinishCheck, GiveUp, BlockTimeout

\* Every step preserves the invariant.
LEMMA SaneStep == Sane /\ [Next]_vars => Sane'
<1> SUFFICES ASSUME Sane, [Next]_vars, Calm'
             PROVE  IInv' /\ ChainSound' /\ (~slow' => Repeating')
  BY DEF Sane
<1>1. slow' = slow
  BY SlowStays
<1>2. Calm
  BY <1>1 DEF Calm
<1>3. IInv /\ ChainSound /\ (~slow => Repeating)
  BY <1>2 DEF Sane
<1>4. \A v \in Known : CloseLedger(v) => Accepted(tree, v)
  BY <1>2, <1>3, ClosedAccepted DEF Repeating, Calm
<1>5. IInv' /\ ((tree' = tree /\ chain' = chain) \/ \E v \in Known : Closes(v))
  BY <1>3, <1>4, NextStep
<1>6. Typed /\ Typed'
  BY <1>3, <1>5 DEF IInv
<1>7. ~slow' => Repeating'
  BY <1>1, <1>3, RepeatingStep
<1>8. CASE tree' = tree /\ chain' = chain
  <2>1. Conservation' /\ FollowAgrees' /\ ClosesAsFollowed'
    BY <1>1, <1>3, <1>8 DEF ChainSound, Conservation, FollowAgrees, ClosesAsFollowed
  <2>2. Ordered'
    <3>1. OrderedIn(tree, chain)
      BY <1>3, Zenon DEF ChainSound, Ordered, OrderedIn, Places, PlacesOf, At, AtIn
    <3>2. OrderedIn(tree', chain')
      BY <1>8, <3>1, Zenon
    <3> QED
      BY <3>2, Zenon DEF Ordered, OrderedIn, Places, PlacesOf, At, AtIn, Before
  <2> QED
    BY <1>5, <1>7, <2>1, <2>2 DEF ChainSound
<1>9. CASE \E v \in Known : Closes(v)
  <2>1. PICK v \in Known : Closes(v)
    BY <1>9
  <2>2. Conservation'
    BY <1>3, <1>6, <2>1, ConservationStep DEF ChainSound
  <2>3. FollowAgrees'
    BY <1>3, <1>6, <2>1, FollowAgreesStep DEF ChainSound
  <2>4. ClosesAsFollowed'
    BY <1>1, <1>3, <1>6, <2>1, ClosesAsFollowedStep DEF ChainSound
  <2>5. Ordered'
    BY <1>3, <1>6, <2>1, OrderedStep DEF ChainSound
  <2> QED
    BY <1>5, <1>7, <2>2, <2>3, <2>4, <2>5 DEF ChainSound
<1>10. QED
  BY <1>5, <1>8, <1>9

\* The invariant holds: what was kept for the next ledger was executed on the
\* last one, whatever the threads and the ledgers received did meanwhile.
THEOREM ExecutionsSound == Spec => []Sane
BY InitSane, SaneStep, PTL DEF Spec

\* Where blocks do not take too long, every value that this node requests for the
\* next ledger is one that a node which checks it accepts: what ApplyPropose
\* found, with the dropped transactions taken out, ApplyCheck finds again.
THEOREM RequestsAreAccepted == Spec => []ProposalsAccepted
<1>1. Sane => ProposalsAccepted
  BY DEF Sane, Calm, Repeating, ProposalsAccepted
<1>2. QED
  BY <1>1, ExecutionsSound, PTL

\* There, a node that pre-executes values and keeps the results has the accounts
\* of a node that only follows the ledgers.
THEOREM PreExecutionIsFollowing == Spec => []ClosesAsFollowed
<1>1. Sane => ClosesAsFollowed
  BY DEF Sane, Calm, ChainSound, ClosesAsFollowed
<1>2. QED
  BY <1>1, ExecutionsSound, PTL

\* It stays so.
LEMMA GuardedAlways ==
    ASSUME Guarded
    PROVE  Spec => []Calm
<1>1. Init => Calm
  BY Zenon DEF Init, Guarded, Calm
<1>2. Calm /\ [Next]_vars => Calm'
  BY SlowStays DEF Calm
<1>3. QED
  BY <1>1, <1>2, PTL DEF Spec

\* Executing ledgers makes no coins but the block rewards, and destroys none.
THEOREM CoinsAreConserved ==
    ASSUME Guarded
    PROVE  Spec => []Conservation
<1>1. Sane /\ Calm => Conservation
  BY DEF Sane, ChainSound
<1>2. QED
  BY <1>1, ExecutionsSound, GuardedAlways, PTL

\* The transactions that fail when a ledger is closed are those its value names.
THEOREM ValuesSayWhatFails ==
    ASSUME Guarded
    PROVE  Spec => []FollowAgrees
<1>1. Sane /\ Calm => FollowAgrees
  BY DEF Sane, ChainSound
<1>2. QED
  BY <1>1, ExecutionsSound, GuardedAlways, PTL

\* The transactions of an account are applied in the order of their nonces,
\* none twice and none left out.
THEOREM TransactionsApplyOnce ==
    ASSUME Guarded
    PROVE  Spec => []AppliedOnce
<1>1. Sane /\ Calm => AppliedOnce
  BY OrderedOnce DEF Sane, ChainSound, IInv
<1>2. QED
  BY <1>1, ExecutionsSound, GuardedAlways, PTL

\* No account falls below its reserve, if none is below it at the start and the
\* rewards do not open accounts below it.
THEOREM ReservesAreKept ==
    ASSUME Guarded, RewardsOpen
    PROVE  Spec => []ReserveKept
<1>1. Init => ReserveKept
  BY DEF Init, ReserveKept, RewardsOpen, Reserved
<1>2. Sane /\ Calm /\ ReserveKept /\ [Next]_vars => ReserveKept'
  <2> SUFFICES ASSUME Sane, Calm, ReserveKept, [Next]_vars PROVE ReserveKept'
    OBVIOUS
  <2>1. IInv /\ ChainSound /\ (~slow => Repeating) /\ Typed
    BY DEF Sane, IInv
  <2>2. \A v \in Known : CloseLedger(v) => Accepted(tree, v)
    BY <2>1, ClosedAccepted DEF Repeating, Calm
  <2>3. (tree' = tree /\ chain' = chain) \/ \E v \in Known : Closes(v)
    BY <2>1, <2>2, NextStep
  <2>4. CASE tree' = tree
    BY <2>4 DEF ReserveKept
  <2>5. CASE \E v \in Known : Closes(v)
    BY <2>1, <2>5, ReserveKeptStep DEF ChainSound
  <2> QED
    BY <2>3, <2>4, <2>5
<1>3. QED
  BY <1>1, <1>2, ExecutionsSound, GuardedAlways, PTL DEF Spec
=============================================================================

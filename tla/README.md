# Verification of the openSesame node

TLA+ models of the node's consensus and ledger code, model-checked with TLC, and
proofs about them checked with TLAPS. Paths below are relative to `src/`.

## The system

A node takes transactions into a pool (`glue/transaction_queue.cpp`). The leader
of the current view takes the best ones out, executes them on a thread of its own
and proposes a consensus value (`glue/glue_manager.cpp`,
`ledger/ledgercontext_manager.cpp`). The validators agree on it with PBFT
(`consensus/bft.cpp`), each after executing it. A committed value closes a ledger
on every node (`ledger/ledger_manager.cpp`): the result of an earlier execution is
taken over or the transactions are executed now, in nested buffers
(`utils/atom_map.h`, `ledger/environment.cpp`); the accounts go into a Merkle
trie (`ledger/trie.cpp`) whose root hash is in the header; two databases are
written. Nodes that fall behind fetch ledgers from their peers. Messages flood the
peer-to-peer network (`overlay/broadcast.cpp`), over which validators also
announce that they run a newer program (`glue/ledger_upgrade.cpp`); enough
announcements raise the version of the ledger.

## Modules

| Module | Models | State | Actions |
|---|---|---|---|
| `Pbft` | `consensus/bft.cpp`, `bft_instance.cpp`, the glue around them | views, instances, posted tasks, ledgers, proofs, saved view, all messages sent | `StartConsensus`, `OnRecv` (pre-prepare, prepare, commit, trace-out, new view), `ExecuteValue`, `ExecuteDone`, `RunPosted`, `SyncLedger`, `OnTxTimeout`, `OnViewChange`, `NewViewTimeout`, `Restart` |
| `TransactionQueue` | `glue/transaction_queue.cpp` and its four users | the four indexes, imports under way, what the main thread holds | `CheckValid`, `Import`, `StartConsensus`, `Propose`, `OnConsent`, `OnValueCommited`, `OnTimer`, `SyncClose` |
| `LedgerExecution` | `ledger_frm.cpp`, `transaction_frm.cpp`, `PayCoin` | none: the execution of a value as operators | `ProposeTx`, `FollowTx`, `CheckAccepts`, `AllocateReward` and `ApplyFollow`, as functions of a context |
| `LedgerApply` | `ledgercontext_manager.cpp`, the retries in the glue, closing, over `LedgerExecution` | accounts, chain, running and kept contexts | `StartConsensus`, `StartConsensusAgain`, `CheckValue`, `ApplyTx`, `FinishPropose`, `FinishCheck`, `GiveUp`, `BlockTimeout`, `CloseLedger` |
| `AtomMap` | `utils/atom_map.h`, `ledger/environment.cpp` | records, the objects they point at, open buffers | `GetEntry`, `ChangeEntry`, `AddEntry`, `Del`, `Commit`, `ClearChangeBuf`, `NewStackFrameEnv`, `DropFrame` |
| `TransactionalMap` | nothing: what an environment promises | a map, and the map it started from | the abstract specification that `AtomMap` implements |
| `Trie` | `ledger/trie.cpp`, `ledger/kv_trie.cpp` | nodes in memory, database, batch | `Set`, `Delete`, `Get`, `UpdateHash`, `WriteBatch`, `FreeMemory`, `Reopen` |
| `LedgerStore` | closing and starting in `ledger/ledger_manager.cpp` | both databases, the process's memory | `Initialize`, `CreateGenesisAccount`, `GenesisWritten`, `CloseLedger`, `AddToDb`, `WriteBatch`, `Crash` |
| `LedgerSync` | synchronisation in `ledger/ledger_manager.cpp` | the expected ranges, probations, requests and answers on their way | `OnTimer`, `Ask`, `OnReceiveLedgers`, `FollowUp`, `OnRequestLedgers`, `OnConsent`, `PeerCloses`, `UpdateDue`, `ProbationOver`, `Reconnect` |
| `Broadcast` | `overlay/broadcast.cpp` | records of messages seen, copies on their way | `Add`, `Send`, `OnTimerBroadcast`, `Disconnected` |
| `LedgerUpgrade` | `glue/ledger_upgrade.cpp` and its callers, over `Broadcast` | programs, announcements, proposal, chain of versions | `OnTimer`, `OnMethodLedgerUpNotify`, `StartConsensus`, `Decide`, `CloseLedger`, `LedgerHasUpgrade`, `Restart`, `FaultyAnnounce`, `FaultyPropose`, `OnTimerPeers` |

`MC*` modules give the constants their values for TLC; `*Proofs` modules hold
theorems. `PbftInv`, `LedgerExecutionTerms` and `LedgerApplyInv` define the
inductive invariants of the larger proofs. `PROJECT.json` maps every definition to
the lines it stands for.

### How the code is abstracted

* A handler that holds its lock, or runs on the main thread, is one step. Where a
  lock is released in between, or another thread can come in, it is several:
  `TryExecuteValue` (`Pbft`), an import (`TransactionQueue`), `OnTimer` and
  `OnReceiveLedgers` (`LedgerSync`), a pre-execution, one step per transaction
  (`LedgerApply`), the writes of a closing (`LedgerStore`, `Trie`).
* A hash stands for what it is taken of, a signature for who made it.
* In `Pbft` a message once sent stays: it may be handled late, often or never, as
  with a network that loses and repeats and a timer that sends again. A vote has
  no effect before a quorum of votes, so votes are counted where they are needed
  and not buffered. A replica may be down or restart; none lies.
* Time is events: a timer may be due, a block may be slow, an answer may be late.
* In `LedgerUpgrade` consensus is external: `Decide` takes one value for each
  sequence that enough validators have checked. Faulty validators announce,
  propose and vote anything.
* The names of removal functions in the source read `Reopensesame...` and
  `opensesame...To...`; the modules call them `Remove` and `Keep`.

## Runs

TLC explores every run to the end. Sizes are distinct states.

| Run | Instance | Checks | States |
|---|---|---|---|
| `pbft_quorum` | 3 replicas, 2 ledgers, values found valid or not, checkpoint interval 2 | `ClosedIsCommitted`, `ExecutedIsCommitted` | 160,905 |
| `pbft_viewchange` | 3 replicas, each of which may time out | `TypeOK`, `Agreement` (one view change) | 288,859 |
| `pbft_restart` | 4 replicas, one down, one crash, one view change | `CommitIsPrepared`, `CommitsOnce`, `ViewNeverFalls` | 468,404 |
| `pbft_live` | 6 validators, primaries of views 0 and 1 down | `EveryoneCloses` | 6,042 |
| `pbft_agreement` | 3 replicas, two view changes | `Agreement` is **violated** | stops at depth 20 |
| `txpool` | 2 accounts, 6 transactions, limits 3 and 2, 2 imports at once | `IndexesAgree`, `WithinLimits`, `NeverAhead`, `DropsOnlyDead`, `PriceNeverFalls` | 558,099 |
| `apply` | 3 accounts, 3 transactions, 2 ledgers, one pre-execution | `ProposalsAccepted`, `ClosesAsFollowed`, `FollowAgrees`, `Conservation`, `ReserveKept`, `AppliedOnce` | 140,217 |
| `atommap` | 2 keys, 2 values, 2 levels | `NoAlias`, `ChangesOnlyAtCommit`, `Transactional` | 537,456 |
| `trie` | 4 keys of two lengths, 2 values, 2 branches | `MemoryIsTree`, `RootIsCanonical`, `StoreIsCanonical`, `ReadsOldOrNew`, `ListsStored` | 130,785 |
| `store_repair` | 5 ledgers, 5 crashes | `Consistent`, `ProofOfLast`, `NeverForgets`, `RestartsAfterGenesis` | 1,275 |
| `sync` | a good and a bad peer, 5 ledgers, one lost connection, 2 messages on their way with each | `OnlyFromChain`, `FollowUpsServed`, `ProbationDeserved`, `CatchesUp` | 641,859 |
| `upgrade` | 4 validators, one faulty, 2 versions, one restart, in two scenarios | `ProposalSupported`, `EnoughCanStart`, `UpgradesRaise`, `FloodReaches`, `CrossesOnce` | 2,006,926 |

What they show:

* **PBFT.** Whatever closes or executes carries a quorum of commits (any two of
  which share more than the tolerated faults); a commit is backed by a quorum of
  prepares; a replica commits to one value in a place and its view survives a
  crash; one view change keeps the chains equal; two dead primaries in a row do
  not stop anyone. Two view changes can make the chains differ: see Findings.
* **Pool.** The four indexes agree and stay within both limits in every order of
  imports, replacements, evictions, commits, timeouts and sync; a proposal
  discards only transactions that are dead; a replacement pays more.
* **Execution.** What the leader proposes the others accept; a ledger closed from
  a kept execution is the one closed by replay; coins are conserved, reserves
  kept, nothing is applied twice.
* **Buffers.** Shared objects changed in place never leak between nested
  transactions; the environment is a transactional map.
* **Trie.** Root hash and stored nodes depend on the content alone.
* **Store.** After any crash the two databases are at one ledger, none that was
  announced is lost, and the node starts.
* **Sync.** A node never gets ahead of the good chain, asks only for what is
  served, blames only who was late or bad, and catches up.
* **Upgrade.** A leader proposes only what enough validators support; whoever
  proposes, enough validators can start with every version; an upgrade raises the
  version; an announcement reaches everyone and crosses a connection once.

### Bounds

The bounds are named in the modules. Why they are enough for what is asked:

* `pbft_*`: 3 is the smallest number of replicas where a quorum is not everyone,
  4 the smallest that tolerates a fault in the sense of the code's table, 6
  leaves a quorum with two primaries down. The checkpoint interval is 2 instead
  of 10 so that trace-out happens in `pbft_quorum`, and out of reach elsewhere.
* `txpool`: both limits are below what the transactions could fill; one
  transaction comes at two prices; there is a gap in the nonces.
* `apply`: the transactions pay, overdraw half way, run out of gas, run out of
  time, and follow on one another. Two ledgers let a context outlive a closing.
* `atommap`: two levels are the fewest with a nested transaction; the theorems
  cover any depth. Keys are symmetric.
* `trie`: one key begins others, and keys part after an even and an odd number of
  branches; every shape of split, collapse and reload occurs. Values are symmetric.
* `sync`: `ahead` and `most` are 1 and 2 (4 and 5 in the code) with the same
  relation, so that a follow-up that is one too long is refused. Five ledgers are
  the fewest where it would be. The bad peer has them all, the good one closes the
  last while the node catches up; the theorems allow any heights to begin with.
* `upgrade`: `MaxRecords` is 2 (a million in the code) so that records are
  dropped early. *Flood* is a triangle, the smallest network where a message
  comes back by another way; *Replaced* has a validator down and one faulty.

Deadlock is checked for `atommap` and `trie`, which can always go on. The others
may stop when a bound is reached.

### Fairness

* `pbft_live` (`LiveSpec`): weak fairness of `Progress(r)` for every running
  replica. The main loop (`main/main.cpp`) handles messages, posted tasks and
  timers again and again, and timers send unanswered messages again, so what can
  be handled is handled. Crashes are not fair.
* `sync` (`LiveSpec`): weak fairness of the timer, of both threads, of the peers'
  answers, of the end of a probation, and of the peers closing ledgers.
  Connections need not last and consensus need not help.

## Findings

`pbft_agreement` (`consensus/bft.cpp:319`): the primary of a new view proposes the
prepared value again, and `Request` erases the prepared instance of the earlier
view as it does; `CreateInstanceIfNotExist` (690) does so on the others. If the
next view change comes before the value is prepared again, the view change
messages carry no prepared set, although a replica may have closed the value, and
the following primary may propose another. Two replicas then have different
ledgers at one sequence. `consensus/README.md:4` says a block is generated "After
each node agrees on the proposal".

### Known deviations

These are stated in the modules with the words *NOT an invariant*, or hold only
as restricted there. To see one fail, check it alone under the run's cfg, changed
as said.

| Property | Run | Change | What happens |
|---|---|---|---|
| `ExecutedIsClosed` | `pbft_quorum` | none | `TryExecuteValue` counts a value as executed whose ledger was not closed: its proof lacks commits of the current view, or trace-out went past it. `glue_manager.cpp:308` logs success. |
| `QueueIsSorted` | `txpool` | none | `account_nonce_` changes under the sorted multiset (`glue/README.md:16`: "double-sorting the transaction according to the account `nonce` value and `gas_price`"). |
| `NonceRecorded` | `txpool` | none | Ledgers closed by sync never reach the pool, whose record of nonces (`transaction_queue.h:85`: "Record account system nonce") then lags. |
| `NeverAhead` | `txpool` | `Failures = {TRUE, FALSE}` | The glue ignores that `OnConsent` failed and removes the transactions. |
| `RestartsAfterGenesis` | `store_repair` | `OS_LINUX = TRUE` | The repair is compiled out on Linux; a crash between the two writes ends in a start that is refused. The other three properties of the run hold, and are proved, on every platform. |
| `ReadsLatest` | `atommap` | none | A nested environment reads past the buffer just below it to the last closed ledger. |
| `FollowAgrees` | `apply` | `Checked = FALSE` | If no other validator votes, nothing compares the errors stated by the value with those of the closing (`ledger_frm.cpp:464` logs "This statement should not be executed"). |
| `ClosesAsFollowed` | `apply` | drop `~slow =>` | The waiting thread gives up as the executing one ends; a kept context differs from the value that is retried. |
| `RetryShrinks` | `apply` | none | 0.7 of one transaction, rounded, is one (`glue_manager.cpp:150`). |
| `KeepsAnnouncing` | `upgrade` | none | `LedgerHasUpgrade` clears the announcement of a program newer than the upgrade; only a restart sets it again. |

## Proofs

All hold for every value of the constants that satisfies the named `ASSUME`s:
any number of replicas, accounts, transactions, peers and steps. A hypothesis a
theorem has beyond these is in its statement, as an `ASSUME` or as an action
property next to `Spec`.

### Consensus

`PbftChainProofs` and `PbftStepProofs` prove what one step preserves,
`PbftProofs` the theorems (`ConstantsAssumption`: `N > 0`, the sets are what they
are said to be, bounds are natural). The invariants are in `PbftInv`.

* **Quorums.** `QuorumsMeet`: the table of `GetQuorumSize` is right for every `N`.
  `TypeCorrect`, `ClosedIsCommittedAlways`, `ExecutedIsCommittedAlways` and
  `CommitIsPreparedAlways` rest on `QuorumInv`: a committed instance, a task that
  waits, a proof and a `last_exe_seq_` each have a quorum of commits among the
  messages. It is needed because a replica acts on what it has kept, steps after
  it counted. Messages are never withdrawn, so quorums stay (`QuorumsStay`), and
  each action only has to show where the quorum of what it adds comes from.
* **Views.** `ViewNeverFallsAlways`, from `SavedIsCurrent`: the view in the
  database is the current one, so a crash loses nothing. Hypothesis
  `TraceOutKeepsView`: `TryDoTraceOut` sets the view of the commits it follows,
  which may be lower, and does not save it.
* **One value per view.** `CommitsOnceAlways`: all the commits for a view and
  sequence, of one replica or of several, are for one value, whatever the order of
  pre-prepares, timeouts, new views, syncs and erased instances; and so
  (`SameProofSameLedgerAlways`) two ledgers whose proofs name one view and sequence
  are the same chain. The invariant `VoteInv(G)` says that a replica outside `G`
  still has the value it prepared or handles nothing of that place any more. A
  replica forgets (`Forgets`) when it restarts, since `instances_` is not saved,
  when trace-out takes it to an earlier view, and when `UpdateValidators` goes on
  with the view and drops its instances. The hypothesis `FewForget(G)` allows as
  many such replicas, the set `G`, as two quorums of prepares share beyond one:
  none of 2, 4 or 6, one of 5 or 7. With 1 or 3 replicas the table gives quorums of
  prepares that need not meet (`q` of `N - 1` backups), and no `G` satisfies it.
* **Without timeouts.** `AgreementWithoutTimeouts`: as long as no timer asks for a
  view change, no commit traces a replica out and only replicas of a `G` with
  `FewForget(G)` restart, no two replicas close different ledgers at one height, for
  any positive checkpoint interval.
  `StepInv` says that views and heights are in step: a view has one sequence, the
  one after its number, a height is closed in the view of that height, and a task
  that raises the view waits for each height not yet executed, ahead of the one
  that lets the leader propose. With `SameProofSameLedger` this is agreement.
  Without the hypothesis `Agreement` does not hold (see Findings).

### Ledger

* **`LedgerProofs`, storing** (`StoreConstants`). `Disk` says how far apart the two
  databases can be, `Process` what the process knows between two writes. A crash
  leaves `Disk`, and `Disk` is what `Initialize` needs. From these follow
  `ConsistentAlways`, `ProofOfLastAlways`, `NeverForgetsAlways` on every platform,
  and `RestartsAlways` where the repair is compiled in.
* **`LedgerProofs`, synchronisation** (`SyncConstants`: some peer is good, a
  follow-up fits into an answer). `OneAtATime`: unless the timer asked a peer again
  before it answered, one request or one answer is on its way with it, the one
  expected, and only one thread is about to ask. `AnswersTrue`: peers answer with
  ledgers they have. Together with the three properties this is inductive:
  `OnlyFromChainAlways`, `FollowUpsServedAlways`, `ProbationDeservedAlways`.
* **`LedgerProofs`, buffers** (`MapConstants`). The invariant is `TypeOK`,
  `NoAlias` and that a record points at an object exactly if it is not a mark. A
  fresh object exists by the pigeonhole principle (`NoneOnto`, by induction), so a
  write in place reaches nothing below its buffer (`PutEffect`), and only a commit
  moves records down. `NoAliasAlways`, `ChangesOnlyAtCommitAlways`, and the
  refinement `TransactionalAlways`: every step of `AtomMap` is a step or a stutter
  of `TransactionalMap` under `base <- Base, work <- Work, open <- Depth`.
* **`LedgerExecutionProofs`** (`ExecutionConstants`): what one payment, one
  transaction, one turn and a whole execution preserve, by induction over the
  loops. An execution moves coins and makes none, leaves reserves, takes the
  transactions of an account in the order of their nonces, does what `ApplyFollow`
  does with the value it found, and is found again by a node that checks it.
* **`LedgerApplyProofs`** (`ApplyConstants`). The invariant `Sane`
  (`ExecutionsSound`): what is kept for the next ledger was executed on the last
  one, each run of `StartConsensus` has its own close time, so a kept result is
  never taken for another value, and the chain is what following it gives. It is
  needed because a result is used ledgers and messages after it was made. From it
  `RequestsAreAccepted` (`ProposalsAccepted`: what the leader found, with the
  dropped transactions taken out, `ApplyCheck` finds again) and
  `PreExecutionIsFollowing` (`ClosesAsFollowed`); both properties are about the
  time before a block is slow. Under `Guarded` (other validators vote, or no block
  is slow): `CoinsAreConserved`, `ValuesSayWhatFails` (`FollowAgrees`),
  `TransactionsApplyOnce` (`AppliedOnce`: in the order of nonces, none twice, none
  missing). `ReservesAreKept` needs `RewardsOpen` too: a reward that opens an
  account is no less than the base reserve, which `AllocateReward` does not check.

### Pool and upgrades

* **`TransactionQueueProofs`** (`Limits`). `IInv` says that the four indexes have
  the same transactions, one for an account and nonce, that `account_nonce_` has
  the accounts that have one, and that the pool is within its limits; the loops of
  `TopTransaction`, `RemoveTxs` and the timeouts are handled by induction on their
  turns. `IndexesAgreeAlways`,
  `WithinLimitsAlways`, and `PriceNeverFallsAlways` for positive prices (a tenth of
  0 is 0, so at price 0 an equal transaction replaces the old one). `NonceInv` adds
  that the pool's nonces do not lead the ledger's and that what `TopTransaction`
  took is in order: `NeverAheadAlways` and `DropsOnlyDeadAlways`, if `OnConsent`
  closes what it is given; otherwise `NeverAhead` fails (see Known deviations).
* **`LedgerUpgradeProofs`** (`UpgradeConstants`, and `FewFaulty`: the faulty
  validators alone are not enough to decide). `Truthful`: what an honest validator
  announced, wherever the announcement is by now, its program supports, since
  programs are replaced by newer ones only. So those who announced a version are
  among those who can run it: `ProposalSupportedAlways`, `EnoughCanStartAlways`,
  `UpgradesRaiseAlways`. For the flood, `FloodInv` says that each honest
  neighbour of a node which has heard a message has heard it too, or a copy is on
  its way there, also when records are dropped at the limit and unless a node has
  ended since. When no copy is left, those who have heard it are closed under the
  links, and `FloodReachesAlways` follows where the honest nodes are connected
  without the faulty ones. `CrossesOnceAlways` is an action property: while a copy is
  on its way, both ends of every connection it crossed remember the message or have
  dropped its record early.

Induction over data goes through the least-number principle (`LeastNumber`, from
the well-founded minimum of the library): a loop is a recursive function over its
turns, and the least turn at which a claim fails cannot exist.

### Only model-checked

* Liveness (`EveryoneCloses`, `CatchesUp`) and what needs `ENABLED`: beyond the
  prover.
* `Trie`: its operators recurse over the tree, with `RECURSIVE` operators that the
  prover cannot use.
* `Pbft` beyond the hypotheses above: `Agreement` with one view change and
  `CommitsOnce` with a restart among four are checked on the instances of the
  runs; with two view changes `Agreement` is refuted.
* Nothing is claimed of `LedgerApply` where `Guarded` fails, no other validator
  votes and a block is slow: `FollowAgrees` is refuted there (see Known deviations).

## Not modelled

* **Third-party and generated code** (`3rd`, `proto`), which is all but a few
  percent of the lines under `src`, and the `lib*` directories and `notary`, which
  the root `CMakeLists.txt` does not build. The share of lines that the map
  covers is small for this reason: of `bft.cpp` it is three quarters, of
  `ledger_frm.cpp`, `trie.cpp`, `transaction_queue.cpp`, `ledger_manager.cpp`,
  `glue_manager.cpp`, `atom_map.h`, `broadcast.cpp` and `ledger_upgrade.cpp`
  between three fifths and five sixths.
* **Contracts** (V8) and the operations other than payments: they change accounts
  through the buffers that `AtomMap` models, and have no state of their own.
* **Fee tables, keys, hashes, encodings, configuration**: data of the models.
* **Peer discovery, the peer table, heartbeats**: they decide which connections
  there are; the modules allow any.
* **The API, the monitor, the daemon**: queries and reports.
* **`OneNode` consensus and `CreateHardforkLedger`**: the one has no votes, the
  other is a command on a stopped node.
* **Lying replicas in `Pbft`**: the messages of a lying one would multiply the
  states beyond reach. `LedgerUpgrade` has faulty validators.
* **Two overlapping calls on the trie** (`ledger_manager.cpp:606` takes no
  `tree_mutex_`): undefined behaviour inside a node. `Trie` interleaves whole calls.
* **The locks themselves**: that `NotifyLedgerClose` posts to avoid a deadlock is
  modelled as the post, not as the deadlock.

## Running

    tlc -workers 2 -config PbftQuorum.cfg MCPbft
    tlapm PbftProofs.tla

Each run takes less than four minutes on two cores; each proof module takes ten to
twenty minutes from nothing.

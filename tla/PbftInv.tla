------------------------------ MODULE PbftInv -------------------------------
(***************************************************************************)
(* What the proofs about Pbft rest on: the inductive invariants, the       *)
(* quorums they speak of, and the steps that make a replica forget a vote. *)
(* G is the set of the replicas that may forget.                           *)
(***************************************************************************)
EXTENDS Pbft

-----------------------------------------------------------------------------
(* Types *)

PhaseMessage ==
    [type : {"preprepare", "prepare", "commit"}, view : Nat, seq : Nat,
     value : Value, from : Replica]

\* The state UpdateValidators and a restart work on.
ReplicaState == [view : Nat, last : Nat, active : BOOLEAN, saved : Nat,
                 inst : SUBSET Instance]

Task == [task : {"validators", "arm"}, view : Nat, seq : Nat]

Proof == [view : Nat, seq : Nat]

\* Each closed ledger has one proof; without this a sync could read a proof that
\* is not there.
Lengths == \A r \in Replica : Len(proofs[r]) = Len(ledger[r])

-----------------------------------------------------------------------------
(* What has a quorum behind it *)

\* The replicas whose vote is among the messages M.
In(M, t, v, s, val) == {r \in Replica : PhaseMsg(t, v, s, val, r) \in M}

\* Among M, q + 1 replicas have committed val; q replicas have prepared it.
CQ(M, v, s, val) == Cardinality(In(M, "commit", v, s, val)) >= GetQuorumSize + 1

PQ(M, v, s, val) == Cardinality(In(M, "prepare", v, s, val)) >= GetQuorumSize

\* A committed instance has its commit quorum.
CommitedHasQuorum ==
    \A r \in Replica : \A i \in instances[r] :
        i.phase = COMMITED => CQ(msgs, i.view, i.seq, i.value)

\* Some value has a commit quorum at view v and sequence s.
SomeQuorum(M, v, s) == \E val : CQ(M, v, s, val)

\* UpdateValidators is posted for a ledger with a commit quorum only.
PostedHasQuorum ==
    \A r \in Replica : \A k \in 1..Len(posted[r]) :
        posted[r][k].task = "validators" =>
            SomeQuorum(msgs, posted[r][k].view, posted[r][k].seq)

\* The proof of a closed ledger names the view and sequence of its quorum.
ProofHasQuorum ==
    \A r \in Replica : \A k \in 1..Len(ledger[r]) :
        CQ(msgs, proofs[r][k].view, proofs[r][k].seq, SubSeq(ledger[r], 1, k))

\* The last executed sequence had a commit quorum in some view.
ExecutedHasQuorum ==
    \A r \in Replica : last_exe_seq[r] > Base =>
        \E v : SomeQuorum(msgs, v, last_exe_seq[r])

\* A commit in M was sent when a prepare quorum was there.
CommitHasPrepares(M) ==
    \A m \in M : m.type = "commit" => PQ(M, m.view, m.seq, m.value)

\* The inductive invariant: a replica acts on a commit quorum, and keeps track of
\* it wherever it remembers the decision.
QuorumInv ==
    /\ Lengths
    /\ CommitHasPrepares(msgs)
    /\ CommitedHasQuorum
    /\ PostedHasQuorum
    /\ ProofHasQuorum
    /\ ExecutedHasQuorum

\* A step that takes no vote back keeps the quorums.
QuorumsKept ==
    /\ \A v, s, val : CQ(msgs, v, s, val) => CQ(msgs', v, s, val)
    /\ \A v, s, val : PQ(msgs, v, s, val) => PQ(msgs', v, s, val)

-----------------------------------------------------------------------------
(* Views *)

\* A trace-out does not change the view, which TryDoTraceOut would not save.
TraceOutKeepsView ==
    \A r \in Replica : \A m \in msgs :
        OnFarCommit(r, m) => m.view = view_number[r]

\* VIEWNUMBER in the database is the view the replica is in.
SavedIsCurrent == \A r \in Replica : saved_view[r] = view_number[r]

-----------------------------------------------------------------------------
(* The values of one view *)

\* The steps after which r may answer a second pre-prepare of a view and
\* sequence: instances_ is not saved, a trace-out may lead back to an earlier
\* view, and UpdateValidators drops the instances of a view that goes on.
Forgets(r) ==
    \/ Restart(r)
    \/ \E m \in msgs : OnFarCommit(r, m) /\ m.view < view_number[r]
    \/ /\ RunPosted(r)
       /\ view_number'[r] = view_number[r] /\ last_exe_seq'[r] # last_exe_seq[r]

Remembering(G) == \A r \in Replica \ G : ~Forgets(r)

\* Few enough forget: two quorums of prepares, which come from the N - 1
\* backups, share one that does not.
FewForget(G) == 2 * GetQuorumSize > N - 1 + Cardinality(G)

\* The sender of a prepare still has its value, or handles no message of that
\* view and sequence any more.
PreparesRemembered(G) ==
    \A m \in msgs : m.type = "prepare" /\ m.from \notin G =>
        /\ m.view <= view_number[m.from]
        /\ m.view = view_number[m.from] /\ m.seq > last_exe_seq[m.from] =>
               \E i \in instances[m.from] :
                   SameIndex(i, m) /\ i.phase >= PREPREPARED /\ i.value = m.value

PreparesOnce(G) ==
    \A m, n \in msgs :
        (m.type = "prepare" /\ n.type = "prepare" /\ m.from = n.from
            /\ m.from \notin G /\ m.view = n.view /\ m.seq = n.seq)
                => m.value = n.value

BackupsPrepare ==
    \A m \in msgs : m.type = "prepare" => Primary(m.view) # m.from

\* instances_ is a map.
Keyed ==
    \A r \in Replica : \A i, j \in instances[r] : SameIndex(i, j) => i = j

\* A step that gives r the instances I and, unless r is in G, loses no vote: while
\* its view goes on, r keeps the values it may have prepared.
KeepsVotes(G, r, I) ==
    /\ instances' = [instances EXCEPT ![r] = I]
    /\ \A p \in Replica \ {r} : /\ view_number'[p] = view_number[p]
                                /\ last_exe_seq'[p] = last_exe_seq[p]
    /\ \A i, j \in I : SameIndex(i, j) => i = j
    /\ r \notin G =>
          /\ view_number'[r] >= view_number[r]
          /\ last_exe_seq'[r] >= last_exe_seq[r]
          /\ view_number'[r] = view_number[r] =>
                \A i \in instances[r] :
                   (/\ i.view = view_number[r] /\ i.seq > last_exe_seq'[r]
                    /\ i.phase >= PREPREPARED /\ Primary(i.view) # r) =>
                   \E j \in I : /\ SameIndex(j, i) /\ j.value = i.value
                                /\ j.phase >= PREPREPARED

VoteInv(G) ==
    PreparesRemembered(G) /\ PreparesOnce(G) /\ BackupsPrepare /\ Keyed

\* All the commits of a view and sequence, of whichever replicas, are for one
\* value.
OneValuePerView ==
    \A m, n \in msgs :
        (m.type = "commit" /\ n.type = "commit"
            /\ m.view = n.view /\ m.seq = n.seq) => m.value = n.value

\* Two ledgers closed with proofs of one view and sequence are the same.
SameProofSameLedger ==
    \A r, p \in Replica :
        \A k \in 1..Len(ledger[r]), l \in 1..Len(ledger[p]) :
            proofs[r][k] = proofs[p][l] =>
                SubSeq(ledger[r], 1, k) = SubSeq(ledger[p], 1, l)

-----------------------------------------------------------------------------
(* Without timeouts *)

\* No timer asks for a view change, no commit leads a replica past what it has
\* executed, and only replicas of G restart.
Undisturbed(G) ==
    \A r \in Replica :
        /\ ~OnTxTimeout(r)
        /\ \A m \in msgs : ~OnFarCommit(r, m)
        /\ r \notin G => ~Restart(r)

\* Each view has one sequence, the one after its number.
OneSequencePerView ==
    \A m \in msgs : /\ m.type \in {"preprepare", "prepare", "commit"}
                    /\ m.seq = Base + m.view + 1

\* What a step does to the replicas is done to r.
OnlyOf(r) ==
    \A p \in Replica \ {r} :
        UNCHANGED <<view_number[p], saved_view[p], last_exe_seq[p], instances[p],
                    posted[p], ledger[p], proofs[p]>>

\* A prepared value extends what its sender has closed.
PreparedExtends ==
    \A m \in msgs : m.type = "prepare" =>
        /\ m.view < Len(m.value) /\ Len(m.value) <= Len(ledger[m.from]) + 1
        /\ SubSeq(m.value, 1, Len(m.value) - 1)
               = SubSeq(ledger[m.from], 1, Len(m.value) - 1)

\* The view of r is behind what r has executed, which is behind its ledger.
ViewBehind(r) ==
    /\ saved_view[r] = view_number[r]
    /\ Base + view_number[r] <= last_exe_seq[r]
    /\ last_exe_seq[r] <= Base + Len(ledger[r])

\* The ledger at a height was closed in the view of that height ...
ProofsInStep(r) ==
    \A k \in 1..Len(ledger[r]) :
        proofs[r][k].view + 1 = k /\ proofs[r][k].seq = Base + k

\* ... and so UpdateValidators is posted for it, ...
PostedInStep(r) ==
    \A j \in 1..Len(posted[r]) : posted[r][j].task = "validators" =>
        /\ posted[r][j].seq = Base + posted[r][j].view + 1
        /\ posted[r][j].view < Len(ledger[r])

\* ... and waits until the height is executed.
PostedCovers(r) ==
    \A h \in 1..Len(ledger[r]) :
        \/ Base + h <= last_exe_seq[r]
        \/ \E j \in 1..Len(posted[r]) :
               posted[r][j].task = "validators" /\ posted[r][j].seq = Base + h

\* A leader that has executed more than its view says does not propose: the
\* task that arms its timer waits behind the one that raises its view.
ArmWaits(r) ==
    last_exe_seq[r] > Base + view_number[r] =>
        \E j, k \in 1..Len(posted[r]) :
            /\ j < k /\ posted[r][k].task = "arm"
            /\ posted[r][j].task = "validators"
            /\ posted[r][j].seq = last_exe_seq[r]

\* An instance on which commits are awaited is of the current view and within
\* the water mark, so none is committed by trace-out.
InstancesCurrent(r) ==
    \A i \in instances[r] :
        /\ ~i.traced
        /\ i.phase < COMMITED =>
               i.view = view_number[r] /\ i.seq <= last_exe_seq[r] + ckp_interval

InStep(r) ==
    /\ ViewBehind(r) /\ ProofsInStep(r) /\ PostedInStep(r)
    /\ PostedCovers(r) /\ ArmWaits(r) /\ InstancesCurrent(r)

StepInv ==
    OneSequencePerView /\ PreparedExtends /\ \A r \in Replica : InStep(r)

\* The instance i that TryExecuteValue executes has the value for the height of
\* its view, and closes if and only if the ledger is not there already.
ExecutedInStep(r, i) ==
    /\ i.view \in Nat /\ i.value \in Seq(Content)
    /\ i.seq = Base + i.view + 1 /\ i.seq = last_exe_seq[r] + 1
    /\ i.view <= Len(ledger[r])
    /\ i.view = Len(ledger[r]) =>
           ExtendsLedger(r, i.value) /\ Closes(r, i) = {TRUE}
    /\ i.view # Len(ledger[r]) => Closes(r, i) = {FALSE}
=============================================================================

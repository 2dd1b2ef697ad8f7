----------------------------- MODULE PbftProofs -----------------------------
(***************************************************************************)
(* Proofs about Pbft for every number of validators, every bound and every *)
(* interleaving, crashes and lost or repeated messages included.           *)
(***************************************************************************)
EXTENDS PbftStepProofs, FiniteSetTheorems

\* The provers of a leaf that names none.
USE SMT, Zenon, Z3T(20)

USE ConstantsAssumption

-----------------------------------------------------------------------------
(* Quorums *)

\* GetQuorumSize is a natural number, and the table in its comment is right for
\* every N: two sets of q + 1 validators share more than (N - 1) \div 3.
THEOREM QuorumsMeet ==
    /\ GetQuorumSize \in Nat
    /\ 2 * (GetQuorumSize + 1) > N + ((N - 1) \div 3)
<1> DEFINE f == (N - 1) \div 3
<1>1. f \in Nat /\ 3 * f <= N - 1 /\ N - 1 < 3 * f + 3
  OBVIOUS
<1>2. N > 3 => GetQuorumSize = IF N = 3 * f + 1 THEN 2 * f ELSE 2 * f + 1
  BY <1>1 DEF GetQuorumSize
<1>3. N \in {2, 3} => GetQuorumSize = 1
  BY DEF GetQuorumSize
<1>4. N = 1 => GetQuorumSize = 0
  BY DEF GetQuorumSize
<1> QED
  BY <1>1, <1>2, <1>3, <1>4

\* The validators are finitely many.
LEMMA ReplicaFinite == IsFiniteSet(Replica)
BY FS_Interval DEF Replica

\* A set of voters is a finite set of validators.
LEMMA VotersFinite ==
    ASSUME NEW M, NEW t, NEW v, NEW s, NEW val
    PROVE  /\ IsFiniteSet(In(M, t, v, s, val))
           /\ Cardinality(In(M, t, v, s, val)) \in Nat
<1>1. In(M, t, v, s, val) \subseteq Replica
  BY DEF In
<1> QED
  BY <1>1, ReplicaFinite, FS_Subset, FS_CardinalityType

\* Votes are never taken back: a quorum stays one while the messages grow.
LEMMA QuorumsStay ==
    ASSUME NEW M, NEW M2, M \subseteq M2
    PROVE  /\ \A v, s, val : CQ(M, v, s, val) => CQ(M2, v, s, val)
           /\ \A v, s, val : PQ(M, v, s, val) => PQ(M2, v, s, val)
<1>1. ASSUME NEW t, NEW v, NEW s, NEW val
      PROVE  Cardinality(In(M, t, v, s, val)) <= Cardinality(In(M2, t, v, s, val))
  <2>1. In(M, t, v, s, val) \subseteq In(M2, t, v, s, val)
    BY DEF In
  <2> QED
    BY <2>1, VotersFinite, FS_Subset
<1> QED
  BY <1>1, VotersFinite, QuorumsMeet DEF CQ, PQ

\* A commit quorum is made of commits.
LEMMA QuorumHasCommit ==
    ASSUME NEW M, NEW v, NEW s, NEW val, CQ(M, v, s, val)
    PROVE  \E m \in M : /\ m.type = "commit" /\ m.view = v /\ m.seq = s
                        /\ m.value = val
<1>1. Cardinality(In(M, "commit", v, s, val)) >= 1
  BY QuorumsMeet, VotersFinite DEF CQ
<1>2. In(M, "commit", v, s, val) # {}
  BY <1>1, FS_EmptySet
<1>3. PICK r \in Replica : PhaseMsg("commit", v, s, val, r) \in M
  BY <1>2 DEF In
<1> QED
  BY <1>3 DEF PhaseMsg

\* A commit quorum is as large as the fault assumption needs.
LEMMA QuorumIsSafe ==
    \A v, s, val : CQ(msgs, v, s, val) => SafelyCommitted(v, s, val)
<1> TAKE v, s, val
<1>1. Voters("commit", v, s, val) = In(msgs, "commit", v, s, val)
  BY DEF Voters, In
<1> QED
  BY <1>1, QuorumsMeet, VotersFinite DEF CQ, SafelyCommitted

-----------------------------------------------------------------------------
(* What has a quorum behind it *)

\* The two invariants, proved together: each needs the other's lengths or types.
LEMMA Invariants == Spec => [](TypeOK /\ QuorumInv)
<1>1. Init => TypeOK /\ QuorumInv
  BY InitTypes, InitQuorum
<1>2. TypeOK /\ QuorumInv /\ [Next]_vars => (TypeOK /\ QuorumInv)'
  <2> SUFFICES ASSUME TypeOK, QuorumInv, [Next]_vars
               PROVE  TypeOK' /\ QuorumInv'
    OBVIOUS
  <2>1. QuorumsKept
    BY MessagesStay, QuorumsStay DEF QuorumsKept
  <2>2. QuorumInv'
    BY <2>1, QuorumStep
  <2>3. TypeOK'
    BY TypeStep DEF QuorumInv
  <2> QED
    BY <2>2, <2>3
<1> QED
  BY <1>1, <1>2, PTL DEF Spec

\* Every variable keeps its type, for every N and every bound: no handler of
\* bft.cpp stores a negative view, and a sync never reads a missing proof.
THEOREM TypeCorrect == Spec => []TypeOK
BY Invariants, PTL

\* Every ledger closed, by TryExecuteValue or by OnReceiveLedgers, was committed
\* by more than (N + (N - 1) \div 3) / 2 replicas in the view and sequence its
\* proof names, for every N and however messages are lost or repeated and
\* replicas restart.
THEOREM ClosedIsCommittedAlways == Spec => []ClosedIsCommitted
<1>1. QuorumInv => ClosedIsCommitted
  BY QuorumIsSafe DEF QuorumInv, ProofHasQuorum, ClosedIsCommitted
<1> QED
  BY <1>1, Invariants, PTL

\* last_exe_seq_ reaches a sequence, by executing, tracing out, a sync or a
\* restart, only if that many replicas have committed a value there.
THEOREM ExecutedIsCommittedAlways == Spec => []ExecutedIsCommitted
<1>1. QuorumInv => ExecutedIsCommitted
  <2> SUFFICES ASSUME QuorumInv, NEW r \in Replica, last_exe_seq[r] > Base
               PROVE  \E m \in msgs : /\ m.type = "commit" /\ m.seq = last_exe_seq[r]
                                      /\ SafelyCommitted(m.view, m.seq, m.value)
    BY DEF ExecutedIsCommitted
  <2>1. PICK v, val : CQ(msgs, v, last_exe_seq[r], val)
    BY DEF QuorumInv, ExecutedHasQuorum, SomeQuorum
  <2>2. SafelyCommitted(v, last_exe_seq[r], val)
    BY <2>1, QuorumIsSafe
  <2>3. PICK m \in msgs : /\ m.type = "commit" /\ m.view = v
                          /\ m.seq = last_exe_seq[r] /\ m.value = val
    BY <2>1, QuorumHasCommit
  <2> QED
    BY <2>2, <2>3
<1> QED
  BY <1>1, Invariants, PTL

\* OnPrepare sends a commit only after q matching prepares, and these stay: every
\* commit ever sent can be justified to a later view.
THEOREM CommitIsPreparedAlways == Spec => []CommitIsPrepared
<1>1. QuorumInv => CommitIsPrepared
  BY DEF QuorumInv, CommitHasPrepares, CommitIsPrepared, PQ, Voters, In
<1> QED
  BY <1>1, Invariants, PTL

-----------------------------------------------------------------------------
(* Views *)

\* A replica never returns to an earlier view, whatever it executes, syncs or
\* times out on and however often it crashes, as long as no trace-out changes a
\* view: TryDoTraceOut alone sets a view that may be lower, and does not save it.
THEOREM ViewNeverFallsAlways ==
    Spec /\ [][TraceOutKeepsView]_vars => ViewNeverFalls
<1>1. Init => SavedIsCurrent
  BY DEF Init, SavedIsCurrent
<1>2. TypeOK /\ QuorumInv /\ SavedIsCurrent /\ [Next]_vars /\ [TraceOutKeepsView]_vars
          => /\ SavedIsCurrent'
             /\ [\A r \in Replica : view_number'[r] >= view_number[r]]_vars
  <2> SUFFICES ASSUME TypeOK, QuorumInv, SavedIsCurrent, [Next]_vars,
                      [TraceOutKeepsView]_vars
               PROVE  /\ SavedIsCurrent'
                      /\ [\A r \in Replica : view_number'[r] >= view_number[r]]_vars
    OBVIOUS
  <2>1. CASE UNCHANGED vars
    BY <2>1 DEF vars, SavedIsCurrent
  <2>2. CASE Next /\ TraceOutKeepsView
    BY <2>2, ViewStep DEF QuorumInv
  <2> QED
    BY <2>1, <2>2
<1> QED
  BY <1>1, <1>2, Invariants, PTL DEF Spec, ViewNeverFalls

-----------------------------------------------------------------------------
(* The values of one view *)

\* What a step that changes the instances of one replica must leave: votes that
\* count are remembered, and instances_ stays a map.
LEMMA VotesKept ==
    ASSUME NEW G, TypeOK, TypeOK', VoteInv(G), NEW r \in Replica, NEW I,
           KeepsVotes(G, r, I)
    PROVE  /\ Keyed'
           /\ \A m \in msgs : m.type = "prepare" /\ m.from \notin G =>
                 /\ m.view <= view_number'[m.from]
                 /\ m.view = view_number'[m.from] /\ m.seq > last_exe_seq'[m.from] =>
                       \E i \in instances'[m.from] :
                          /\ SameIndex(i, m) /\ i.phase >= PREPREPARED
                          /\ i.value = m.value
<1>1. /\ instances \in [Replica -> SUBSET Instance]
      /\ view_number \in [Replica -> Nat] /\ view_number' \in [Replica -> Nat]
      /\ last_exe_seq \in [Replica -> Nat] /\ last_exe_seq' \in [Replica -> Nat]
  BY DEF TypeOK
<1>2. Keyed'
  BY <1>1 DEF VoteInv, Keyed, KeepsVotes
<1>3. ASSUME NEW m \in msgs, m.type = "prepare", m.from \notin G
      PROVE  /\ m.view <= view_number'[m.from]
             /\ m.view = view_number'[m.from] /\ m.seq > last_exe_seq'[m.from] =>
                   \E i \in instances'[m.from] :
                      SameIndex(i, m) /\ i.phase >= PREPREPARED /\ i.value = m.value
  <2>1. m.from \in Replica /\ m.view \in Nat /\ m.seq \in Nat
    <3>1. m \in Message
      BY DEF TypeOK
    <3>2. m \in PhaseMessage
      BY <1>3, <3>1, MessageTypes
    <3> QED
      BY <3>2 DEF PhaseMessage
  <2>2. /\ m.view <= view_number[m.from]
        /\ m.view = view_number[m.from] /\ m.seq > last_exe_seq[m.from] =>
               \E i \in instances[m.from] :
                   SameIndex(i, m) /\ i.phase >= PREPREPARED /\ i.value = m.value
    BY <1>3 DEF VoteInv, PreparesRemembered
  <2>3. CASE m.from # r
    <3>1. /\ view_number'[m.from] = view_number[m.from]
          /\ last_exe_seq'[m.from] = last_exe_seq[m.from]
          /\ instances'[m.from] = instances[m.from]
      BY <1>1, <2>1, <2>3 DEF KeepsVotes
    <3> QED
      BY <2>2, <3>1
  <2>4. CASE m.from = r
    <3>1. m.view <= view_number'[r]
      BY <1>1, <1>3, <2>1, <2>2, <2>4 DEF KeepsVotes
    <3>2. ASSUME m.view = view_number'[r], m.seq > last_exe_seq'[r]
          PROVE  \E i \in instances'[r] :
                     SameIndex(i, m) /\ i.phase >= PREPREPARED /\ i.value = m.value
      <4>1. /\ view_number'[r] = view_number[r] /\ m.view = view_number[r]
            /\ m.seq > last_exe_seq[r]
        BY <1>1, <1>3, <2>1, <2>2, <2>4, <3>2 DEF KeepsVotes
      <4>2. PICK i \in instances[r] :
               SameIndex(i, m) /\ i.phase >= PREPREPARED /\ i.value = m.value
        BY <2>2, <2>4, <4>1
      <4>3. Primary(i.view) # r
        BY <1>3, <2>4, <4>2 DEF VoteInv, BackupsPrepare, SameIndex
      <4>4. PICK j \in I : /\ SameIndex(j, i) /\ j.value = i.value
                           /\ j.phase >= PREPREPARED
        <5>1. i.view = view_number[r] /\ i.seq > last_exe_seq'[r]
          BY <3>2, <4>1, <4>2 DEF SameIndex
        <5> QED
          BY <1>3, <2>4, <4>1, <4>2, <4>3, <5>1 DEF KeepsVotes
      <4>5. instances'[r] = I
        BY <1>1 DEF KeepsVotes
      <4> QED
        BY <4>2, <4>4, <4>5 DEF SameIndex
    <3> QED
      BY <2>4, <3>1, <3>2
  <2> QED
    BY <2>3, <2>4
<1> QED
  BY <1>2, <1>3

\* The same, for a step that sends no prepare.
LEMMA VotesKeptSilently ==
    ASSUME NEW G, TypeOK, TypeOK', VoteInv(G), NEW r \in Replica, NEW I,
           KeepsVotes(G, r, I), \A m \in msgs' : m \in msgs \/ m.type # "prepare"
    PROVE  VoteInv(G)'
<1>1. /\ Keyed'
      /\ \A m \in msgs : m.type = "prepare" /\ m.from \notin G =>
            /\ m.view <= view_number'[m.from]
            /\ m.view = view_number'[m.from] /\ m.seq > last_exe_seq'[m.from] =>
                  \E i \in instances'[m.from] :
                     /\ SameIndex(i, m) /\ i.phase >= PREPREPARED
                     /\ i.value = m.value
  BY VotesKept
<1>2. PreparesRemembered(G)'
  BY <1>1 DEF PreparesRemembered
<1>3. PreparesOnce(G)' /\ BackupsPrepare'
  BY DEF VoteInv, PreparesOnce, BackupsPrepare
<1> QED
  BY <1>1, <1>2, <1>3 DEF VoteInv

\* CreateInstanceIfNotExist and the change of the instance it finds or makes.
LEMMA InstanceReplaced ==
    ASSUME NEW G, TypeOK, VoteInv(G), NEW r \in Replica, NEW m \in PhaseMessage,
           Accepts(r, m), NEW i \in InstanceOf(r, m), NEW j, SameIndex(j, i),
           i.phase >= PREPREPARED => j.phase >= PREPREPARED /\ j.value = i.value,
           instances' = [instances EXCEPT ![r] = OtherInstances(r, m) \cup {j}],
           UNCHANGED <<view_number, last_exe_seq>>
    PROVE  KeepsVotes(G, r, OtherInstances(r, m) \cup {j}) /\ SameIndex(j, m)
<1> DEFINE I == OtherInstances(r, m) \cup {j}
<1>1. SameIndex(i, m) /\ SameIndex(j, m)
  BY DEF InstanceOf, NewInstance, SameIndex
<1>2. OtherInstances(r, m) \subseteq instances[r]
      /\ \A x \in OtherInstances(r, m) : ~SameIndex(x, m)
  BY DEF OtherInstances
<1>3. \A x, y \in I : SameIndex(x, y) => x = y
  BY <1>1, <1>2 DEF VoteInv, Keyed, SameIndex
<1>4. ASSUME NEW x \in instances[r], x.view = view_number[r],
             x.phase >= PREPREPARED
      PROVE  \E y \in I : /\ SameIndex(y, x) /\ y.value = x.value
                          /\ y.phase >= PREPREPARED
  <2>1. CASE SameIndex(x, m)
    <3>1. x = i
      BY <1>1, <2>1 DEF InstanceOf, VoteInv, Keyed, SameIndex
    <3> QED
      BY <1>4, <3>1
  <2>2. CASE ~SameIndex(x, m)
    <3>1. m.view = view_number[r] /\ view_number[r] \in Nat
      BY DEF Accepts, TypeOK
    <3>2. ~(x.view < m.view)
      BY <1>4, <3>1
    <3>3. x \in OtherInstances(r, m)
      BY <2>2, <3>2 DEF OtherInstances
    <3> QED
      BY <1>4, <3>3 DEF SameIndex
  <2> QED
    BY <2>1, <2>2
<1>5. view_number[r] \in Nat /\ last_exe_seq[r] \in Nat
  BY DEF TypeOK
<1> QED
  BY <1>1, <1>3, <1>4, <1>5 DEF KeepsVotes

\* The handlers of messages forget no vote, and a prepare is sent for the value
\* that the instance keeps.
LEMMA VoteRecv ==
    ASSUME NEW G, N > 1, TypeOK, TypeOK', VoteInv(G), NEW r \in Replica,
           NEW m \in msgs, OnRecv(r, m), Remembering(G)
    PROVE  VoteInv(G)'
<1>1. m \in Message
  BY DEF TypeOK
<1>2. view_number \in [Replica -> Nat] /\ last_exe_seq \in [Replica -> Nat]
      /\ instances \in [Replica -> SUBSET Instance]
  BY DEF TypeOK
<1>3. \A x, y \in instances[r] : SameIndex(x, y) => x = y
  BY DEF VoteInv, Keyed
<1>4. CASE OnPrePrepare(r, m)
  <2>1. PICK i \in InstanceOf(r, m), chk \in CheckValue(r, m.value) :
          LET j == PrePrepared(r, i, m, chk) IN
          /\ instances' = [instances EXCEPT ![r] = OtherInstances(r, m) \cup {j}]
          /\ msgs' = IF Answers(r, m) /\ chk /\ j.value = m.value
                       THEN msgs \cup {PhaseMsg("prepare", m.view, m.seq, m.value, r)}
                       ELSE msgs
    BY <1>4, ZenonT(40) DEF OnPrePrepare
  <2> DEFINE j == PrePrepared(r, i, m, chk)
             I == OtherInstances(r, m) \cup {j}
             new == PhaseMsg("prepare", m.view, m.seq, m.value, r)
  <2>2. /\ m \in PhaseMessage /\ Accepts(r, m)
        /\ UNCHANGED <<view_number, last_exe_seq>>
    BY <1>1, <1>4, MessageTypes DEF OnPrePrepare
  <2>3. SameIndex(i, m)
    BY DEF InstanceOf, NewInstance, SameIndex
  <2>4. /\ SameIndex(j, i) /\ (i.phase >= PREPREPARED => j = i)
        /\ Answers(r, m) => j.phase >= PREPREPARED
    <3>1. i \in Instance
      BY <2>2, InstanceOfType
    <3>2. i.phase \in NONE..COMMITED
      BY <3>1 DEF Instance
    <3>3. CASE i.phase = NONE /\ Answers(r, m)
      BY <2>3, <3>3 DEF PrePrepared, PrePreparedInstance, SameIndex, NONE, PREPREPARED
    <3>4. CASE ~(i.phase = NONE /\ Answers(r, m))
      BY <3>2, <3>4 DEF PrePrepared, SameIndex, NONE, PREPREPARED, COMMITED
    <3> QED
      BY <3>3, <3>4
  <2>5. instances' = [instances EXCEPT ![r] = I]
    BY <2>1
  <2>6. \/ Answers(r, m) /\ j.value = m.value /\ msgs' = msgs \cup {new}
        \/ msgs' = msgs
    BY <2>1
  <2> HIDE DEF j
  <2>7. KeepsVotes(G, r, I) /\ SameIndex(j, m)
    <3>1. /\ SameIndex(j, i)
          /\ i.phase >= PREPREPARED => j.phase >= PREPREPARED /\ j.value = i.value
      BY <2>4, Zenon
    <3> QED
      BY <2>2, <2>5, <3>1, InstanceReplaced, Zenon
  <2> HIDE DEF I
  <2>8. CASE msgs' = msgs
    BY <2>7, <2>8, VotesKeptSilently
  <2>9. CASE Answers(r, m) /\ j.value = m.value /\ msgs' = msgs \cup {new}
    <3>1. /\ new.type = "prepare" /\ new.from = r /\ new.view = m.view
          /\ new.seq = m.seq /\ new.value = m.value
      BY DEF PhaseMsg
    <3> HIDE DEF new
    <3>2. /\ Keyed'
          /\ \A x \in msgs : x.type = "prepare" /\ x.from \notin G =>
                /\ x.view <= view_number'[x.from]
                /\ x.view = view_number'[x.from] /\ x.seq > last_exe_seq'[x.from] =>
                      \E y \in instances'[x.from] :
                         /\ SameIndex(y, x) /\ y.phase >= PREPREPARED
                         /\ y.value = x.value
      BY <2>7, VotesKept
    <3>3. /\ new.view = view_number'[r] /\ new.seq > last_exe_seq'[r]
          /\ view_number'[r] \in Nat
          /\ j \in instances'[r] /\ SameIndex(j, new) /\ j.phase >= PREPREPARED
          /\ j.value = new.value
      <4>1. m.view = view_number[r] /\ m.seq > last_exe_seq[r]
        BY <2>2 DEF Accepts
      <4>2. j \in instances'[r]
        BY <1>2, <2>5 DEF I
      <4> QED
        BY <1>2, <2>2, <2>4, <2>7, <2>9, <3>1, <4>1, <4>2 DEF SameIndex
    <3>4. PreparesRemembered(G)'
      BY <2>9, <3>1, <3>2, <3>3 DEF PreparesRemembered
    <3>5. ASSUME NEW x \in msgs, x.type = "prepare", x.from = r, r \notin G,
                 x.view = new.view, x.seq = new.seq
          PROVE  x.value = new.value
      <4>1. PICK y \in instances'[r] : SameIndex(y, x) /\ y.value = x.value
        BY <3>2, <3>3, <3>5
      <4>2. y = j
        BY <3>2, <3>3, <3>5, <4>1 DEF Keyed, SameIndex
      <4> QED
        BY <3>3, <4>1, <4>2
    <3>6. PreparesOnce(G)'
      <4> SUFFICES ASSUME NEW x \in msgs', NEW y \in msgs', x.type = "prepare",
                          y.type = "prepare", x.from = y.from, x.from \notin G,
                          x.view = y.view, x.seq = y.seq
                   PROVE  x.value = y.value
        BY DEF PreparesOnce
      <4>1. CASE x \in msgs /\ y \in msgs
        BY <4>1 DEF VoteInv, PreparesOnce
      <4>2. CASE x \in msgs /\ y = new
        BY <3>1, <3>5, <4>2
      <4>3. CASE y \in msgs /\ x = new
        BY <3>1, <3>5, <4>3
      <4> QED
        BY <2>9, <4>1, <4>2, <4>3
    <3>7. BackupsPrepare'
      <4>1. Primary(m.view) # r
        BY <2>9 DEF Answers
      <4> QED
        BY <2>9, <3>1, <4>1 DEF VoteInv, BackupsPrepare
    <3> QED
      BY <3>2, <3>4, <3>6, <3>7 DEF VoteInv
  <2> QED
    BY <2>6, <2>8, <2>9
<1>5. CASE OnPrepare(r, m)
  <2>1. PICK i \in InstanceOf(r, m) :
          LET quorum == /\ i.phase >= PREPREPARED /\ i.value = m.value
                        /\ PrepareQuorum(m)
              j == IF quorum /\ i.phase < PREPARED
                     THEN [i EXCEPT !.phase = PREPARED] ELSE i
          IN  /\ instances' = [instances EXCEPT ![r] = OtherInstances(r, m) \cup {j}]
              /\ msgs' = IF quorum /\ i.check
                           THEN msgs \cup {PhaseMsg("commit", m.view, m.seq, m.value, r)}
                           ELSE msgs
    BY <1>5, ZenonT(40) DEF OnPrepare
  <2> DEFINE quorum == /\ i.phase >= PREPREPARED /\ i.value = m.value
                       /\ PrepareQuorum(m)
             j == IF quorum /\ i.phase < PREPARED
                    THEN [i EXCEPT !.phase = PREPARED] ELSE i
             I == OtherInstances(r, m) \cup {j}
  <2>2. /\ m \in PhaseMessage /\ Accepts(r, m)
        /\ UNCHANGED <<view_number, last_exe_seq>>
    BY <1>1, <1>5, MessageTypes DEF OnPrepare
  <2>3. /\ SameIndex(j, i)
        /\ i.phase >= PREPREPARED => j.phase >= PREPREPARED /\ j.value = i.value
    <3>1. i \in Instance
      BY <2>2, InstanceOfType
    <3>2. [i EXCEPT !.phase = PREPARED].phase = PREPARED
          /\ [i EXCEPT !.phase = PREPARED].value = i.value
          /\ SameIndex([i EXCEPT !.phase = PREPARED], i)
      BY <3>1 DEF Instance, SameIndex
    <3>3. PREPARED >= PREPREPARED
      BY DEF PREPARED, PREPREPARED
    <3> QED
      BY <3>2, <3>3 DEF SameIndex
  <2>4. instances' = [instances EXCEPT ![r] = I]
    BY <2>1
  <2>5. \A x \in msgs' : x \in msgs \/ x.type # "prepare"
    BY <2>1 DEF PhaseMsg
  <2> HIDE DEF j
  <2>6. KeepsVotes(G, r, I)
    BY <2>2, <2>3, <2>4, InstanceReplaced, Zenon
  <2> HIDE DEF I
  <2> QED
    BY <2>5, <2>6, VotesKeptSilently
<1>6. CASE OnCommit(r, m)
  <2>1. PICK i \in InstanceOf(r, m) :
          LET done == i.phase = PREPARED /\ i.value = m.value /\ CommitQuorum(i)
              j == IF done THEN CommitedInstance(i, FALSE) ELSE i
          IN  instances' = [instances EXCEPT ![r] = OtherInstances(r, m) \cup {j}]
    BY <1>6, ZenonT(40) DEF OnCommit
  <2> DEFINE done == i.phase = PREPARED /\ i.value = m.value /\ CommitQuorum(i)
             j == IF done THEN CommitedInstance(i, FALSE) ELSE i
             I == OtherInstances(r, m) \cup {j}
  <2>2. /\ m \in PhaseMessage /\ Accepts(r, m)
        /\ UNCHANGED <<view_number, last_exe_seq, msgs>>
    BY <1>1, <1>6, MessageTypes DEF OnCommit
  <2>3. /\ SameIndex(j, i)
        /\ i.phase >= PREPREPARED => j.phase >= PREPREPARED /\ j.value = i.value
    BY DEF CommitedInstance, SameIndex, COMMITED, PREPREPARED
  <2>4. instances' = [instances EXCEPT ![r] = I]
    BY <2>1
  <2> HIDE DEF j
  <2>5. KeepsVotes(G, r, I)
    BY <2>2, <2>3, <2>4, InstanceReplaced, Zenon
  <2> HIDE DEF I
  <2> QED
    BY <2>2, <2>5, VotesKeptSilently
<1>7. CASE OnTracedCommit(r, m)
  <2>1. PICK i \in instances[r] :
          instances' = [instances EXCEPT ![r] =
                              (@ \ {i}) \cup {CommitedInstance(i, TRUE)}]
    BY <1>7, ZenonT(40) DEF OnTracedCommit
  <2> DEFINE c == CommitedInstance(i, TRUE)
             I == (instances[r] \ {i}) \cup {c}
  <2>2. UNCHANGED <<view_number, last_exe_seq, msgs>>
    BY <1>7 DEF OnTracedCommit
  <2>3. /\ c.view = i.view /\ c.seq = i.seq /\ c.value = i.value
        /\ c.phase >= PREPREPARED
    BY DEF CommitedInstance, COMMITED, PREPREPARED
  <2>4. instances' = [instances EXCEPT ![r] = I]
    BY <2>1
  <2> HIDE DEF c
  <2>5. \A x \in instances[r] : x.phase >= PREPREPARED =>
            \E y \in I : /\ SameIndex(y, x) /\ y.value = x.value
                         /\ y.phase >= PREPREPARED
    BY <2>3 DEF SameIndex
  <2>6. \A x, y \in I : SameIndex(x, y) => x = y
    BY <1>3, <2>3 DEF SameIndex
  <2> HIDE DEF I
  <2>7. KeepsVotes(G, r, I)
    BY <1>2, <2>2, <2>5, <2>6, <2>4 DEF KeepsVotes
  <2> QED
    BY <2>2, <2>7, VotesKeptSilently
<1>8. CASE OnFarCommit(r, m)
  <2> DEFINE I == {i \in instances[r] : i.seq > m.seq}
  <2>1. /\ m.seq > last_exe_seq[r]
        /\ view_number' = [view_number EXCEPT ![r] = m.view]
        /\ last_exe_seq' = [last_exe_seq EXCEPT ![r] = m.seq]
        /\ instances' = [instances EXCEPT ![r] = I]
        /\ UNCHANGED msgs
    BY <1>8 DEF OnFarCommit, TracedOut
  <2>2. m.view \in Nat /\ m.seq \in Nat
    BY <1>1, <1>8, MessageTypes DEF OnFarCommit, TracedOut, PhaseMessage
  <2>3. r \notin G => ~(m.view < view_number[r])
    BY <1>8 DEF Remembering, Forgets
  <2>4. /\ view_number'[r] = m.view /\ last_exe_seq'[r] = m.seq
        /\ \A p \in Replica \ {r} : /\ view_number'[p] = view_number[p]
                                    /\ last_exe_seq'[p] = last_exe_seq[p]
    BY <1>2, <2>1
  <2>5. \A x, y \in I : SameIndex(x, y) => x = y
    BY <1>3
  <2>6. \A i \in instances[r] : i.seq > last_exe_seq'[r] => i \in I
    BY <2>4
  <2>7. view_number[r] \in Nat /\ last_exe_seq[r] \in Nat
    BY <1>2
  <2>8. instances' = [instances EXCEPT ![r] = I]
    BY <2>1
  <2> HIDE DEF I
  <2>9. KeepsVotes(G, r, I)
    BY <2>1, <2>2, <2>3, <2>4, <2>5, <2>6, <2>7, <2>8 DEF KeepsVotes, SameIndex
  <2> QED
    BY <2>1, <2>9, VotesKeptSilently
<1>9. CASE OnNewView(r, m)
  <2>1. /\ instances' = [instances EXCEPT ![r] = KeptInstances(r)]
        /\ m.view > view_number[r]
        /\ view_number' = [view_number EXCEPT ![r] = m.view]
        /\ UNCHANGED <<last_exe_seq, msgs>>
    BY <1>9 DEF OnNewView
  <2>2. m.view \in Nat
    BY <1>1, <1>9, MessageTypes DEF OnNewView
  <2>3. \A x, y \in KeptInstances(r) : SameIndex(x, y) => x = y
    BY <1>3 DEF KeptInstances
  <2>4. KeepsVotes(G, r, KeptInstances(r))
    BY <1>2, <2>1, <2>2, <2>3 DEF KeepsVotes
  <2> QED
    BY <2>1, <2>4, VotesKeptSilently
<1> QED
  BY <1>4, <1>5, <1>6, <1>7, <1>8, <1>9 DEF OnRecv

\* The instances after Pbft::Request are still a map.
LEMMA RequestedKeyed ==
    ASSUME NEW S, NEW last, NEW v, NEW val,
           \A x, y \in S : SameIndex(x, y) => x = y
    PROVE  \A x, y \in Requested(S, last, v, val) : SameIndex(x, y) => x = y
<1> DEFINE new == PrePreparedInstance(v, last + 1, val, TRUE)
           kept == {i \in S : ~SameIndex(i, new) /\ ~(i.seq > last /\ i.phase < COMMITED)}
<1>1. Requested(S, last, v, val) = kept \cup {new}
  BY DEF Requested
<1> HIDE DEF new
<1>2. \A i \in kept : i \in S /\ ~SameIndex(i, new)
  OBVIOUS
<1> HIDE DEF kept
<1> QED
  BY <1>1, <1>2 DEF SameIndex

\* UpdateValidators lowers nothing and drops instances, and none unless it raises
\* the view or the last executed sequence.
LEMMA UpdateValidatorsKeeps ==
    ASSUME NEW st \in ReplicaState, NEW pf, pf.view \in Nat, pf.seq \in Nat
    PROVE  LET new == UpdateValidators(st, pf)
           IN  /\ new.view >= st.view /\ new.last >= st.last
               /\ new.view = st.view /\ new.last = st.last => new.inst = st.inst
               /\ new.inst \subseteq st.inst
BY DEF UpdateValidators, ReplicaState

\* What a replica does of itself forgets no vote: it proposes only in views of
\* which it is no backup, and drops only what it has executed or what belongs to
\* a view that is over.
LEMMA VoteSelf ==
    ASSUME NEW G, TypeOK, TypeOK', VoteInv(G), NEW r \in Replica, Remembering(G),
           \/ StartConsensus(r)
           \/ ExecuteValue(r)
           \/ RunPosted(r)
           \/ \E v \in Nat : OnViewChange(r, v)
           \/ Restart(r)
    PROVE  VoteInv(G)'
<1>1. view_number \in [Replica -> Nat] /\ last_exe_seq \in [Replica -> Nat]
      /\ instances \in [Replica -> SUBSET Instance]
  BY DEF TypeOK
<1>2. \A x, y \in instances[r] : SameIndex(x, y) => x = y
  BY DEF VoteInv, Keyed
<1>3. CASE StartConsensus(r)
  <2>1. CASE IsLeader(r) /\ view_active[r]
    <3>1. PICK val \in Proposals(r, view_number[r], NoValue) :
            /\ instances' = [instances EXCEPT ![r] =
                  Requested(@, last_exe_seq[r], view_number[r], val)]
            /\ msgs' = msgs \cup {PhaseMsg("preprepare", view_number[r],
                                           last_exe_seq[r] + 1, val, r)}
      BY <1>3, <2>1, ZenonT(40) DEF StartConsensus
    <3> DEFINE I == Requested(instances[r], last_exe_seq[r], view_number[r], val)
    <3>2. \A x, y \in I : SameIndex(x, y) => x = y
      BY <1>2, RequestedKeyed
    <3>3. \A x \in msgs' : x \in msgs \/ x.type # "prepare"
      BY <3>1 DEF PhaseMsg
    <3>4. UNCHANGED <<view_number, last_exe_seq>>
      BY <1>3, Zenon DEF StartConsensus
    <3>5. Primary(view_number[r]) = r
      BY <2>1 DEF IsLeader
    <3>6. instances' = [instances EXCEPT ![r] = I]
      BY <3>1
    <3> HIDE DEF I
    <3>7. KeepsVotes(G, r, I)
      BY <1>1, <3>2, <3>4, <3>5, <3>6 DEF KeepsVotes
    <3> QED
      BY <3>3, <3>7, VotesKeptSilently
  <2>2. CASE ~(IsLeader(r) /\ view_active[r])
    <3>1. UNCHANGED <<instances, msgs, view_number, last_exe_seq>>
      BY <1>3, <2>2, Zenon DEF StartConsensus
    <3> QED
      BY <3>1 DEF VoteInv, PreparesRemembered, PreparesOnce, BackupsPrepare, Keyed
  <2> QED
    BY <2>1, <2>2
<1>4. CASE ExecuteValue(r)
  <2>1. PICK i \in Executable(r) :
          /\ last_exe_seq' = [last_exe_seq EXCEPT ![r] = i.seq]
          /\ instances' = [instances EXCEPT ![r] =
                {j \in @ : j.seq + (ckp_interval \div 2) > i.seq}]
    BY <1>4, ZenonT(40) DEF ExecuteValue
  <2> DEFINE I == {j \in instances[r] : j.seq + (ckp_interval \div 2) > i.seq}
  <2>2. i.seq = last_exe_seq[r] + 1
    BY DEF Executable
  <2>3. UNCHANGED <<view_number, msgs>>
    BY <1>4, Zenon DEF ExecuteValue
  <2>4. /\ last_exe_seq'[r] = last_exe_seq[r] + 1
        /\ \A p \in Replica \ {r} : last_exe_seq'[p] = last_exe_seq[p]
    BY <1>1, <2>1, <2>2
  <2>5. \A j \in instances[r] : j.seq > last_exe_seq'[r] => j \in I
    <3>1. ckp_interval \div 2 \in Nat
      OBVIOUS
    <3>2. \A j \in instances[r] : j.seq \in Nat
      BY <1>1 DEF Instance
    <3> QED
      BY <1>1, <2>2, <2>4, <3>1, <3>2
  <2>6. \A x, y \in I : SameIndex(x, y) => x = y
    BY <1>2
  <2>7. instances' = [instances EXCEPT ![r] = I]
    BY <2>1
  <2> HIDE DEF I
  <2>8. KeepsVotes(G, r, I)
    BY <1>1, <2>3, <2>4, <2>5, <2>6, <2>7 DEF KeepsVotes, SameIndex
  <2> QED
    BY <2>3, <2>8, VotesKeptSilently
<1>5. CASE RunPosted(r)
  <2> DEFINE t == Head(posted[r])
             st == UpdateValidators(StateOf(r), t)
  <2>1. CASE t.task = "validators"
    <3>1. posted[r] \in Seq(Task) /\ posted[r] # <<>>
      BY <1>5, Zenon DEF TypeOK, Task, RunPosted
    <3>2. t \in Task
      BY <3>1, HeadType, Zenon
    <3>3. t.view \in Nat /\ t.seq \in Nat
      BY <3>2 DEF Task
    <3>4. /\ view_number' = [view_number EXCEPT ![r] = st.view]
          /\ last_exe_seq' = [last_exe_seq EXCEPT ![r] = st.last]
          /\ instances' = [instances EXCEPT ![r] = st.inst]
          /\ UNCHANGED msgs
      BY <1>5, <2>1 DEF RunPosted
    <3>5. r \notin G => view_number'[r] # view_number[r]
                            \/ last_exe_seq'[r] = last_exe_seq[r]
      BY <1>5, Zenon DEF Remembering, Forgets
    <3>6. /\ st.view >= view_number[r] /\ st.last >= last_exe_seq[r]
          /\ st.view = view_number[r] /\ st.last = last_exe_seq[r] =>
                st.inst = instances[r]
          /\ st.inst \subseteq instances[r]
      <4>1. /\ StateOf(r) \in ReplicaState
            /\ StateOf(r).view = view_number[r] /\ StateOf(r).last = last_exe_seq[r]
            /\ StateOf(r).inst = instances[r]
        BY DEF StateOf, ReplicaState, TypeOK
      <4> HIDE DEF t
      <4> QED
        BY <3>3, <4>1, UpdateValidatorsKeeps, Zenon
    <3> HIDE DEF st
    <3>7. /\ view_number'[r] = st.view /\ last_exe_seq'[r] = st.last
          /\ \A p \in Replica \ {r} : /\ view_number'[p] = view_number[p]
                                      /\ last_exe_seq'[p] = last_exe_seq[p]
      BY <1>1, <3>4, Zenon
    <3>8. \A x, y \in st.inst : SameIndex(x, y) => x = y
      BY <1>2, <3>6, Zenon
    <3>9. KeepsVotes(G, r, st.inst)
      BY <3>4, <3>5, <3>6, <3>7, <3>8, Zenon DEF KeepsVotes, SameIndex
    <3> QED
      BY <3>4, <3>9, VotesKeptSilently
  <2>2. CASE t.task # "validators"
    <3>1. UNCHANGED <<instances, msgs, view_number, last_exe_seq>>
      BY <1>5, <2>2 DEF RunPosted
    <3> QED
      BY <3>1, Zenon DEF VoteInv, PreparesRemembered, PreparesOnce, BackupsPrepare, Keyed
  <2> QED
    BY <2>1, <2>2
<1>6. CASE \E v \in Nat : OnViewChange(r, v)
  <2>1. PICK v \in Nat : OnViewChange(r, v)
    BY <1>6
  <2>2. /\ v > view_number[r]
        /\ view_number' = [view_number EXCEPT ![r] = v]
        /\ UNCHANGED last_exe_seq
    BY <2>1, ZenonT(40) DEF OnViewChange
  <2>3. \A x, y \in KeptInstances(r) : SameIndex(x, y) => x = y
    BY <1>2 DEF KeptInstances
  <2>4. \/ /\ instances' = [instances EXCEPT ![r] = KeptInstances(r)]
           /\ msgs' = msgs \cup {NewView(v, r)}
        \/ \E val :
           /\ instances' = [instances EXCEPT ![r] =
                 Requested(KeptInstances(r), last_exe_seq[r], v, val)]
           /\ msgs' = msgs \cup {NewView(v, r), PhaseMsg("preprepare", v,
                                          last_exe_seq[r] + 1, val, r)}
    BY <2>1, Zenon DEF OnViewChange
  <2>5. PICK I : /\ instances' = [instances EXCEPT ![r] = I]
                 /\ \/ I = KeptInstances(r)
                    \/ \E val : I = Requested(KeptInstances(r), last_exe_seq[r], v, val)
    BY <2>4, Zenon
  <2>6. \A x, y \in I : SameIndex(x, y) => x = y
    BY <2>3, <2>5, RequestedKeyed
  <2>7. KeepsVotes(G, r, I)
    BY <1>1, <2>2, <2>5, <2>6 DEF KeepsVotes
  <2>8. \A x \in msgs' : x \in msgs \/ x.type # "prepare"
    <3>1. \/ msgs' = msgs \cup {NewView(v, r)}
          \/ \E val : msgs' = msgs \cup {NewView(v, r),
                        PhaseMsg("preprepare", v, last_exe_seq[r] + 1, val, r)}
      BY <2>4, Zenon
    <3>2. /\ NewView(v, r).type # "prepare"
          /\ \A s, val : PhaseMsg("preprepare", v, s, val, r).type # "prepare"
      BY DEF NewView, PhaseMsg
    <3> QED
      BY <3>1, <3>2, Zenon
  <2> QED
    BY <2>7, <2>8, VotesKeptSilently
<1>7. CASE Restart(r)
  <2>1. r \in G
    BY <1>7, Zenon DEF Remembering, Forgets
  <2>2. /\ instances' = [instances EXCEPT ![r] = {}]
        /\ UNCHANGED msgs
        /\ \A p \in Replica \ {r} : /\ view_number'[p] = view_number[p]
                                    /\ last_exe_seq'[p] = last_exe_seq[p]
    BY <1>1, <1>7, Zenon DEF Restart
  <2>3. KeepsVotes(G, r, {})
    BY <2>1, <2>2 DEF KeepsVotes
  <2> QED
    BY <2>2, <2>3, VotesKeptSilently, Zenon
<1> QED
  BY <1>3, <1>4, <1>5, <1>6, <1>7

\* No step loses the vote of a replica that does not forget.
LEMMA VoteStep ==
    ASSUME NEW G, N > 1, TypeOK, TypeOK', VoteInv(G), [Next]_vars,
           [Remembering(G)]_vars
    PROVE  VoteInv(G)'
<1>1. ASSUME UNCHANGED <<instances, view_number, last_exe_seq>>,
             \A x \in msgs' : x \in msgs \/ x.type # "prepare"
      PROVE  VoteInv(G)'
  BY <1>1 DEF VoteInv, PreparesRemembered, PreparesOnce, BackupsPrepare, Keyed
<1>2. CASE UNCHANGED vars
  BY <1>1, <1>2 DEF vars
<1>3. CASE Next /\ Remembering(G)
  <2>1. PICK r \in Replica :
          \/ StartConsensus(r)
          \/ \E m \in msgs : OnRecv(r, m)
          \/ ExecuteValue(r)
          \/ ExecuteDone(r)
          \/ RunPosted(r)
          \/ \E p \in Replica : SyncLedger(r, p)
          \/ OnTxTimeout(r)
          \/ \E v \in Nat : OnViewChange(r, v)
          \/ \E v \in Nat : NewViewTimeout(r, v)
          \/ Restart(r)
    BY <1>3, NextCases
  <2>2. CASE ExecuteDone(r) \/ \E p \in Replica : SyncLedger(r, p)
    <3>1. UNCHANGED <<instances, view_number, last_exe_seq, msgs>>
      BY <2>2, ZenonT(40) DEF ExecuteDone, SyncLedger
    <3> QED
      BY <1>1, <3>1
  <2>3. CASE OnTxTimeout(r) \/ \E v \in Nat : NewViewTimeout(r, v)
    <3>1. UNCHANGED <<instances, view_number, last_exe_seq>>
      BY <2>3, ZenonT(40) DEF OnTxTimeout, NewViewTimeout
    <3>2. \E v, c : msgs' = msgs \cup {ViewChange(v, r, c)}
      BY <2>3, ZenonT(40) DEF OnTxTimeout, NewViewTimeout
    <3>3. \A x \in msgs' : x \in msgs \/ x.type # "prepare"
      BY <3>2 DEF ViewChange
    <3> QED
      BY <1>1, <3>1, <3>3
  <2>4. CASE \E m \in msgs : OnRecv(r, m)
    BY <1>3, <2>4, VoteRecv
  <2>5. CASE \/ StartConsensus(r)
             \/ ExecuteValue(r)
             \/ RunPosted(r)
             \/ \E v \in Nat : OnViewChange(r, v)
             \/ Restart(r)
    BY <1>3, <2>5, VoteSelf
  <2> QED
    BY <2>1, <2>2, <2>3, <2>4, <2>5
<1> QED
  BY <1>2, <1>3

\* Nobody has voted at the start.
LEMMA InitVotes == ASSUME NEW G, Init PROVE VoteInv(G)
BY DEF Init, VoteInv, PreparesRemembered, PreparesOnce, BackupsPrepare, Keyed

\* Two sets of q backups of a view share a replica outside G.
LEMMA PrepareQuorumsMeet ==
    ASSUME NEW G \in SUBSET Replica, FewForget(G), NEW x \in Replica,
           NEW P, NEW Q, P \subseteq Replica \ {x}, Q \subseteq Replica \ {x},
           Cardinality(P) >= GetQuorumSize, Cardinality(Q) >= GetQuorumSize
    PROVE  \E r \in P \cap Q : r \notin G
<1>1. /\ IsFiniteSet(P) /\ IsFiniteSet(Q) /\ IsFiniteSet(P \cup Q)
      /\ IsFiniteSet(P \cap Q) /\ IsFiniteSet(G)
  BY ReplicaFinite, FS_Subset
<1>2. /\ Cardinality(P) \in Nat /\ Cardinality(Q) \in Nat
      /\ Cardinality(P \cup Q) \in Nat /\ Cardinality(P \cap Q) \in Nat
      /\ Cardinality(G) \in Nat
  BY <1>1, FS_CardinalityType
<1>3. Cardinality(P \cup Q) = Cardinality(P) + Cardinality(Q) - Cardinality(P \cap Q)
  BY <1>1, FS_Union
<1>4. Cardinality(Replica) = N /\ Cardinality(Replica \ {x}) = N - 1
  <2>1. Cardinality(Replica) = N
    <3>1. 0 \in Int /\ N - 1 \in Int /\ N - 1 >= 0
      OBVIOUS
    <3>2. Cardinality(0..(N - 1)) = IF 0 > N - 1 THEN 0 ELSE N - 1 - 0 + 1
      BY <3>1, FS_Interval
    <3> QED
      BY <3>1, <3>2 DEF Replica
  <2>2. Cardinality(Replica \ {x}) = Cardinality(Replica) - 1
    BY ReplicaFinite, FS_RemoveElement, Zenon
  <2> QED
    BY <2>1, <2>2
<1>5. Cardinality(P \cup Q) <= N - 1
  <2>1. P \cup Q \subseteq Replica \ {x} /\ IsFiniteSet(Replica \ {x})
    BY ReplicaFinite, FS_Subset
  <2> QED
    BY <1>4, <2>1, FS_Subset
<1>6. Cardinality(P \cap Q) > Cardinality(G)
  BY <1>2, <1>3, <1>5, QuorumsMeet DEF FewForget
<1>7. ~(P \cap Q \subseteq G)
  <2>1. P \cap Q \subseteq G => Cardinality(P \cap Q) <= Cardinality(G)
    BY <1>1, FS_Subset
  <2> QED
    BY <1>2, <1>6, <2>1
<1> QED
  BY <1>7

\* Two values cannot both be prepared by a quorum in one view and sequence.
LEMMA OnePrepared ==
    ASSUME NEW G \in SUBSET Replica, FewForget(G), VoteInv(G), NEW v \in Nat,
           NEW s, NEW val1, NEW val2, PQ(msgs, v, s, val1), PQ(msgs, v, s, val2)
    PROVE  val1 = val2
<1> DEFINE P == In(msgs, "prepare", v, s, val1)
           Q == In(msgs, "prepare", v, s, val2)
<1>1. Primary(v) \in Replica
  BY DEF Primary, Replica
<1>2. \A val : In(msgs, "prepare", v, s, val) \subseteq Replica \ {Primary(v)}
  BY DEF In, VoteInv, BackupsPrepare, PhaseMsg
<1>3. Cardinality(P) >= GetQuorumSize /\ Cardinality(Q) >= GetQuorumSize
  BY DEF PQ
<1>4. PICK r \in P \cap Q : r \notin G
  <2>1. P \subseteq Replica \ {Primary(v)} /\ Q \subseteq Replica \ {Primary(v)}
    BY <1>2
  <2> HIDE DEF P, Q
  <2> QED
    BY <1>1, <1>3, <2>1, PrepareQuorumsMeet
<1>5. /\ PhaseMsg("prepare", v, s, val1, r) \in msgs
      /\ PhaseMsg("prepare", v, s, val2, r) \in msgs
  BY <1>4 DEF In
<1> QED
  BY <1>4, <1>5 DEF VoteInv, PreparesOnce, PhaseMsg

\* With fewer than two validators no replica is a backup.
LEMMA SomeBackups ==
    ASSUME NEW G \in SUBSET Replica, FewForget(G)
    PROVE  N > 1 /\ GetQuorumSize \in Nat /\ GetQuorumSize > 0
<1>1. Cardinality(G) \in Nat
  BY ReplicaFinite, FS_Subset, FS_CardinalityType
<1>2. N = 1 => GetQuorumSize = 0
  BY DEF GetQuorumSize
<1> QED
  BY <1>1, <1>2, QuorumsMeet DEF FewForget

\* The votes of one view, for any set G of replicas that forget.
LEMMA Votes ==
    ASSUME NEW G \in SUBSET Replica, FewForget(G)
    PROVE  Spec /\ [][Remembering(G)]_vars => [](TypeOK /\ QuorumInv /\ VoteInv(G))
<1>1. Init => VoteInv(G)
  BY InitVotes
<1>2. TypeOK /\ TypeOK' /\ VoteInv(G) /\ [Next]_vars /\ [Remembering(G)]_vars
          => VoteInv(G)'
  BY SomeBackups, VoteStep
<1> QED
  BY <1>1, <1>2, Invariants, PTL DEF Spec

\* Whatever is committed in a view and sequence is one value.
LEMMA OneCommitted ==
    ASSUME NEW G \in SUBSET Replica, FewForget(G), TypeOK, QuorumInv, VoteInv(G)
    PROVE  OneValuePerView /\ SameProofSameLedger
<1>1. ASSUME NEW m \in msgs, m.type = "commit"
      PROVE  m.view \in Nat /\ PQ(msgs, m.view, m.seq, m.value)
  BY <1>1, MessageTypes DEF TypeOK, PhaseMessage, QuorumInv, CommitHasPrepares
<1>2. OneValuePerView
  BY <1>1, OnePrepared DEF OneValuePerView
<1>3. ASSUME NEW r \in Replica, NEW p \in Replica, NEW k \in 1..Len(ledger[r]),
             NEW l \in 1..Len(ledger[p]), proofs[r][k] = proofs[p][l]
      PROVE  SubSeq(ledger[r], 1, k) = SubSeq(ledger[p], 1, l)
  <2> DEFINE v == proofs[r][k].view
             s == proofs[r][k].seq
             x == SubSeq(ledger[r], 1, k)
             y == SubSeq(ledger[p], 1, l)
  <2>1. CQ(msgs, v, s, x) /\ CQ(msgs, v, s, y)
    BY <1>3 DEF QuorumInv, ProofHasQuorum
  <2> HIDE DEF v, s, x, y
  <2>2. PICK m \in msgs : m.type = "commit" /\ m.view = v /\ m.seq = s /\ m.value = x
    BY <2>1, QuorumHasCommit
  <2>3. PICK n \in msgs : n.type = "commit" /\ n.view = v /\ n.seq = s /\ n.value = y
    BY <2>1, QuorumHasCommit
  <2>4. x = y
    BY <1>2, <2>2, <2>3 DEF OneValuePerView
  <2> QED
    BY <2>4 DEF x, y
<1> QED
  BY <1>2, <1>3 DEF SameProofSameLedger

\* In a view and sequence no replica, and no two replicas, commit to different
\* values, in whatever order pre-prepares, timeouts, new views and syncs come and
\* instances are erased.  The replicas that forget their votes (by a crash, by a
\* trace-out to an earlier view, by an UpdateValidators that goes on with the
\* view) may be as many as two quorums of prepares share beyond one: none of
\* four replicas, one of five.
THEOREM CommitsOnceAlways ==
    ASSUME NEW G \in SUBSET Replica, FewForget(G)
    PROVE  Spec /\ [][Remembering(G)]_vars => [](CommitsOnce /\ OneValuePerView)
<1>1. TypeOK /\ QuorumInv /\ VoteInv(G) => CommitsOnce /\ OneValuePerView
  <2>1. OneValuePerView => CommitsOnce
    BY DEF OneValuePerView, CommitsOnce
  <2> QED
    BY <2>1, OneCommitted
<1> QED
  BY <1>1, Votes, PTL

\* Two ledgers closed with proofs that name the same view and sequence are the
\* same chain, closed by execution or by sync.
THEOREM SameProofSameLedgerAlways ==
    ASSUME NEW G \in SUBSET Replica, FewForget(G)
    PROVE  Spec /\ [][Remembering(G)]_vars => []SameProofSameLedger
<1>1. TypeOK /\ QuorumInv /\ VoteInv(G) => SameProofSameLedger
  BY OneCommitted
<1> QED
  BY <1>1, Votes, PTL

-----------------------------------------------------------------------------
(* Without timeouts *)

\* No view change is under way, so none completes.
LEMMA NoViewChanges ==
    ASSUME StepInv, NEW r, NEW v
    PROVE  ~OnViewChange(r, v) /\ ~NewViewTimeout(r, v)
<1>1. ~\E m \in msgs : m.type = "viewchange"
  BY DEF StepInv, OneSequencePerView
<1>2. \A V \in ViewChangeQuorums(v) : V = {}
  BY <1>1 DEF ViewChangeQuorums
<1>3. ViewChangeQuorums(v) = {}
  <2> SUFFICES ASSUME NEW V \in ViewChangeQuorums(v) PROVE FALSE
    OBVIOUS
  <2>1. {m.from : m \in V} = {}
    BY <1>2
  <2>2. Cardinality({m.from : m \in V}) = 0
    BY <2>1, FS_EmptySet
  <2>3. Cardinality({m.from : m \in V}) > GetQuorumSize
    BY DEF ViewChangeQuorums
  <2> QED
    BY <2>2, <2>3, QuorumsMeet
<1> QED
  BY <1>3, ZenonT(40) DEF OnViewChange, NewViewTimeout

\* What TryExecuteValue executes is in step.
LEMMA ExecutedExtends ==
    ASSUME NEW G \in SUBSET Replica, FewForget(G), TypeOK, QuorumInv, VoteInv(G),
           StepInv, NEW r \in Replica, NEW i \in Executable(r)
    PROVE  ExecutedInStep(r, i)
<1>0. OneValuePerView /\ SameProofSameLedger
  BY OneCommitted
<1>1. /\ i \in instances[r] /\ i.phase = COMMITED /\ i.seq = last_exe_seq[r] + 1
      /\ i \in Instance
  BY DEF Executable, TypeOK
<1>2. i.view \in Nat /\ i.seq \in Nat /\ i.value \in Seq(Content)
  BY <1>1 DEF Instance, Value
<1>3. CQ(msgs, i.view, i.seq, i.value)
  BY <1>1 DEF QuorumInv, CommitedHasQuorum
<1>4. PICK c \in msgs : /\ c.type = "commit" /\ c.view = i.view /\ c.seq = i.seq
                        /\ c.value = i.value
  BY <1>3, QuorumHasCommit
<1>5. i.seq = Base + i.view + 1
  BY <1>4 DEF StepInv, OneSequencePerView
<1>6. i.view <= Len(ledger[r])
  BY <1>1, <1>2, <1>5, StepTypes DEF StepInv, InStep, ViewBehind
<1>7. PICK b \in Replica : PhaseMsg("prepare", i.view, i.seq, i.value, b) \in msgs
  <2>1. PQ(msgs, i.view, i.seq, i.value)
    BY <1>4 DEF QuorumInv, CommitHasPrepares
  <2>2. Cardinality(In(msgs, "prepare", i.view, i.seq, i.value)) # 0
    BY <2>1, SomeBackups DEF PQ
  <2>3. In(msgs, "prepare", i.view, i.seq, i.value) # {}
    BY <2>2, FS_EmptySet
  <2> QED
    BY <2>3 DEF In
<1>8. /\ i.view < Len(i.value) /\ Len(i.value) <= Len(ledger[b]) + 1
      /\ SubSeq(i.value, 1, Len(i.value) - 1)
             = SubSeq(ledger[b], 1, Len(i.value) - 1)
  <2> DEFINE m == PhaseMsg("prepare", i.view, i.seq, i.value, b)
  <2>1. /\ m.type = "prepare" /\ m.view = i.view /\ m.value = i.value /\ m.from = b
        /\ m \in msgs
    BY <1>7 DEF PhaseMsg
  <2> HIDE DEF m
  <2> QED
    BY <2>1 DEF StepInv, PreparedExtends
<1>9. Len(i.value) \in Nat
  BY <1>2
<1>10. Len(i.value) = i.view + 1
  <2> SUFFICES ASSUME Len(i.value) # i.view + 1 PROVE FALSE
    OBVIOUS
  <2> DEFINE h == i.view + 1
  <2>1. h \in 1..Len(ledger[b])
    <3>1. Len(ledger[b]) \in Nat
      BY StepTypes
    <3> QED
      BY <1>2, <1>8, <1>9, <3>1
  <2>2. proofs[b][h].view + 1 = h /\ proofs[b][h].seq = Base + h
    BY <2>1, Zenon DEF StepInv, InStep, ProofsInStep
  <2>3. proofs[b][h].view \in Nat
    <3>1. proofs[b] \in Seq(Proof) /\ Len(proofs[b]) = Len(ledger[b])
      BY StepTypes DEF QuorumInv, Lengths
    <3>2. proofs[b][h] \in Proof
      BY <2>1, <3>1
    <3> QED
      BY <3>2 DEF Proof
  <2>4. proofs[b][h].view = i.view /\ proofs[b][h].seq = i.seq
    BY <1>2, <1>5, <2>2, <2>3, SMTT(20), Z3T(20) DEF Base
  <2> DEFINE x == SubSeq(ledger[b], 1, h)
  <2>5. CQ(msgs, i.view, i.seq, x)
    BY <2>1, <2>4 DEF QuorumInv, ProofHasQuorum
  <2> HIDE DEF x
  <2>6. PICK n \in msgs : /\ n.type = "commit" /\ n.view = i.view /\ n.seq = i.seq
                          /\ n.value = x
    BY <2>5, QuorumHasCommit
  <2>7. i.value = x
    BY <1>0, <1>4, <2>6 DEF OneValuePerView
  <2>8. Len(x) = h
    <3>1. \A k \in 1..h : ledger[b][k] \in Content
      BY <2>1, StepTypes
    <3> QED
      BY <1>2, <3>1 DEF x
  <2> QED
    BY <1>2, <2>7, <2>8
<1>11. ASSUME i.view = Len(ledger[r])
       PROVE  ExtendsLedger(r, i.value) /\ Closes(r, i) = {TRUE}
  <2>1. SubSeq(i.value, 1, i.view) = SubSeq(ledger[b], 1, i.view)
    <3>1. Len(i.value) - 1 = i.view
      BY <1>2, <1>10
    <3> QED
      BY <1>8, <3>1
  <2>2. i.view <= Len(ledger[b])
    BY <1>2, <1>8, <1>10, StepTypes
  <2>3. SubSeq(ledger[b], 1, i.view) = SubSeq(ledger[r], 1, i.view)
    BY <1>0, <1>2, <1>6, <2>2, LedgersAgree
  <2>4. SubSeq(ledger[r], 1, i.view) = ledger[r]
    BY <1>11, StepTypes
  <2>5. ExtendsLedger(r, i.value)
    BY <1>10, <1>11, <2>1, <2>3, <2>4 DEF ExtendsLedger
  <2>6. ~i.traced
    BY <1>1 DEF StepInv, InStep, InstancesCurrent
  <2>7. ~Split("commit", i.view, i.seq, i.value)
    BY <1>0, <1>4 DEF Split, OneValuePerView
  <2>8. ~(Cardinality(Voters("commit", i.view, i.seq, i.value)) < GetQuorumSize + 1)
    <3>1. Voters("commit", i.view, i.seq, i.value)
              = In(msgs, "commit", i.view, i.seq, i.value)
      BY DEF Voters, In
    <3> QED
      BY <1>3, <3>1, VotersFinite, QuorumsMeet DEF CQ
  <2> QED
    BY <2>5, <2>6, <2>7, <2>8, ZenonT(40) DEF Closes, CheckProof
<1>12. ASSUME i.view # Len(ledger[r]) PROVE Closes(r, i) = {FALSE}
  <2>1. ~ExtendsLedger(r, i.value)
    BY <1>2, <1>10, <1>12, StepTypes DEF ExtendsLedger
  <2> QED
    BY <2>1, ZenonT(40) DEF Closes
<1> QED
  BY <1>1, <1>2, <1>5, <1>6, <1>11, <1>12, Zenon DEF ExecutedInStep

\* The steps of a behaviour without timeouts preserve the invariant.
LEMMA StepsInStep ==
    ASSUME NEW G \in SUBSET Replica, FewForget(G), ckp_interval > 0,
           TypeOK, QuorumInv, VoteInv(G), StepInv, [Next]_vars,
           [Undisturbed(G)]_vars
    PROVE  StepInv' /\ [Remembering(G)]_vars
<1>1. CASE UNCHANGED vars
  <2>1. StepInv'
    BY <1>1, StepFrame DEF vars
  <2> QED
    BY <1>1, <2>1
<1>2. CASE ~UNCHANGED vars
  <2>1. Undisturbed(G) /\ Next
    BY <1>2
  <2>2. Remembering(G)
    BY <2>1, UndisturbedRemembers
  <2> SUFFICES StepInv'
    BY <2>2
  <2>3. PICK r \in Replica :
          \/ StartConsensus(r)
          \/ \E m \in msgs : OnRecv(r, m)
          \/ ExecuteValue(r)
          \/ ExecuteDone(r)
          \/ RunPosted(r)
          \/ \E p \in Replica : SyncLedger(r, p)
          \/ OnTxTimeout(r)
          \/ \E v \in Nat : OnViewChange(r, v)
          \/ \E v \in Nat : NewViewTimeout(r, v)
          \/ Restart(r)
    BY <2>1, NextCases
  <2>4. ~OnTxTimeout(r) /\ \A m \in msgs : ~OnFarCommit(r, m)
    BY <2>1 DEF Undisturbed
  <2>5. \A v : ~OnViewChange(r, v) /\ ~NewViewTimeout(r, v)
    BY NoViewChanges
  <2>6. ASSUME NEW m \in msgs, OnRecv(r, m) PROVE StepInv'
    <3>1. ~OnTracedCommit(r, m)
      BY NoTraceOut
    <3>2. ~OnNewView(r, m)
      BY DEF StepInv, OneSequencePerView, OnNewView
    <3>3. OnPrePrepare(r, m) \/ OnPrepare(r, m) \/ OnCommit(r, m)
      BY <2>4, <2>6, <3>1, <3>2, Zenon DEF OnRecv
    <3> QED
      BY <3>3, StepRecv
  <2>7. CASE ExecuteDone(r)
    <3>1. UNCHANGED <<view_number, last_exe_seq, instances, posted, ledger, proofs,
                      saved_view, msgs>>
      BY <2>7 DEF ExecuteDone
    <3> QED
      BY <3>1, StepFrame
  <2>8. CASE StartConsensus(r)
    BY <2>8, StepStart, Zenon
  <2>9. CASE ExecuteValue(r)
    <3>1. \A i \in Executable(r) : ExecutedInStep(r, i)
      BY ExecutedExtends
    <3> QED
      BY <2>9, <3>1, StepExecute, Zenon
  <2>10. CASE RunPosted(r)
    BY <2>10, StepPosted, Zenon
  <2>11. CASE \E p \in Replica : SyncLedger(r, p)
    BY <2>11, StepSync, Zenon
  <2>12. CASE Restart(r)
    BY <2>12, StepRestart, Zenon
  <2> QED
    BY <2>3, <2>4, <2>5, <2>6, <2>7, <2>8, <2>9, <2>10, <2>11, <2>12
<1> QED
  BY <1>1, <1>2

\* As long as no timer asks for a view change and no commit leads a replica past
\* what it has executed, two replicas never close different ledgers at one
\* height, whatever is lost, repeated or reordered, whatever the checks of a value
\* answer and however ledgers come by execution, by sync and after the restarts
\* of G.  Executing a value before the view is raised, and proposing only after,
\* is what keeps the views and the heights in step.
THEOREM AgreementWithoutTimeouts ==
    ASSUME NEW G \in SUBSET Replica, FewForget(G), ckp_interval > 0
    PROVE  Spec /\ [][Undisturbed(G)]_vars => []Agreement
<1>1. Init => VoteInv(G) /\ StepInv
  BY InitVotes, InitStep
<1>2. (/\ TypeOK /\ TypeOK' /\ QuorumInv /\ VoteInv(G) /\ StepInv
       /\ [Next]_vars /\ [Undisturbed(G)]_vars)
          => VoteInv(G)' /\ StepInv'
  <2> SUFFICES ASSUME TypeOK, TypeOK', QuorumInv, VoteInv(G), StepInv, [Next]_vars,
                      [Undisturbed(G)]_vars
               PROVE  VoteInv(G)' /\ StepInv'
    OBVIOUS
  <2>1. StepInv' /\ [Remembering(G)]_vars
    BY StepsInStep, Zenon
  <2>2. VoteInv(G)'
    BY <2>1, SomeBackups, VoteStep
  <2> QED
    BY <2>1, <2>2
<1>3. TypeOK /\ QuorumInv /\ VoteInv(G) /\ StepInv => Agreement
  <2> SUFFICES ASSUME TypeOK, QuorumInv, VoteInv(G), StepInv,
                      NEW r \in Replica, NEW p \in Replica,
                      Len(ledger[r]) <= Len(ledger[p])
               PROVE  SubSeq(ledger[p], 1, Len(ledger[r])) = ledger[r]
    BY DEF Agreement
  <2>1. ledger[r] \in Seq(Content) /\ Len(ledger[r]) \in Nat
    BY StepTypes
  <2>2. SubSeq(ledger[r], 1, Len(ledger[r])) = SubSeq(ledger[p], 1, Len(ledger[r]))
    <3>1. SameProofSameLedger
      BY OneCommitted
    <3> QED
      BY <2>1, <3>1, LedgersAgree
  <2> QED
    BY <2>1, <2>2
<1> QED
  BY <1>1, <1>2, <1>3, Invariants, PTL DEF Spec
=============================================================================

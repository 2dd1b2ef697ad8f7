--------------------------- MODULE PbftStepProofs ---------------------------
(***************************************************************************)
(* What one step of Pbft preserves in general: the types, the quorum       *)
(* behind whatever is committed, and the view.  That a step keeps the      *)
(* quorums is a hypothesis (QuorumsKept) that PbftProofs proves.           *)
(***************************************************************************)
EXTENDS PbftChainProofs

\* The provers of a leaf that names none.
USE SMT, Zenon, Z3T(20)

USE ConstantsAssumption

-----------------------------------------------------------------------------
(* Type correctness *)

\* The message constructors.
LEMMA MessagesMade ==
    ASSUME NEW v \in Nat, NEW r \in Replica
    PROVE  /\ \A s \in Nat, val \in Value,
                  t \in {"preprepare", "prepare", "commit"} :
                      PhaseMsg(t, v, s, val, r) \in Message
           /\ \A c \in Cert : ViewChange(v, r, c) \in Message
           /\ NewView(v, r) \in Message
BY DEF Message, PhaseMsg, ViewChange, NewView

\* What a leader proposes is a value.
LEMMA ProposalsType ==
    ASSUME TypeOK, NEW r \in Replica, NEW v, NEW last \in Value
    PROVE  Proposals(r, v, last) \in SUBSET Value
<1>1. ledger[r] \in Seq(Content)
  BY DEF TypeOK, Value
<1>2. \A c \in Content : Append(ledger[r], c) \in Seq(Content)
  BY <1>1
<1>3. {Append(ledger[r], c) : c \in Fresh(v) \cap Content} \in SUBSET Value
  BY <1>2, Zenon DEF Value
<1> QED
  BY <1>3, ZenonT(40) DEF Proposals

\* The prepared sets a view change carries, its own or one received.
LEMMA CertsType ==
    ASSUME TypeOK, NEW r \in Replica
    PROVE  /\ PreparedSets(r) \in SUBSET Cert
           /\ \A v : \A V \in ViewChangeQuorums(v) : BestCerts(r, V) \in SUBSET Cert
<1>1. <<>> \in Value
  BY DEF Value
<1>2. NoCert \in Cert
  BY <1>1 DEF NoCert, Cert, NoValue
<1>3. PreparedSets(r) \in SUBSET Cert
  <2>1. instances[r] \in SUBSET Instance
    BY DEF TypeOK
  <2>2. ASSUME NEW i \in instances[r], NEW x \in BOOLEAN
        PROVE  [view |-> i.view, seq |-> i.seq, value |-> i.value, bad |-> x] \in Cert
    BY <2>1 DEF Instance, Cert
  <2>3. SUFFICES ASSUME NEW c \in PreparedSets(r), c # NoCert
                 PROVE  c \in Cert
    BY <1>2
  <2>4. \E i \in instances[r], x \in BOOLEAN :
            c = [view |-> i.view, seq |-> i.seq, value |-> i.value, bad |-> x]
    BY <2>3, ZenonT(40) DEF PreparedSets
  <2> QED
    BY <2>2, <2>4
<1>4. ASSUME NEW v, NEW V \in ViewChangeQuorums(v)
      PROVE  BestCerts(r, V) \in SUBSET Cert
  <2>1. \A m \in V : m.cert \in Cert
    BY <1>4, MessageTypes DEF ViewChangeQuorums, TypeOK
  <2> QED
    BY <1>2, <2>1 DEF BestCerts
<1> QED
  BY <1>3, <1>4

\* UpdateValidators keeps the types of what it changes.
LEMMA UpdateValidatorsType ==
    ASSUME NEW st \in ReplicaState, NEW pf, pf.view \in Nat, pf.seq \in Nat
    PROVE  UpdateValidators(st, pf) \in ReplicaState
BY DEF UpdateValidators, ReplicaState

\* The types of the first state.
LEMMA InitTypes == Init => TypeOK /\ Lengths
<1>1. <<>> \in Value /\ <<>> \in Seq(Task) /\ <<>> \in Seq(Proof)
  BY DEF Value
<1>2. ASSUME Init PROVE start_timer \in [Replica -> BOOLEAN]
  BY <1>2 DEF Init, IsLeader
<1> QED
  BY <1>1, <1>2 DEF Init, TypeOK, Base, Task, Proof, Lengths

\* What the steps of the replicas are.
LEMMA NextCases ==
    ASSUME Next
    PROVE  \E r \in Replica :
               \/ StartConsensus(r)
               \/ \E m \in msgs : OnRecv(r, m)
               \/ ExecuteValue(r)
               \/ ExecuteDone(r)
               \/ RunPosted(r)
               \/ \E p \in Replica : SyncLedger(r, p)
               \/ OnTxTimeout(r)
               \/ \E v \in Nat : OnViewChange(r, v)
               \/ \E v \in Nat : NewViewTimeout(r, v)
               \/ Restart(r)
<1>1. Live \subseteq Replica /\ 0..MaxView \subseteq Nat
  OBVIOUS
<1> QED
  BY <1>1, Zenon DEF Next

\* Every step keeps the types.
LEMMA TypeStep == TypeOK /\ Lengths /\ [Next]_vars => TypeOK'
<1> SUFFICES ASSUME TypeOK, Lengths, [Next]_vars PROVE TypeOK'
  OBVIOUS
<1>1. CASE UNCHANGED vars
  BY <1>1, ZenonT(40) DEF TypeOK, vars, Instance, Message, Cert, Value
<1>2. CASE Next
  <2>1. PICK r \in Replica :
          \/ StartConsensus(r)
          \/ \E m \in msgs : OnRecv(r, m)
          \/ ExecuteValue(r)
          \/ ExecuteDone(r)
          \/ RunPosted(r)
          \/ \E p \in Replica : SyncLedger(r, p)
          \/ OnTxTimeout(r)
          \/ \E v \in Nat : OnViewChange(r, v)
          \/ \E v \in Nat : NewViewTimeout(r, v)
          \/ Restart(r)
    BY <1>2, NextCases
  <2>2. CASE StartConsensus(r)
    <3>1. CASE IsLeader(r) /\ view_active[r]
      <4>1. PICK val \in Proposals(r, view_number[r], NoValue) :
              /\ instances' = [instances EXCEPT ![r] =
                    Requested(@, last_exe_seq[r], view_number[r], val)]
              /\ msgs' = msgs \cup {PhaseMsg("preprepare", view_number[r],
                                             last_exe_seq[r] + 1, val, r)}
        BY <2>2, <3>1 DEF StartConsensus
      <4>2. <<>> \in Value
        BY DEF Value
      <4>3. val \in Value
        BY <4>2, ProposalsType DEF NoValue
      <4>4. Requested(instances[r], last_exe_seq[r], view_number[r], val)
              \in SUBSET Instance
        BY <4>3, InstancesMade DEF TypeOK
      <4>5. PhaseMsg("preprepare", view_number[r], last_exe_seq[r] + 1, val, r)
              \in Message
        BY <4>3, MessagesMade DEF TypeOK
      <4> QED
        BY <2>2, <4>1, <4>4, <4>5 DEF StartConsensus, TypeOK
    <3>2. CASE ~(IsLeader(r) /\ view_active[r])
      BY <2>2, <3>2 DEF StartConsensus, TypeOK
    <3> QED
      BY <3>1, <3>2
  <2>3. CASE \E m \in msgs : OnRecv(r, m)
    <3>1. PICK m \in msgs : OnRecv(r, m)
      BY <2>3
    <3> m \in Message
      BY <3>1 DEF TypeOK
    <3>2. CASE OnPrePrepare(r, m)
      <4>1. m \in PhaseMessage
        BY <3>2, MessageTypes DEF OnPrePrepare
      <4>2. PICK i \in InstanceOf(r, m), chk \in CheckValue(r, m.value) :
              LET j == PrePrepared(r, i, m, chk) IN
              /\ instances' = [instances EXCEPT ![r] = OtherInstances(r, m) \cup {j}]
              /\ msgs' = IF Answers(r, m) /\ chk /\ j.value = m.value
                           THEN msgs \cup {PhaseMsg("prepare", m.view, m.seq,
                                                    m.value, r)}
                           ELSE msgs
        BY <3>2, ZenonT(40) DEF OnPrePrepare
      <4>3. chk \in BOOLEAN
        BY <4>2, ZenonT(40) DEF CheckValue
      <4>4. PrePrepared(r, i, m, chk) \in Instance
        <5>1. PrePreparedInstance(m.view, m.seq, m.value, chk) \in Instance
          <6>1. m.view \in Nat /\ m.seq \in Nat /\ m.value \in Value
            BY <4>1 DEF PhaseMessage
          <6> QED
            BY <4>3, <6>1, InstancesMade, Zenon
        <5> QED
          BY <4>1, <5>1, InstanceOfType DEF PrePrepared
      <4>5. msgs' \subseteq Message
        <5>1. PhaseMsg("prepare", m.view, m.seq, m.value, r) \in Message
          BY <4>1, MessagesMade DEF PhaseMessage
        <5> QED
          BY <4>2, <5>1 DEF TypeOK
      <4>6. instances' \in [Replica -> SUBSET Instance]
        BY <4>1, <4>2, <4>4, InstanceOfType DEF TypeOK
      <4> QED
        BY <3>2, <4>5, <4>6 DEF OnPrePrepare, TypeOK
    <3>3. CASE OnPrepare(r, m)
      <4>1. m \in PhaseMessage
        BY <3>3, MessageTypes DEF OnPrepare
      <4>2. PICK i \in InstanceOf(r, m) :
              LET quorum == /\ i.phase >= PREPREPARED /\ i.value = m.value
                            /\ PrepareQuorum(m)
                  j == IF quorum /\ i.phase < PREPARED
                         THEN [i EXCEPT !.phase = PREPARED] ELSE i
              IN  /\ instances' = [instances EXCEPT ![r] =
                                      OtherInstances(r, m) \cup {j}]
                  /\ msgs' = IF quorum /\ i.check
                               THEN msgs \cup {PhaseMsg("commit", m.view, m.seq,
                                                        m.value, r)}
                               ELSE msgs
        BY <3>3, ZenonT(40) DEF OnPrepare
      <4>3. i \in Instance /\ [i EXCEPT !.phase = PREPARED] \in Instance
        <5>1. i \in Instance
          BY <4>1, InstanceOfType
        <5> QED
          BY <5>1 DEF Instance, PREPARED, NONE, COMMITED
      <4>4. msgs' \subseteq Message
        <5>1. PhaseMsg("commit", m.view, m.seq, m.value, r) \in Message
          BY <4>1, MessagesMade DEF PhaseMessage
        <5> QED
          BY <4>2, <5>1 DEF TypeOK
      <4>5. instances' \in [Replica -> SUBSET Instance]
        BY <4>1, <4>2, <4>3, InstanceOfType, ZenonT(40) DEF TypeOK
      <4> QED
        BY <3>3, <4>4, <4>5, ZenonT(40) DEF OnPrepare, TypeOK
    <3>4. CASE OnCommit(r, m)
      <4>1. m \in PhaseMessage
        BY <3>4, MessageTypes DEF OnCommit
      <4>2. PICK i \in InstanceOf(r, m) :
              LET done == i.phase = PREPARED /\ i.value = m.value /\ CommitQuorum(i)
                  j == IF done THEN CommitedInstance(i, FALSE) ELSE i
              IN  /\ instances' = [instances EXCEPT ![r] =
                                      OtherInstances(r, m) \cup {j}]
                  /\ executing' = [executing EXCEPT ![r] = done]
        BY <3>4, ZenonT(40) DEF OnCommit
      <4>3. i \in Instance /\ CommitedInstance(i, FALSE) \in Instance
        BY <4>1, InstanceOfType, InstancesMade, Zenon
      <4>4. instances' \in [Replica -> SUBSET Instance]
        BY <4>1, <4>2, <4>3, InstanceOfType, ZenonT(40) DEF TypeOK
      <4>5. executing' \in [Replica -> BOOLEAN]
        BY <4>2 DEF TypeOK
      <4> QED
        BY <3>4, <4>4, <4>5, ZenonT(40) DEF OnCommit, TypeOK
    <3>5. CASE OnTracedCommit(r, m)
      <4>1. PICK i \in instances[r] :
              instances' = [instances EXCEPT ![r] =
                               (@ \ {i}) \cup {CommitedInstance(i, TRUE)}]
        BY <3>5, ZenonT(40) DEF OnTracedCommit
      <4>2. i \in Instance
        BY DEF TypeOK
      <4>3. CommitedInstance(i, TRUE) \in Instance
        BY <4>2, InstancesMade, Zenon
      <4> QED
        BY <3>5, <4>1, <4>3, ZenonT(40) DEF OnTracedCommit, TypeOK
    <3>6. CASE OnFarCommit(r, m)
      <4>1. m.view \in Nat /\ m.seq \in Nat
        BY <3>6, MessageTypes DEF OnFarCommit, TracedOut, PhaseMessage
      <4>2. /\ view_number' = [view_number EXCEPT ![r] = m.view]
            /\ last_exe_seq' = [last_exe_seq EXCEPT ![r] = m.seq]
            /\ instances' = [instances EXCEPT ![r] = {i \in @ : i.seq > m.seq}]
        BY <3>6 DEF OnFarCommit
      <4>3. /\ view_number' \in [Replica -> Nat] /\ last_exe_seq' \in [Replica -> Nat]
            /\ instances' \in [Replica -> SUBSET Instance]
        BY <4>1, <4>2 DEF TypeOK
      <4> QED
        BY <3>6, <4>3, ZenonT(40) DEF OnFarCommit, TypeOK
    <3>7. CASE OnNewView(r, m)
      <4>1. m.view \in Nat
        BY <3>7, MessageTypes DEF OnNewView
      <4> QED
        BY <3>7, <4>1 DEF OnNewView, TypeOK, KeptInstances
    <3> QED
      BY <3>1, <3>2, <3>3, <3>4, <3>5, <3>6, <3>7 DEF OnRecv
  <2>4. CASE ExecuteValue(r)
    <3>1. PICK i \in Executable(r) :
            /\ last_exe_seq' = [last_exe_seq EXCEPT ![r] = i.seq]
            /\ \E closes \in Closes(r, i) :
                 LET pf == [view |-> i.view, seq |-> i.seq] IN
                 IF closes
                   THEN /\ ledger' = [ledger EXCEPT ![r] = i.value]
                        /\ proofs' = [proofs EXCEPT ![r] = Append(@, pf)]
                        /\ posted' = [posted EXCEPT ![r] =
                                         @ \o <<ValidatorsTask(pf), ArmTask>>]
                   ELSE /\ posted' = [posted EXCEPT ![r] = Append(@, ArmTask)]
                        /\ UNCHANGED <<ledger, proofs>>
            /\ instances' = [instances EXCEPT ![r] =
                  {j \in @ : j.seq + (ckp_interval \div 2) > i.seq}]
      BY <2>4, ZenonT(40) DEF ExecuteValue
    <3> DEFINE pf == [view |-> i.view, seq |-> i.seq]
    <3>2. i.view \in Nat /\ i.seq \in Nat /\ i.value \in Value
      BY DEF Executable, TypeOK, Instance
    <3>3. ValidatorsTask(pf) \in Task /\ ArmTask \in Task /\ pf \in Proof
      BY <3>2 DEF ValidatorsTask, ArmTask, Task, Proof
    <3> HIDE DEF pf
    <3>4. posted[r] \in Seq(Task) /\ proofs[r] \in Seq(Proof)
      BY DEF TypeOK, Task, Proof
    <3>5. <<ValidatorsTask(pf), ArmTask>> \in Seq(Task)
      BY <3>3
    <3>6. /\ posted[r] \o <<ValidatorsTask(pf), ArmTask>> \in Seq(Task)
          /\ Append(posted[r], ArmTask) \in Seq(Task)
          /\ Append(proofs[r], pf) \in Seq(Proof)
      BY <3>3, <3>4, <3>5
    <3>7. \/ /\ ledger' = [ledger EXCEPT ![r] = i.value]
             /\ proofs' = [proofs EXCEPT ![r] = Append(@, pf)]
             /\ posted' = [posted EXCEPT ![r] =
                              @ \o <<ValidatorsTask(pf), ArmTask>>]
          \/ /\ posted' = [posted EXCEPT ![r] = Append(@, ArmTask)]
             /\ UNCHANGED <<ledger, proofs>>
      BY <3>1, Zenon DEF pf
    <3>8. /\ ledger' \in [Replica -> Value]
          /\ proofs' \in [Replica -> Seq(Proof)]
          /\ posted' \in [Replica -> Seq(Task)]
      BY <3>2, <3>6, <3>7, ZenonT(40) DEF TypeOK, Task, Proof
    <3>9. instances' \in [Replica -> SUBSET Instance]
      BY <3>1 DEF TypeOK
    <3> QED
      BY <2>4, <3>1, <3>2, <3>8, <3>9, ZenonT(40)
         DEF ExecuteValue, TypeOK, Task, Proof
  <2>5. CASE ExecuteDone(r)
    BY <2>5 DEF ExecuteDone, TypeOK
  <2>6. CASE RunPosted(r)
    <3>1. posted[r] \in Seq(Task) /\ posted[r] # <<>>
      BY <2>6 DEF TypeOK, Task, RunPosted
    <3>2. Head(posted[r]) \in Task /\ Tail(posted[r]) \in Seq(Task)
      BY <3>1
    <3>3. posted' \in [Replica -> Seq(Task)]
      BY <2>6, <3>2 DEF RunPosted, TypeOK, Task
    <3> DEFINE st == UpdateValidators(StateOf(r), Head(posted[r]))
    <3>4. st \in ReplicaState
      <4>1. StateOf(r) \in ReplicaState
        BY DEF StateOf, ReplicaState, TypeOK
      <4> QED
        BY <3>2, <4>1, UpdateValidatorsType DEF Task
    <3>5. CASE Head(posted[r]).task = "validators"
      <4>1. /\ view_number' = [view_number EXCEPT ![r] = st.view]
            /\ last_exe_seq' = [last_exe_seq EXCEPT ![r] = st.last]
            /\ view_active' = [view_active EXCEPT ![r] = st.active]
            /\ saved_view' = [saved_view EXCEPT ![r] = st.saved]
            /\ instances' = [instances EXCEPT ![r] = st.inst]
            /\ UNCHANGED <<start_timer, executing, ledger, proofs, msgs, restarts>>
        BY <2>6, <3>5 DEF RunPosted
      <4> HIDE DEF st
      <4> QED
        BY <3>3, <3>4, <4>1 DEF TypeOK, Task, ReplicaState
    <3>6. CASE Head(posted[r]).task # "validators"
      <4>1. /\ start_timer' = [start_timer EXCEPT ![r] = @ \/ IsLeader(r)]
            /\ UNCHANGED <<view_number, last_exe_seq, view_active, instances,
                           saved_view, executing, ledger, proofs, msgs, restarts>>
        BY <2>6, <3>6 DEF RunPosted
      <4> QED
        BY <3>3, <4>1 DEF TypeOK, Task
    <3> QED
      BY <3>5, <3>6
  <2>7. CASE \E p \in Replica : SyncLedger(r, p)
    <3>1. PICK p \in Replica : SyncLedger(r, p)
      BY <2>7
    <3> DEFINE h == Len(ledger[r])
    <3>2. PICK n \in (h + 1)..Len(ledger[p]) :
            /\ ledger' = [ledger EXCEPT ![r] = SubSeq(ledger[p], 1, n)]
            /\ proofs' = [proofs EXCEPT ![r] = @ \o SubSeq(proofs[p], h + 1, n)]
            /\ posted' = [posted EXCEPT ![r] = @ \o
                  [k \in 1..(n - h) |-> ValidatorsTask(proofs[p][h + k])]]
      BY <3>1, ZenonT(40) DEF SyncLedger
    <3>3. /\ ledger[r] \in Seq(Content) /\ ledger[p] \in Seq(Content)
          /\ proofs[p] \in Seq(Proof) /\ proofs[r] \in Seq(Proof)
          /\ posted[r] \in Seq(Task)
          /\ Len(proofs[p]) = Len(ledger[p])
      BY DEF TypeOK, Lengths, Value, Proof, Task
    <3>4. h \in Nat /\ n \in Nat /\ 1 <= h + 1 /\ h + 1 <= n /\ n <= Len(proofs[p])
      BY <3>3
    <3> HIDE DEF h
    <3>5. SubSeq(ledger[p], 1, n) \in Value
      <4>1. \A k \in 1..n : ledger[p][k] \in Content
        BY <3>3, <3>4
      <4> QED
        BY <3>4, <4>1 DEF Value
    <3>6. \A k \in (h + 1)..n : proofs[p][k] \in Proof
      BY <3>3, <3>4
    <3>7. proofs[r] \o SubSeq(proofs[p], h + 1, n) \in Seq(Proof)
      <4>1. SubSeq(proofs[p], h + 1, n) \in Seq(Proof)
        BY <3>4, <3>6
      <4> QED
        BY <3>3, <4>1
    <3> DEFINE tasks == [k \in 1..(n - h) |-> ValidatorsTask(proofs[p][h + k])]
    <3>8. posted[r] \o tasks \in Seq(Task)
      <4>1. \A k \in 1..(n - h) : ValidatorsTask(proofs[p][h + k]) \in Task
        BY <3>4, <3>6 DEF ValidatorsTask, Task, Proof
      <4>2. n - h \in Nat
        BY <3>4
      <4>3. tasks \in Seq(Task)
        BY <4>1, <4>2
      <4> QED
        BY <3>3, <4>3
    <3>9. posted' = [posted EXCEPT ![r] = @ \o tasks]
      BY <3>2
    <3> HIDE DEF tasks
    <3>10. /\ ledger' \in [Replica -> Value]
           /\ proofs' \in [Replica -> Seq(Proof)]
           /\ posted' \in [Replica -> Seq(Task)]
      BY <3>2, <3>5, <3>7, <3>8, <3>9, ZenonT(40) DEF TypeOK, Proof, Task
    <3> QED
      BY <3>1, <3>10, ZenonT(40) DEF SyncLedger, TypeOK, Proof, Task
  <2>8. CASE OnTxTimeout(r)
    <3>1. PICK c \in PreparedSets(r) :
            msgs' = msgs \cup {ViewChange(view_number[r] + 1, r, c)}
      BY <2>8 DEF OnTxTimeout
    <3>2. view_number[r] + 1 \in Nat /\ c \in Cert
      BY CertsType DEF TypeOK
    <3>3. ViewChange(view_number[r] + 1, r, c) \in Message
      BY <3>2, MessagesMade
    <3> QED
      BY <2>8, <3>1, <3>3 DEF OnTxTimeout, TypeOK
  <2>9. ASSUME NEW v \in Nat, OnViewChange(r, v) PROVE TypeOK'
    <3>0. PICK V \in ViewChangeQuorums(v) : \E c \in BestCerts(r, V) :
            \/ /\ instances' = [instances EXCEPT ![r] = KeptInstances(r)]
               /\ msgs' = msgs \cup {NewView(v, r)}
            \/ \E val \in Proposals(r, v, c.value) :
               /\ instances' = [instances EXCEPT ![r] =
                     Requested(KeptInstances(r), last_exe_seq[r], v, val)]
               /\ msgs' = msgs \cup {NewView(v, r), PhaseMsg("preprepare", v,
                                              last_exe_seq[r] + 1, val, r)}
      BY <2>9 DEF OnViewChange
    <3>1. PICK c \in BestCerts(r, V) :
            \/ /\ instances' = [instances EXCEPT ![r] = KeptInstances(r)]
               /\ msgs' = msgs \cup {NewView(v, r)}
            \/ \E val \in Proposals(r, v, c.value) :
               /\ instances' = [instances EXCEPT ![r] =
                     Requested(KeptInstances(r), last_exe_seq[r], v, val)]
               /\ msgs' = msgs \cup {NewView(v, r), PhaseMsg("preprepare", v,
                                              last_exe_seq[r] + 1, val, r)}
      BY <3>0
    <3>2. v \in Nat /\ last_exe_seq[r] \in Nat /\ last_exe_seq[r] + 1 \in Nat
      BY DEF TypeOK
    <3>3. c.value \in Value
      BY CertsType DEF Cert
    <3>4. NewView(v, r) \in Message
      BY <3>2, MessagesMade
    <3>5. KeptInstances(r) \in SUBSET Instance
      BY DEF KeptInstances, TypeOK
    <3>6. ASSUME NEW val \in Proposals(r, v, c.value)
          PROVE  /\ Requested(KeptInstances(r), last_exe_seq[r], v, val)
                      \in SUBSET Instance
                 /\ PhaseMsg("preprepare", v, last_exe_seq[r] + 1, val, r)
                      \in Message
      <4>1. val \in Value
        BY <3>3, ProposalsType
      <4> QED
        BY <3>2, <3>5, <4>1, InstancesMade, MessagesMade
    <3>7. /\ view_number' = [view_number EXCEPT ![r] = v]
          /\ view_active' = [view_active EXCEPT ![r] = TRUE]
          /\ saved_view' = [saved_view EXCEPT ![r] = v]
          /\ UNCHANGED <<last_exe_seq, executing, start_timer, posted, ledger,
                         proofs, restarts>>
      BY <2>9 DEF OnViewChange
    <3>8. /\ instances' \in [Replica -> SUBSET Instance]
          /\ msgs' \subseteq Message
      BY <3>1, <3>4, <3>5, <3>6, ZenonT(40) DEF TypeOK
    <3> QED
      BY <3>2, <3>7, <3>8, ZenonT(40) DEF TypeOK
  <2>10. ASSUME NEW v \in Nat, NewViewTimeout(r, v) PROVE TypeOK'
    <3>1. PICK V \in ViewChangeQuorums(v) : \E best \in BestCerts(r, V) :
            \E c \in IF best # NoCert THEN {best} ELSE PreparedSets(r) :
                msgs' = msgs \cup {ViewChange(v + 1, r, c)}
      BY <2>10 DEF NewViewTimeout
    <3>2. PICK c \in Cert : msgs' = msgs \cup {ViewChange(v + 1, r, c)}
      BY <3>1, CertsType
    <3>3. ViewChange(v + 1, r, c) \in Message
      BY MessagesMade
    <3>4. msgs' \subseteq Message
      BY <3>2, <3>3 DEF TypeOK
    <3> QED
      BY <2>10, <3>4, ZenonT(40) DEF NewViewTimeout, TypeOK
  <2>11. CASE Restart(r)
    <3> DEFINE st == IF proofs[r] = <<>> THEN Loaded(r)
                     ELSE UpdateValidators(Loaded(r), proofs[r][Len(proofs[r])])
    <3>1. Loaded(r) \in ReplicaState
      BY DEF Loaded, ReplicaState, TypeOK, Base
    <3>2. st \in ReplicaState
      <4>1. CASE proofs[r] # <<>>
        <5>1. proofs[r] \in Seq(Proof)
          BY DEF TypeOK, Proof
        <5>2. proofs[r][Len(proofs[r])] \in Proof
          BY <4>1, <5>1
        <5> QED
          BY <3>1, <4>1, <5>2, UpdateValidatorsType DEF Proof
      <4> QED
        BY <3>1, <4>1
    <3>3. /\ view_number' = [view_number EXCEPT ![r] = st.view]
          /\ view_active' = [view_active EXCEPT ![r] = st.active]
          /\ last_exe_seq' = [last_exe_seq EXCEPT ![r] = st.last]
          /\ saved_view' = [saved_view EXCEPT ![r] = st.saved]
      BY <2>11 DEF Restart
    <3> HIDE DEF st
    <3>4. <<>> \in Seq(Task)
      OBVIOUS
    <3>5. /\ view_number' \in [Replica -> Nat]
          /\ view_active' \in [Replica -> BOOLEAN]
          /\ last_exe_seq' \in [Replica -> Nat]
          /\ saved_view' \in [Replica -> Nat]
      BY <3>2, <3>3 DEF TypeOK, ReplicaState
    <3> QED
      BY <2>11, <3>4, <3>5 DEF Restart, TypeOK, Task
  <2> QED
    BY <2>1, <2>2, <2>3, <2>4, <2>5, <2>6, <2>7, <2>8, <2>9, <2>10, <2>11
<1> QED
  BY <1>1, <1>2

-----------------------------------------------------------------------------
(* What has a quorum behind it *)

\* Nothing ever leaves msgs.
LEMMA MessagesStay == [Next]_vars => msgs \subseteq msgs'
<1>1. CASE UNCHANGED vars
  BY <1>1 DEF vars
<1>2. CASE Next
  <2>1. PICK r \in Replica :
          \/ StartConsensus(r)
          \/ \E m \in msgs : OnRecv(r, m)
          \/ ExecuteValue(r)
          \/ ExecuteDone(r)
          \/ RunPosted(r)
          \/ \E p \in Replica : SyncLedger(r, p)
          \/ OnTxTimeout(r)
          \/ \E v \in Nat : OnViewChange(r, v)
          \/ \E v \in Nat : NewViewTimeout(r, v)
          \/ Restart(r)
    BY <1>2, NextCases
  <2>2. (\E m \in msgs : OnRecv(r, m)) => msgs \subseteq msgs'
    BY ZenonT(40) DEF OnRecv, OnPrePrepare, OnPrepare, OnCommit, OnTracedCommit,
       OnFarCommit, OnNewView
  <2>3. StartConsensus(r) \/ ExecuteValue(r) \/ ExecuteDone(r) \/ RunPosted(r)
            \/ Restart(r) => msgs \subseteq msgs'
    BY Zenon DEF StartConsensus, ExecuteValue, ExecuteDone, RunPosted, Restart
  <2>4. OnTxTimeout(r) \/ (\E p \in Replica : SyncLedger(r, p)) => msgs \subseteq msgs'
    BY ZenonT(40) DEF OnTxTimeout, SyncLedger
  <2>5. (\E v \in Nat : OnViewChange(r, v) \/ NewViewTimeout(r, v))
            => msgs \subseteq msgs'
    BY ZenonT(40) DEF OnViewChange, NewViewTimeout
  <2> QED
    BY <2>1, <2>2, <2>3, <2>4, <2>5
<1> QED
  BY <1>1, <1>2

\* What a step leaves alone keeps its quorum.
LEMMA QuorumFrame ==
    ASSUME QuorumInv, msgs \subseteq msgs', QuorumsKept
    PROVE  /\ UNCHANGED instances => CommitedHasQuorum'
           /\ UNCHANGED posted => PostedHasQuorum'
           /\ UNCHANGED <<ledger, proofs>> => Lengths' /\ ProofHasQuorum'
           /\ UNCHANGED last_exe_seq => ExecutedHasQuorum'
           /\ (\A m \in msgs' \ msgs : m.type # "commit") => CommitHasPrepares(msgs')
<1>1. /\ \A v, s, val : CQ(msgs, v, s, val) => CQ(msgs', v, s, val)
      /\ \A v, s, val : PQ(msgs, v, s, val) => PQ(msgs', v, s, val)
  BY DEF QuorumsKept
<1>2. \A v, s : SomeQuorum(msgs, v, s) => SomeQuorum(msgs', v, s)
  BY <1>1 DEF SomeQuorum
<1>3. UNCHANGED instances => CommitedHasQuorum'
  BY <1>1 DEF QuorumInv, CommitedHasQuorum
<1>4. UNCHANGED posted => PostedHasQuorum'
  BY <1>2 DEF QuorumInv, PostedHasQuorum
<1>5. UNCHANGED <<ledger, proofs>> => Lengths' /\ ProofHasQuorum'
  BY <1>1 DEF QuorumInv, ProofHasQuorum, Lengths
<1>6. UNCHANGED last_exe_seq => ExecutedHasQuorum'
  BY <1>2 DEF QuorumInv, ExecutedHasQuorum
<1>7. (\A m \in msgs' \ msgs : m.type # "commit") => CommitHasPrepares(msgs')
  BY <1>1 DEF QuorumInv, CommitHasPrepares
<1> QED
  BY <1>3, <1>4, <1>5, <1>6, <1>7

\* A step that changes the instances of one replica: the committed ones were
\* there, or have their quorum.
LEMMA InstancesChange ==
    ASSUME QuorumInv, TypeOK, msgs \subseteq msgs', QuorumsKept,
           NEW r \in Replica, NEW I,
           instances' = [instances EXCEPT ![r] = I],
           \A i \in I : i.phase = COMMITED =>
               i \in instances[r] \/ CQ(msgs, i.view, i.seq, i.value)
    PROVE  CommitedHasQuorum'
<1>1. \A v, s, val : CQ(msgs, v, s, val) => CQ(msgs', v, s, val)
  BY DEF QuorumsKept
<1>2. ASSUME NEW p \in Replica, NEW i \in instances'[p], i.phase = COMMITED
      PROVE  CQ(msgs', i.view, i.seq, i.value)
  BY <1>1, <1>2 DEF QuorumInv, CommitedHasQuorum, TypeOK
<1> QED
  BY <1>2 DEF CommitedHasQuorum

\* The same for the last executed sequence.
LEMMA ExecutedChange ==
    ASSUME QuorumInv, TypeOK, msgs \subseteq msgs', QuorumsKept,
           NEW r \in Replica, NEW s,
           last_exe_seq' = [last_exe_seq EXCEPT ![r] = s],
           s > Base => s = last_exe_seq[r] \/ \E v : SomeQuorum(msgs, v, s)
    PROVE  ExecutedHasQuorum'
<1>1. \A v, t : SomeQuorum(msgs, v, t) => SomeQuorum(msgs', v, t)
  BY DEF QuorumsKept, SomeQuorum
<1>2. ASSUME NEW p \in Replica, last_exe_seq'[p] > Base
      PROVE  \E v : SomeQuorum(msgs', v, last_exe_seq'[p])
  BY <1>1, <1>2 DEF QuorumInv, ExecutedHasQuorum, TypeOK
<1> QED
  BY <1>2 DEF ExecutedHasQuorum, Base

\* The same for the posted tasks.
LEMMA PostedChange ==
    ASSUME QuorumInv, TypeOK, msgs \subseteq msgs', QuorumsKept,
           NEW r \in Replica, NEW P,
           posted' = [posted EXCEPT ![r] = P],
           \A k \in 1..Len(P) : P[k].task = "validators" =>
               SomeQuorum(msgs, P[k].view, P[k].seq)
    PROVE  PostedHasQuorum'
<1>1. \A v, t : SomeQuorum(msgs, v, t) => SomeQuorum(msgs', v, t)
  BY DEF QuorumsKept, SomeQuorum
<1>2. ASSUME NEW p \in Replica, NEW k \in 1..Len(posted'[p]),
             posted'[p][k].task = "validators"
      PROVE  SomeQuorum(msgs', posted'[p][k].view, posted'[p][k].seq)
  <2>1. CASE p = r
    <3>1. posted'[p] = P
      BY <2>1 DEF TypeOK
    <3> QED
      BY <1>1, <1>2, <3>1
  <2>2. CASE p # r
    <3>1. posted'[p] = posted[p]
      BY <2>2 DEF TypeOK
    <3> QED
      BY <1>1, <1>2, <3>1 DEF QuorumInv, PostedHasQuorum
  <2> QED
    BY <2>1, <2>2
<1> QED
  BY <1>2 DEF PostedHasQuorum

\* The same for the closed ledgers and their proofs.
LEMMA LedgerChange ==
    ASSUME QuorumInv, TypeOK, msgs \subseteq msgs', QuorumsKept,
           NEW r \in Replica, NEW L, NEW P,
           ledger' = [ledger EXCEPT ![r] = L], proofs' = [proofs EXCEPT ![r] = P],
           Len(L) = Len(P),
           \A k \in 1..Len(L) : CQ(msgs, P[k].view, P[k].seq, SubSeq(L, 1, k))
    PROVE  Lengths' /\ ProofHasQuorum'
<1>1. \A v, s, val : CQ(msgs, v, s, val) => CQ(msgs', v, s, val)
  BY DEF QuorumsKept
<1>2. ASSUME NEW p \in Replica
      PROVE  /\ Len(ledger'[p]) = Len(proofs'[p])
             /\ \A k \in 1..Len(ledger'[p]) :
                  CQ(msgs', proofs'[p][k].view, proofs'[p][k].seq,
                     SubSeq(ledger'[p], 1, k))
  <2>1. CASE p = r
    <3>1. ledger'[p] = L /\ proofs'[p] = P
      BY <2>1 DEF TypeOK
    <3> QED
      BY <1>1, <3>1
  <2>2. CASE p # r
    <3>1. ledger'[p] = ledger[p] /\ proofs'[p] = proofs[p]
      BY <2>2 DEF TypeOK
    <3> QED
      BY <1>1, <3>1 DEF QuorumInv, ProofHasQuorum, Lengths
  <2> QED
    BY <2>1, <2>2
<1> QED
  BY <1>2 DEF ProofHasQuorum, Lengths

\* The handlers of messages preserve the invariant.
LEMMA QuorumRecv ==
    ASSUME QuorumInv, TypeOK, msgs \subseteq msgs', QuorumsKept,
           NEW r \in Replica,
           NEW m \in msgs, OnRecv(r, m)
    PROVE  QuorumInv'
<1>1. m \in Message
  BY DEF TypeOK
<1>2. OtherInstances(r, m) \subseteq instances[r]
  BY DEF OtherInstances
<1>3. \A i \in InstanceOf(r, m) : i \in instances[r] \/ i.phase = NONE
  BY DEF InstanceOf, NewInstance
<1>4. NONE # COMMITED /\ PREPREPARED # COMMITED /\ PREPARED # COMMITED
  BY DEF NONE, PREPREPARED, PREPARED, COMMITED
<1>5. CASE OnPrePrepare(r, m)
  <2>1. PICK i \in InstanceOf(r, m), chk \in CheckValue(r, m.value) :
          LET j == PrePrepared(r, i, m, chk) IN
          /\ instances' = [instances EXCEPT ![r] = OtherInstances(r, m) \cup {j}]
          /\ msgs' = IF Answers(r, m) /\ chk /\ j.value = m.value
                       THEN msgs \cup {PhaseMsg("prepare", m.view, m.seq, m.value, r)}
                       ELSE msgs
    BY <1>5, ZenonT(40) DEF OnPrePrepare
  <2> DEFINE j == PrePrepared(r, i, m, chk)
  <2>2. j.phase = COMMITED => j \in instances[r]
    BY <1>3, <1>4 DEF PrePrepared, PrePreparedInstance
  <2>3. instances' = [instances EXCEPT ![r] = OtherInstances(r, m) \cup {j}]
    BY <2>1
  <2>4. CommitedHasQuorum'
    <3> HIDE DEF j
    <3> DEFINE I == OtherInstances(r, m) \cup {j}
    <3>1. \A x \in I : x.phase = COMMITED =>
              x \in instances[r] \/ CQ(msgs, x.view, x.seq, x.value)
      BY <1>2, <2>2
    <3>2. instances' = [instances EXCEPT ![r] = I]
      BY <2>3
    <3> HIDE DEF I
    <3> QED
      BY <3>1, <3>2, InstancesChange, ZenonT(40)
  <2>5. \A x \in msgs' \ msgs : x.type # "commit"
    BY <2>1 DEF PhaseMsg
  <2>6. UNCHANGED <<posted, ledger, proofs, last_exe_seq>>
    BY <1>5 DEF OnPrePrepare
  <2> QED
    BY <2>4, <2>5, <2>6, QuorumFrame DEF QuorumInv
<1>6. CASE OnPrepare(r, m)
  <2>1. PICK i \in InstanceOf(r, m) :
          LET quorum == /\ i.phase >= PREPREPARED /\ i.value = m.value
                        /\ PrepareQuorum(m)
              j == IF quorum /\ i.phase < PREPARED
                     THEN [i EXCEPT !.phase = PREPARED] ELSE i
          IN  /\ instances' = [instances EXCEPT ![r] = OtherInstances(r, m) \cup {j}]
              /\ msgs' = IF quorum /\ i.check
                           THEN msgs \cup {PhaseMsg("commit", m.view, m.seq, m.value, r)}
                           ELSE msgs
    BY <1>6, ZenonT(40) DEF OnPrepare
  <2> DEFINE quorum == /\ i.phase >= PREPREPARED /\ i.value = m.value
                       /\ PrepareQuorum(m)
             j == IF quorum /\ i.phase < PREPARED
                    THEN [i EXCEPT !.phase = PREPARED] ELSE i
  <2>2. j.phase = COMMITED => j \in instances[r]
    <3>1. m \in PhaseMessage
      BY <1>1, <1>6, MessageTypes DEF OnPrepare
    <3>2. i \in Instance
      BY <3>1, InstanceOfType
    <3>3. [i EXCEPT !.phase = PREPARED].phase = PREPARED
      BY <3>2 DEF Instance
    <3> QED
      BY <1>3, <1>4, <3>3
  <2>3. instances' = [instances EXCEPT ![r] = OtherInstances(r, m) \cup {j}]
    BY <2>1
  <2>4. CommitedHasQuorum'
    <3> HIDE DEF j
    <3> DEFINE I == OtherInstances(r, m) \cup {j}
    <3>1. \A x \in I : x.phase = COMMITED => x \in instances[r]
      BY <1>2, <2>2
    <3>2. instances' = [instances EXCEPT ![r] = I]
      BY <2>3
    <3> HIDE DEF I
    <3> QED
      BY <3>1, <3>2, InstancesChange, ZenonT(40)
  <2>5. CommitHasPrepares(msgs')
    <3>1. CASE PrepareQuorum(m)
      <4>1. Voters("prepare", m.view, m.seq, m.value)
                = In(msgs, "prepare", m.view, m.seq, m.value)
        BY DEF Voters, In
      <4>2. PQ(msgs, m.view, m.seq, m.value)
        BY <3>1, <4>1 DEF PrepareQuorum, PQ
      <4>3. \A v, s, val : PQ(msgs, v, s, val) => PQ(msgs', v, s, val)
        BY DEF QuorumsKept
      <4>4. \A x \in msgs' \ msgs :
                x.view = m.view /\ x.seq = m.seq /\ x.value = m.value
        BY <2>1 DEF PhaseMsg
      <4>5. ASSUME NEW x \in msgs', x.type = "commit"
            PROVE  PQ(msgs', x.view, x.seq, x.value)
        <5>1. CASE x \in msgs
          BY <4>3, <4>5, <5>1 DEF QuorumInv, CommitHasPrepares
        <5>2. CASE x \notin msgs
          BY <4>2, <4>3, <4>4, <5>2
        <5> QED
          BY <5>1, <5>2
      <4> QED
        BY <4>5 DEF CommitHasPrepares
    <3>2. CASE ~PrepareQuorum(m)
      <4>1. msgs' = msgs
        BY <2>1, <3>2
      <4> QED
        BY <4>1, QuorumFrame
    <3> QED
      BY <3>1, <3>2
  <2>6. UNCHANGED <<posted, ledger, proofs, last_exe_seq>>
    BY <1>6 DEF OnPrepare
  <2> QED
    BY <2>4, <2>5, <2>6, QuorumFrame DEF QuorumInv
<1>7. ASSUME NEW i, CommitQuorum(i)
      PROVE  CQ(msgs, i.view, i.seq, i.value)
  BY <1>7 DEF CommitQuorum, CQ, Voters, In
<1>8. CASE OnCommit(r, m)
  <2>1. PICK i \in InstanceOf(r, m) :
          LET done == i.phase = PREPARED /\ i.value = m.value /\ CommitQuorum(i)
              j == IF done THEN CommitedInstance(i, FALSE) ELSE i
          IN  instances' = [instances EXCEPT ![r] = OtherInstances(r, m) \cup {j}]
    BY <1>8, ZenonT(40) DEF OnCommit
  <2> DEFINE done == i.phase = PREPARED /\ i.value = m.value /\ CommitQuorum(i)
             j == IF done THEN CommitedInstance(i, FALSE) ELSE i
  <2>2. j.phase = COMMITED =>
            j \in instances[r] \/ CQ(msgs, j.view, j.seq, j.value)
    <3>1. CASE done
      BY <1>7, <3>1 DEF CommitedInstance
    <3>2. CASE ~done
      BY <1>3, <1>4, <3>2, ZenonT(40)
    <3> QED
      BY <3>1, <3>2, ZenonT(40)
  <2>3. instances' = [instances EXCEPT ![r] = OtherInstances(r, m) \cup {j}]
    BY <2>1
  <2>4. CommitedHasQuorum'
    <3> HIDE DEF j
    <3> DEFINE I == OtherInstances(r, m) \cup {j}
    <3>1. \A x \in I : x.phase = COMMITED =>
              x \in instances[r] \/ CQ(msgs, x.view, x.seq, x.value)
      BY <1>2, <2>2
    <3>2. instances' = [instances EXCEPT ![r] = I]
      BY <2>3
    <3> HIDE DEF I
    <3> QED
      BY <3>1, <3>2, InstancesChange, ZenonT(40)
  <2>5. UNCHANGED <<posted, ledger, proofs, last_exe_seq, msgs>>
    BY <1>8 DEF OnCommit
  <2> QED
    BY <2>4, <2>5, QuorumFrame DEF QuorumInv
<1>9. CASE OnTracedCommit(r, m)
  <2>1. PICK i \in instances[r] :
          /\ CommitQuorum(i)
          /\ instances' = [instances EXCEPT ![r] =
                              (@ \ {i}) \cup {CommitedInstance(i, TRUE)}]
    BY <1>9, ZenonT(40) DEF OnTracedCommit
  <2> DEFINE I == (instances[r] \ {i}) \cup {CommitedInstance(i, TRUE)}
  <2>2. \A x \in I : x \in instances[r] \/ CQ(msgs, x.view, x.seq, x.value)
    BY <1>7, <2>1 DEF CommitedInstance
  <2>3. instances' = [instances EXCEPT ![r] = I]
    BY <2>1
  <2> HIDE DEF I
  <2>4. CommitedHasQuorum'
    BY <2>2, <2>3, InstancesChange, ZenonT(40)
  <2>5. UNCHANGED <<posted, ledger, proofs, last_exe_seq, msgs>>
    BY <1>9 DEF OnTracedCommit
  <2> QED
    BY <2>4, <2>5, QuorumFrame, Zenon DEF QuorumInv
<1>10. CASE OnFarCommit(r, m)
  <2>1. /\ CommitQuorum(m)
        /\ last_exe_seq' = [last_exe_seq EXCEPT ![r] = m.seq]
        /\ instances' = [instances EXCEPT ![r] = {i \in @ : i.seq > m.seq}]
        /\ UNCHANGED <<posted, ledger, proofs, msgs>>
    BY <1>10 DEF OnFarCommit
  <2>2. SomeQuorum(msgs, m.view, m.seq)
    BY <1>7, <2>1 DEF SomeQuorum
  <2>3. ExecutedHasQuorum'
    BY <2>1, <2>2, ExecutedChange, ZenonT(40)
  <2>4. CommitedHasQuorum'
    BY <2>1, InstancesChange, Zenon
  <2> QED
    BY <2>1, <2>3, <2>4, QuorumFrame DEF QuorumInv
<1>11. CASE OnNewView(r, m)
  <2>1. /\ instances' = [instances EXCEPT ![r] = KeptInstances(r)]
        /\ UNCHANGED <<posted, ledger, proofs, last_exe_seq, msgs>>
    BY <1>11 DEF OnNewView
  <2>2. KeptInstances(r) \subseteq instances[r]
    BY DEF KeptInstances
  <2>3. CommitedHasQuorum'
    BY <2>1, <2>2, InstancesChange, ZenonT(40)
  <2> QED
    BY <2>1, <2>3, QuorumFrame DEF QuorumInv
<1> QED
  BY <1>5, <1>6, <1>8, <1>9, <1>10, <1>11 DEF OnRecv

\* One turn of TryExecuteValue's loop preserves the invariant.
LEMMA QuorumExecute ==
    ASSUME QuorumInv, TypeOK, msgs \subseteq msgs', QuorumsKept,
           NEW r \in Replica, ExecuteValue(r)
    PROVE  QuorumInv'
<1>1. PICK i \in Executable(r) :
        /\ last_exe_seq' = [last_exe_seq EXCEPT ![r] = i.seq]
        /\ \E closes \in Closes(r, i) :
             LET pf == [view |-> i.view, seq |-> i.seq] IN
             IF closes
               THEN /\ ledger' = [ledger EXCEPT ![r] = i.value]
                    /\ proofs' = [proofs EXCEPT ![r] = Append(@, pf)]
                    /\ posted' = [posted EXCEPT ![r] =
                                     @ \o <<ValidatorsTask(pf), ArmTask>>]
               ELSE /\ posted' = [posted EXCEPT ![r] = Append(@, ArmTask)]
                    /\ UNCHANGED <<ledger, proofs>>
        /\ instances' = [instances EXCEPT ![r] =
              {j \in @ : j.seq + (ckp_interval \div 2) > i.seq}]
  BY ZenonT(40) DEF ExecuteValue
<1> DEFINE pf == [view |-> i.view, seq |-> i.seq]
<1>2. /\ i \in instances[r] /\ i.phase = COMMITED
      /\ i.view \in Nat /\ i.seq \in Nat /\ i.value \in Seq(Content)
  BY DEF Executable, TypeOK, Instance, Value
<1>3. CQ(msgs, i.view, i.seq, i.value)
  BY <1>2 DEF QuorumInv, CommitedHasQuorum
<1>4. SomeQuorum(msgs, i.view, i.seq)
  BY <1>3 DEF SomeQuorum
<1>5. CommitedHasQuorum'
  <2> DEFINE I == {j \in instances[r] : j.seq + (ckp_interval \div 2) > i.seq}
  <2>1. instances' = [instances EXCEPT ![r] = I] /\ I \subseteq instances[r]
    BY <1>1
  <2> HIDE DEF I
  <2> QED
    BY <2>1, InstancesChange, ZenonT(40)
<1>6. ExecutedHasQuorum'
  BY <1>1, <1>4, ExecutedChange, ZenonT(40)
<1>7. CommitHasPrepares(msgs')
  BY QuorumFrame DEF ExecuteValue
<1>8. posted[r] \in Seq(Task) /\ ArmTask \in Task /\ ValidatorsTask(pf) \in Task
  BY <1>2 DEF TypeOK, Task, ArmTask, ValidatorsTask
<1>9. \A k \in 1..Len(posted[r]) : posted[r][k].task = "validators" =>
          SomeQuorum(msgs, posted[r][k].view, posted[r][k].seq)
  BY DEF QuorumInv, PostedHasQuorum
<1>10. CASE /\ ledger' = [ledger EXCEPT ![r] = i.value]
            /\ proofs' = [proofs EXCEPT ![r] = Append(@, pf)]
            /\ posted' = [posted EXCEPT ![r] = @ \o <<ValidatorsTask(pf), ArmTask>>]
            /\ ExtendsLedger(r, i.value)
  <2>1. PostedHasQuorum'
    <3> DEFINE P == posted[r] \o <<ValidatorsTask(pf), ArmTask>>
    <3>1. \A k \in 1..Len(P) : P[k].task = "validators" =>
              SomeQuorum(msgs, P[k].view, P[k].seq)
      <4>1. <<ValidatorsTask(pf), ArmTask>> \in Seq(Task)
        BY <1>8
      <4>2. /\ Len(P) = Len(posted[r]) + 2
            /\ \A k \in 1..Len(posted[r]) + 2 : P[k] =
                  IF k <= Len(posted[r]) THEN posted[r][k]
                  ELSE <<ValidatorsTask(pf), ArmTask>>[k - Len(posted[r])]
        BY <1>8, <4>1
      <4>3. ArmTask.task # "validators"
        BY DEF ArmTask
      <4>4. SomeQuorum(msgs, ValidatorsTask(pf).view, ValidatorsTask(pf).seq)
        BY <1>4 DEF ValidatorsTask
      <4>5. Len(posted[r]) \in Nat
        BY <1>8
      <4> HIDE DEF P, pf
      <4> TAKE k \in 1..Len(P)
      <4>6. CASE k <= Len(posted[r])
        BY <1>9, <4>2, <4>5, <4>6
      <4>7. CASE k = Len(posted[r]) + 1
        BY <4>2, <4>4, <4>5, <4>7
      <4>8. CASE k = Len(posted[r]) + 2
        BY <4>2, <4>3, <4>5, <4>8
      <4> QED
        BY <4>2, <4>5, <4>6, <4>7, <4>8
    <3>2. posted' = [posted EXCEPT ![r] = P]
      BY <1>10
    <3> HIDE DEF P
    <3> QED
      BY <3>1, <3>2, PostedChange, ZenonT(40)
  <2>2. Lengths' /\ ProofHasQuorum'
    <3> DEFINE h == Len(ledger[r])
               P == Append(proofs[r], pf)
    <3>1. /\ ledger[r] \in Seq(Content) /\ proofs[r] \in Seq(Proof)
          /\ Len(proofs[r]) = h /\ pf \in Proof /\ h \in Nat
      BY <1>2 DEF TypeOK, QuorumInv, Lengths, Proof, Value
    <3>2. Len(i.value) = h + 1 /\ SubSeq(i.value, 1, h) = ledger[r]
      BY <1>10 DEF ExtendsLedger
    <3>3. /\ Len(P) = h + 1
          /\ \A k \in 1..h : P[k] = proofs[r][k]
          /\ P[h + 1] = pf
      BY <3>1
    <3>4. \A k \in 1..Len(i.value) :
              CQ(msgs, P[k].view, P[k].seq, SubSeq(i.value, 1, k))
      <4> SUFFICES ASSUME NEW k \in 1..Len(i.value)
                   PROVE  CQ(msgs, P[k].view, P[k].seq, SubSeq(i.value, 1, k))
        BY Zenon
      <4>1. CASE k \in 1..h
        <5>1. SubSeq(i.value, 1, k) = SubSeq(ledger[r], 1, k)
          <6>1. i.value \in Seq(Content) /\ h \in 0..Len(i.value) /\ k \in 1..h
            BY <1>2, <3>1, <3>2, <4>1
          <6>2. SubSeq(SubSeq(i.value, 1, h), 1, k) = SubSeq(i.value, 1, k)
            BY <6>1, PrefixOfPrefix
          <6> QED
            BY <3>2, <6>2, Zenon
        <5> QED
          BY <3>3, <4>1, <5>1, ZenonT(40) DEF QuorumInv, ProofHasQuorum
      <4>2. CASE k = h + 1
        <5>1. SubSeq(i.value, 1, k) = i.value
          BY <1>2, <3>2, <4>2
        <5>2. P[k].view = i.view /\ P[k].seq = i.seq
          BY <3>3, <4>2
        <5> QED
          BY <1>3, <5>1, <5>2, ZenonT(40)
      <4>3. k \in 1..h \/ k = h + 1
        BY <3>1, <3>2
      <4> HIDE DEF P, h
      <4> QED
        BY <4>1, <4>2, <4>3
    <3>5. /\ ledger' = [ledger EXCEPT ![r] = i.value]
          /\ proofs' = [proofs EXCEPT ![r] = P]
          /\ Len(i.value) = Len(P)
      BY <1>10, <3>2, <3>3
    <3> HIDE DEF P, h
    <3> QED
      BY <3>4, <3>5, LedgerChange, ZenonT(40)
  <2> QED
    BY <1>5, <1>6, <1>7, <2>1, <2>2 DEF QuorumInv
<1>11. CASE /\ posted' = [posted EXCEPT ![r] = Append(@, ArmTask)]
            /\ UNCHANGED <<ledger, proofs>>
  <2> DEFINE P == Append(posted[r], ArmTask)
  <2>1. \A k \in 1..Len(P) : P[k].task = "validators" =>
            SomeQuorum(msgs, P[k].view, P[k].seq)
    <3>1. /\ Len(P) = Len(posted[r]) + 1
          /\ \A k \in 1..Len(posted[r]) : P[k] = posted[r][k]
          /\ P[Len(posted[r]) + 1] = ArmTask
      BY <1>8
    <3>2. ArmTask.task # "validators" /\ Len(posted[r]) \in Nat
      BY <1>8 DEF ArmTask
    <3> HIDE DEF P
    <3> QED
      BY <1>9, <3>1, <3>2
  <2>2. posted' = [posted EXCEPT ![r] = P]
    BY <1>11
  <2>3. PostedHasQuorum'
    <3> HIDE DEF P
    <3> QED
      BY <2>1, <2>2, PostedChange, Zenon
  <2> QED
    BY <1>5, <1>6, <1>7, <1>11, <2>3, QuorumFrame DEF QuorumInv
<1>12. TRUE \in Closes(r, i) => ExtendsLedger(r, i.value)
  BY ZenonT(40) DEF Closes
<1>13. Closes(r, i) \subseteq BOOLEAN
  BY ZenonT(40) DEF Closes, CheckProof
<1> QED
  <2>1. PICK closes \in Closes(r, i) :
          IF closes
            THEN /\ ledger' = [ledger EXCEPT ![r] = i.value]
                 /\ proofs' = [proofs EXCEPT ![r] = Append(@, pf)]
                 /\ posted' = [posted EXCEPT ![r] =
                                  @ \o <<ValidatorsTask(pf), ArmTask>>]
            ELSE /\ posted' = [posted EXCEPT ![r] = Append(@, ArmTask)]
                 /\ UNCHANGED <<ledger, proofs>>
    BY <1>1, Zenon DEF pf
  <2>2. closes = TRUE \/ closes = FALSE
    BY <1>13, Zenon
  <2> HIDE DEF pf
  <2>3. CASE closes = TRUE
    <3>1. ExtendsLedger(r, i.value)
      BY <1>12, <2>3
    <3> QED
      BY <1>10, <2>1, <2>3, <3>1, Zenon
  <2>4. CASE closes = FALSE
    BY <1>11, <2>1, <2>4, Zenon
  <2> QED
    BY <2>2, <2>3, <2>4, ZenonT(40)

\* A posted task preserves the invariant.
LEMMA QuorumPosted ==
    ASSUME QuorumInv, TypeOK, msgs \subseteq msgs', QuorumsKept,
           NEW r \in Replica, RunPosted(r)
    PROVE  QuorumInv'
<1> DEFINE t == Head(posted[r])
           st == UpdateValidators(StateOf(r), t)
<1>1. posted[r] \in Seq(Task) /\ posted[r] # <<>>
  BY DEF TypeOK, Task, RunPosted
<1>2. /\ Len(posted[r]) \in Nat \ {0} /\ t = posted[r][1] /\ t \in Task
      /\ Len(Tail(posted[r])) = Len(posted[r]) - 1
      /\ \A k \in 1..Len(Tail(posted[r])) : Tail(posted[r])[k] = posted[r][k + 1]
  BY <1>1
<1>3. /\ posted' = [posted EXCEPT ![r] = Tail(posted[r])]
      /\ UNCHANGED <<ledger, proofs, msgs>>
  BY DEF RunPosted
<1>4. PostedHasQuorum'
  <2> DEFINE P == Tail(posted[r])
  <2>1. ASSUME NEW k \in 1..Len(P), P[k].task = "validators"
        PROVE  SomeQuorum(msgs, P[k].view, P[k].seq)
    <3>1. k + 1 \in 1..Len(posted[r]) /\ P[k] = posted[r][k + 1]
      BY <1>2
    <3> QED
      BY <2>1, <3>1 DEF QuorumInv, PostedHasQuorum
  <2>2. posted' = [posted EXCEPT ![r] = P]
    BY <1>3
  <2> HIDE DEF P
  <2> QED
    BY <2>1, <2>2, PostedChange, ZenonT(40)
<1>5. CASE t.task = "validators"
  <2>1. /\ last_exe_seq' = [last_exe_seq EXCEPT ![r] = st.last]
        /\ instances' = [instances EXCEPT ![r] = st.inst]
    BY <1>5 DEF RunPosted
  <2>2. /\ st.last = last_exe_seq[r] \/ st.last = t.seq
        /\ st.inst \subseteq instances[r]
    BY Zenon DEF UpdateValidators, StateOf
  <2>3. SomeQuorum(msgs, t.view, t.seq)
    <3>1. Len(posted[r]) \in Nat \ {0}
      BY <1>2, Zenon
    <3>2. 1 \in 1..Len(posted[r])
      BY <3>1, SMTT(30), Z3T(30)
    <3> QED
      BY <1>2, <1>5, <3>2, Zenon DEF QuorumInv, PostedHasQuorum
  <2> HIDE DEF st, t
  <2>4. ExecutedHasQuorum'
    BY <2>1, <2>2, <2>3, ExecutedChange, ZenonT(40)
  <2>5. CommitedHasQuorum'
    BY <2>1, <2>2, InstancesChange, ZenonT(40)
  <2> QED
    BY <1>3, <1>4, <2>4, <2>5, QuorumFrame DEF QuorumInv
<1>6. CASE t.task # "validators"
  <2>1. UNCHANGED <<last_exe_seq, instances>>
    BY <1>6 DEF RunPosted
  <2> QED
    BY <1>3, <1>4, <2>1, QuorumFrame DEF QuorumInv
<1> QED
  BY <1>5, <1>6

\* Syncing ledgers from a peer preserves the invariant.
LEMMA QuorumSync ==
    ASSUME QuorumInv, TypeOK, msgs \subseteq msgs', QuorumsKept,
           NEW r \in Replica,
           NEW p \in Replica, SyncLedger(r, p)
    PROVE  QuorumInv'
<1> DEFINE h == Len(ledger[r])
<1>1. PICK n \in (h + 1)..Len(ledger[p]) :
        /\ ledger' = [ledger EXCEPT ![r] = SubSeq(ledger[p], 1, n)]
        /\ proofs' = [proofs EXCEPT ![r] = @ \o SubSeq(proofs[p], h + 1, n)]
        /\ posted' = [posted EXCEPT ![r] = @ \o
              [k \in 1..(n - h) |-> ValidatorsTask(proofs[p][h + k])]]
  BY ZenonT(40) DEF SyncLedger
<1>2. /\ ledger[r] \in Seq(Content) /\ ledger[p] \in Seq(Content)
      /\ proofs[p] \in Seq(Proof) /\ proofs[r] \in Seq(Proof)
      /\ posted[r] \in Seq(Task)
      /\ Len(proofs[p]) = Len(ledger[p]) /\ Len(proofs[r]) = h
      /\ SubSeq(ledger[p], 1, h) = ledger[r]
  <2>1. /\ ledger[r] \in Seq(Content) /\ ledger[p] \in Seq(Content)
        /\ proofs[p] \in Seq(Proof) /\ proofs[r] \in Seq(Proof)
        /\ posted[r] \in Seq(Task)
    BY DEF TypeOK, Value, Proof, Task
  <2> QED
    BY <2>1 DEF QuorumInv, Lengths, SyncLedger
<1>3. h \in Nat /\ n \in Nat /\ h + 1 <= n /\ n <= Len(proofs[p])
  BY <1>2
<1> HIDE DEF h
<1>4. \A k \in 1..n : /\ proofs[p][k] \in Proof /\ ledger[p][k] \in Content
                      /\ CQ(msgs, proofs[p][k].view, proofs[p][k].seq,
                            SubSeq(ledger[p], 1, k))
  BY <1>2, <1>3 DEF QuorumInv, ProofHasQuorum
<1>5. Lengths' /\ ProofHasQuorum'
  <2> DEFINE L == SubSeq(ledger[p], 1, n)
             X == SubSeq(proofs[p], h + 1, n)
             P == proofs[r] \o X
  <2>1. Len(L) = n
    BY <1>3, <1>4
  <2>2. /\ X \in Seq(Proof) /\ Len(X) = n - h
        /\ \A k \in 1..(n - h) : X[k] = proofs[p][h + k]
    <3>1. \A k \in (h + 1)..n : proofs[p][k] \in Proof
      BY <1>3, <1>4
    <3>2. /\ X \in Seq(Proof)
          /\ Len(X) = IF h + 1 <= n THEN n - (h + 1) + 1 ELSE 0
          /\ \A k \in 1..(n - (h + 1) + 1) : X[k] = proofs[p][(h + 1) + k - 1]
      BY <1>3, <3>1
    <3>3. n - (h + 1) + 1 = n - h /\ \A k \in Int : (h + 1) + k - 1 = h + k
      BY <1>3
    <3> QED
      BY <1>3, <3>2, <3>3
  <2>3. /\ Len(P) = n
        /\ \A k \in 1..n : P[k] = IF k <= h THEN proofs[r][k] ELSE proofs[p][k]
    <3> HIDE DEF X
    <3>1. /\ Len(P) = Len(proofs[r]) + Len(X)
          /\ \A k \in 1..(Len(proofs[r]) + Len(X)) :
                P[k] = IF k <= Len(proofs[r]) THEN proofs[r][k]
                       ELSE X[k - Len(proofs[r])]
      <4>1. proofs[r] \in Seq(Proof) /\ X \in Seq(Proof)
        BY <1>2, <2>2
      <4> QED
        BY <4>1
    <3> HIDE DEF P
    <3>2. Len(proofs[r]) + Len(X) = n
      BY <1>2, <1>3, <2>2
    <3>3. ASSUME NEW k \in 1..n, ~(k <= h) PROVE X[k - h] = proofs[p][k]
      <4>1. k - h \in 1..(n - h) /\ h + (k - h) = k
        BY <1>3, <3>3
      <4> QED
        BY <2>2, <4>1
    <3> QED
      BY <1>2, <3>1, <3>2, <3>3, ZenonT(40)
  <2>4. \A k \in 1..Len(L) : CQ(msgs, P[k].view, P[k].seq, SubSeq(L, 1, k))
    <3> HIDE DEF P
    <3> TAKE k \in 1..Len(L)
    <3>1. SubSeq(L, 1, k) = SubSeq(ledger[p], 1, k)
      <4>1. ledger[p] \in Seq(Content) /\ n \in 0..Len(ledger[p]) /\ k \in 1..n
        BY <1>2, <1>3, <2>1
      <4> QED
        BY <4>1, PrefixOfPrefix
    <3>2. CASE k <= h
      <4>1. SubSeq(ledger[r], 1, k) = SubSeq(ledger[p], 1, k)
        <5>1. ledger[p] \in Seq(Content) /\ h \in 0..Len(ledger[p]) /\ k \in 1..h
          BY <1>2, <1>3, <2>1, <3>2
        <5>2. SubSeq(SubSeq(ledger[p], 1, h), 1, k) = SubSeq(ledger[p], 1, k)
          BY <5>1, PrefixOfPrefix
        <5> QED
          BY <1>2, <5>2, Zenon
      <4>2. k \in 1..Len(ledger[r])
        BY <1>3, <2>1, <3>2 DEF h
      <4>3. CQ(msgs, proofs[r][k].view, proofs[r][k].seq, SubSeq(ledger[r], 1, k))
        BY <4>2 DEF QuorumInv, ProofHasQuorum
      <4> QED
        BY <2>1, <2>3, <3>1, <3>2, <4>1, <4>3, ZenonT(40)
    <3>3. CASE ~(k <= h)
      BY <1>4, <2>1, <2>3, <3>1, <3>3, ZenonT(40)
    <3> QED
      BY <3>2, <3>3
  <2>5. /\ ledger' = [ledger EXCEPT ![r] = L]
        /\ proofs' = [proofs EXCEPT ![r] = P]
    BY <1>1
  <2> HIDE DEF L, P
  <2> QED
    BY <2>1, <2>3, <2>4, <2>5, LedgerChange, ZenonT(40)
<1>6. PostedHasQuorum'
  <2> DEFINE tasks == [k \in 1..(n - h) |-> ValidatorsTask(proofs[p][h + k])]
             P == posted[r] \o tasks
  <2>1. \A k \in 1..(n - h) : /\ ValidatorsTask(proofs[p][h + k]) \in Task
                              /\ h + k \in 1..n
    BY <1>3, <1>4 DEF ValidatorsTask, Task, Proof
  <2>2. n - h \in Nat
    BY <1>3
  <2>3. tasks \in Seq(Task) /\ Len(tasks) = n - h
    BY <2>1, <2>2
  <2>4. \A k \in 1..(n - h) : SomeQuorum(msgs, tasks[k].view, tasks[k].seq)
    BY <1>4, <2>1 DEF SomeQuorum, ValidatorsTask
  <2>5. posted' = [posted EXCEPT ![r] = P]
    BY <1>1
  <2> HIDE DEF tasks
  <2>6. /\ Len(P) = Len(posted[r]) + (n - h)
        /\ \A k \in 1..(Len(posted[r]) + (n - h)) :
              P[k] = IF k <= Len(posted[r]) THEN posted[r][k]
                     ELSE tasks[k - Len(posted[r])]
    <3>1. /\ Len(P) = Len(posted[r]) + Len(tasks)
          /\ \A k \in 1..(Len(posted[r]) + Len(tasks)) :
                P[k] = IF k <= Len(posted[r]) THEN posted[r][k]
                       ELSE tasks[k - Len(posted[r])]
      <4>1. posted[r] \in Seq(Task) /\ tasks \in Seq(Task)
        BY <1>2, <2>3
      <4> QED
        BY <4>1
    <3> HIDE DEF P
    <3> QED
      BY <2>3, <3>1
  <2>7. Len(posted[r]) \in Nat
    BY <1>2
  <2> HIDE DEF P
  <2>8. ASSUME NEW k \in 1..Len(P), P[k].task = "validators"
        PROVE  SomeQuorum(msgs, P[k].view, P[k].seq)
    <3>1. CASE k <= Len(posted[r])
      <4>1. k \in 1..Len(posted[r]) /\ P[k] = posted[r][k]
        BY <2>6, <2>7, <3>1
      <4> QED
        BY <2>8, <4>1 DEF QuorumInv, PostedHasQuorum
    <3>2. CASE ~(k <= Len(posted[r]))
      <4>1. k - Len(posted[r]) \in 1..(n - h)
        BY <2>2, <2>6, <2>7, <3>2
      <4> QED
        BY <2>4, <2>6, <3>2, <4>1
    <3> QED
      BY <3>1, <3>2
  <2> QED
    BY <2>5, <2>8, PostedChange, ZenonT(40)
<1>7. UNCHANGED <<last_exe_seq, instances, msgs>>
  BY DEF SyncLedger
<1> QED
  BY <1>5, <1>6, <1>7, QuorumFrame DEF QuorumInv

\* Proposals, timeouts and new views preserve the invariant.
LEMMA QuorumTimers ==
    ASSUME QuorumInv, TypeOK, msgs \subseteq msgs', QuorumsKept,
           NEW r \in Replica,
           \/ StartConsensus(r)
           \/ OnTxTimeout(r)
           \/ \E v \in Nat : OnViewChange(r, v)
           \/ \E v \in Nat : NewViewTimeout(r, v)
    PROVE  QuorumInv'
<1>1. \A I, last, v, val : \A i \in Requested(I, last, v, val) :
          i.phase = COMMITED => i \in I
  BY DEF Requested, PrePreparedInstance, PREPREPARED, COMMITED
<1>2. \A v, s, val : PhaseMsg("preprepare", v, s, val, r).type # "commit"
  BY DEF PhaseMsg
<1>3. \A v, c : /\ ViewChange(v, r, c).type # "commit"
                /\ NewView(v, r).type # "commit"
  BY DEF ViewChange, NewView
<1>4. CASE StartConsensus(r)
  <2>1. UNCHANGED <<posted, ledger, proofs, last_exe_seq>>
    BY <1>4, Zenon DEF StartConsensus
  <2>2. CASE UNCHANGED <<instances, msgs>>
    BY <2>1, <2>2, QuorumFrame DEF QuorumInv
  <2>3. ASSUME NEW val,
               instances' = [instances EXCEPT ![r] =
                   Requested(@, last_exe_seq[r], view_number[r], val)],
               msgs' = msgs \cup {PhaseMsg("preprepare", view_number[r],
                                           last_exe_seq[r] + 1, val, r)}
        PROVE  QuorumInv'
    <3>1. CommitedHasQuorum'
      BY <1>1, <2>3, InstancesChange, Zenon
    <3>2. \A m \in msgs' \ msgs : m.type # "commit"
      BY <1>2, <2>3
    <3> QED
      BY <2>1, <3>1, <3>2, QuorumFrame DEF QuorumInv
  <2> QED
    BY <1>4, <2>2, <2>3, Zenon DEF StartConsensus
<1>5. CASE OnTxTimeout(r)
  <2>1. UNCHANGED <<posted, ledger, proofs, last_exe_seq, instances>>
    BY <1>5 DEF OnTxTimeout
  <2>2. \A m \in msgs' \ msgs : m.type # "commit"
    BY <1>3, <1>5 DEF OnTxTimeout
  <2> QED
    BY <2>1, <2>2, QuorumFrame DEF QuorumInv
<1>6. ASSUME NEW v \in Nat, OnViewChange(r, v) PROVE QuorumInv'
  <2>1. UNCHANGED <<posted, ledger, proofs, last_exe_seq>>
    BY <1>6, Zenon DEF OnViewChange
  <2>2. PICK V \in ViewChangeQuorums(v) : \E c \in BestCerts(r, V) :
          \/ /\ instances' = [instances EXCEPT ![r] = KeptInstances(r)]
             /\ msgs' = msgs \cup {NewView(v, r)}
          \/ \E val \in Proposals(r, v, c.value) :
             /\ instances' = [instances EXCEPT ![r] =
                   Requested(KeptInstances(r), last_exe_seq[r], v, val)]
             /\ msgs' = msgs \cup {NewView(v, r), PhaseMsg("preprepare", v,
                                            last_exe_seq[r] + 1, val, r)}
    BY <1>6, ZenonT(40) DEF OnViewChange
  <2>3. \A m \in msgs' \ msgs : m.type # "commit"
    BY <1>2, <1>3, <2>2
  <2>4. KeptInstances(r) \subseteq instances[r]
    BY Zenon DEF KeptInstances
  <2>5. PICK I : /\ instances' = [instances EXCEPT ![r] = I]
                 /\ \A i \in I : i.phase = COMMITED => i \in instances[r]
    <3>1. CASE instances' = [instances EXCEPT ![r] = KeptInstances(r)]
      BY <2>4, <3>1, ZenonT(40)
    <3>2. ASSUME NEW val,
                 instances' = [instances EXCEPT ![r] =
                     Requested(KeptInstances(r), last_exe_seq[r], v, val)]
          PROVE  \E I : /\ instances' = [instances EXCEPT ![r] = I]
                        /\ \A i \in I : i.phase = COMMITED => i \in instances[r]
      BY <1>1, <2>4, <3>2, ZenonT(40)
    <3> QED
      BY <2>2, <3>1, <3>2, Zenon
  <2>6. CommitedHasQuorum'
    BY <2>5, InstancesChange, ZenonT(40)
  <2> QED
    BY <2>1, <2>3, <2>6, QuorumFrame DEF QuorumInv
<1>7. ASSUME NEW v \in Nat, NewViewTimeout(r, v) PROVE QuorumInv'
  <2>1. UNCHANGED <<posted, ledger, proofs, last_exe_seq, instances>>
    BY <1>7, Zenon DEF NewViewTimeout
  <2>2. \A m \in msgs' \ msgs : m.type # "commit"
    <3>1. PICK V \in ViewChangeQuorums(v) : \E best \in BestCerts(r, V) :
            \E c \in IF best # NoCert THEN {best} ELSE PreparedSets(r) :
                msgs' = msgs \cup {ViewChange(v + 1, r, c)}
      BY <1>7, Zenon DEF NewViewTimeout
    <3>2. PICK c : msgs' = msgs \cup {ViewChange(v + 1, r, c)}
      BY <3>1
    <3> QED
      BY <1>3, <3>2
  <2> QED
    BY <2>1, <2>2, QuorumFrame DEF QuorumInv
<1> QED
  BY <1>4, <1>5, <1>6, <1>7

\* A crash and restart preserves the invariant: what LoadValues finds was closed.
LEMMA QuorumRestart ==
    ASSUME QuorumInv, TypeOK, msgs \subseteq msgs', QuorumsKept,
           NEW r \in Replica, Restart(r)
    PROVE  QuorumInv'
<1> DEFINE st == IF proofs[r] = <<>> THEN Loaded(r)
                 ELSE UpdateValidators(Loaded(r), proofs[r][Len(proofs[r])])
<1>1. /\ last_exe_seq' = [last_exe_seq EXCEPT ![r] = st.last]
      /\ instances' = [instances EXCEPT ![r] = {}]
      /\ posted' = [posted EXCEPT ![r] = <<>>]
      /\ UNCHANGED <<ledger, proofs, msgs>>
  BY Zenon DEF Restart
<1>2. st.last > Base => \E v : SomeQuorum(msgs, v, st.last)
  <2>1. CASE proofs[r] = <<>>
    <3>1. st.last = Base
      BY <2>1 DEF Loaded
    <3> QED
      BY <3>1 DEF Base
  <2>2. CASE proofs[r] # <<>>
    <3> DEFINE n == Len(proofs[r])
    <3>1. n \in 1..Len(ledger[r])
      <4>1. proofs[r] \in Seq(Proof) /\ Len(proofs[r]) = Len(ledger[r])
        BY DEF TypeOK, Proof, QuorumInv, Lengths
      <4> QED
        BY <2>2, <4>1
    <3>2. SomeQuorum(msgs, proofs[r][n].view, proofs[r][n].seq)
      BY <3>1, Zenon DEF QuorumInv, ProofHasQuorum, SomeQuorum
    <3>3. st.last = proofs[r][n].seq \/ st.last = Base
      BY <2>2, Zenon DEF UpdateValidators, Loaded
    <3>4. ~(Base > Base)
      BY DEF Base
    <3> QED
      BY <3>2, <3>3, <3>4, Zenon
  <2> QED
    BY <2>1, <2>2, Zenon
<1> HIDE DEF st
<1>3. ExecutedHasQuorum'
  BY <1>1, <1>2, ExecutedChange, ZenonT(40)
<1>4. CommitedHasQuorum'
  <2> DEFINE I == {}
  <2>1. instances' = [instances EXCEPT ![r] = I] /\ \A i \in I : i \in instances[r]
    BY <1>1
  <2> HIDE DEF I
  <2> QED
    BY <2>1, InstancesChange, ZenonT(40)
<1>5. PostedHasQuorum'
  <2> DEFINE P == <<>>
  <2>1. posted' = [posted EXCEPT ![r] = P] /\ 1..Len(P) = {}
    BY <1>1
  <2> HIDE DEF P
  <2> QED
    BY <2>1, PostedChange, ZenonT(40)
<1> QED
  BY <1>1, <1>3, <1>4, <1>5, QuorumFrame DEF QuorumInv

\* Nothing needs a quorum at the start.
LEMMA InitQuorum == Init => QuorumInv
<1> SUFFICES ASSUME Init PROVE QuorumInv
  OBVIOUS
<1>1. \A r \in Replica : 1..Len(posted[r]) = {} /\ 1..Len(ledger[r]) = {}
  BY DEF Init
<1>2. \A r \in Replica : instances[r] = {} /\ ~(last_exe_seq[r] > Base)
  BY DEF Init, Base
<1>3. msgs = {} /\ Lengths
  BY InitTypes DEF Init
<1> QED
  BY <1>1, <1>2, <1>3 DEF QuorumInv, CommitHasPrepares, CommitedHasQuorum,
     PostedHasQuorum, ProofHasQuorum, ExecutedHasQuorum

\* Every step keeps a quorum behind whatever is committed.
LEMMA QuorumStep ==
    ASSUME QuorumInv, TypeOK, [Next]_vars, QuorumsKept
    PROVE  QuorumInv'
<1>1. msgs \subseteq msgs'
  BY MessagesStay
<1>2. CASE UNCHANGED vars
  BY <1>1, <1>2, QuorumFrame DEF vars, QuorumInv
<1>3. CASE Next
  <2>1. PICK r \in Replica :
          \/ StartConsensus(r)
          \/ \E m \in msgs : OnRecv(r, m)
          \/ ExecuteValue(r)
          \/ ExecuteDone(r)
          \/ RunPosted(r)
          \/ \E p \in Replica : SyncLedger(r, p)
          \/ OnTxTimeout(r)
          \/ \E v \in Nat : OnViewChange(r, v)
          \/ \E v \in Nat : NewViewTimeout(r, v)
          \/ Restart(r)
    BY <1>3, NextCases
  <2>2. CASE ExecuteDone(r)
    <3>1. UNCHANGED <<instances, posted, ledger, proofs, last_exe_seq, msgs>>
      BY <2>2 DEF ExecuteDone
    <3> QED
      BY <1>1, <3>1, QuorumFrame DEF QuorumInv
  <2> QED
    BY <1>1, <2>1, <2>2, QuorumRecv, QuorumExecute, QuorumPosted, QuorumSync,
       QuorumTimers, QuorumRestart
<1> QED
  BY <1>2, <1>3

-----------------------------------------------------------------------------
(* Views *)

\* UpdateValidators never lowers the view, and saves the one it sets.
LEMMA UpdateValidatorsRaises ==
    ASSUME NEW st \in ReplicaState, NEW pf, pf.view \in Nat, pf.seq \in Nat,
           st.saved = st.view
    PROVE  /\ UpdateValidators(st, pf).view >= st.view
           /\ UpdateValidators(st, pf).saved = UpdateValidators(st, pf).view
BY DEF UpdateValidators, ReplicaState

\* The last element of a sequence that is not empty.
LEMMA LastElement ==
    ASSUME NEW S, NEW s \in Seq(S), s # <<>>
    PROVE  s[Len(s)] \in S
    OBVIOUS

\* The handlers that set the view raise it and save it: OnViewChange, OnNewView,
\* UpdateValidators and the start after a crash.
LEMMA ViewStep ==
    ASSUME TypeOK, Lengths, SavedIsCurrent, Next, TraceOutKeepsView
    PROVE  /\ SavedIsCurrent'
           /\ \A p \in Replica : view_number'[p] >= view_number[p]
<1>1. PICK r \in Replica :
        \/ StartConsensus(r)
        \/ \E m \in msgs : OnRecv(r, m)
        \/ ExecuteValue(r)
        \/ ExecuteDone(r)
        \/ RunPosted(r)
        \/ \E p \in Replica : SyncLedger(r, p)
        \/ OnTxTimeout(r)
        \/ \E v \in Nat : OnViewChange(r, v)
        \/ \E v \in Nat : NewViewTimeout(r, v)
        \/ Restart(r)
  BY NextCases
<1>2. /\ view_number \in [Replica -> Nat] /\ saved_view \in [Replica -> Nat]
      /\ \A p \in Replica : saved_view[p] = view_number[p]
  BY DEF TypeOK, SavedIsCurrent
<1>3. UNCHANGED <<view_number, saved_view>> =>
          /\ SavedIsCurrent'
          /\ \A p \in Replica : view_number'[p] >= view_number[p]
  BY <1>2 DEF SavedIsCurrent
<1>4. CASE \/ StartConsensus(r)
           \/ ExecuteValue(r)
           \/ ExecuteDone(r)
           \/ \E p \in Replica : SyncLedger(r, p)
           \/ OnTxTimeout(r)
           \/ \E v \in Nat : NewViewTimeout(r, v)
  <2>1. UNCHANGED <<view_number, saved_view>>
    BY <1>4, ZenonT(40) DEF StartConsensus, ExecuteValue, ExecuteDone, SyncLedger,
       OnTxTimeout, NewViewTimeout
  <2> QED
    BY <1>3, <2>1
<1>5. CASE \E m \in msgs : OnRecv(r, m)
  <2>1. PICK m \in msgs : OnRecv(r, m)
    BY <1>5
  <2>2. CASE OnNewView(r, m)
    <3>1. m \in Message /\ m.type = "newview" /\ m.view > view_number[r]
      BY <2>2 DEF OnNewView, TypeOK
    <3>2. m.view \in Nat
      BY <3>1, MessageTypes, Zenon
    <3>3. m.view >= view_number[r]
      BY <1>2, <3>1, <3>2
    <3>4. /\ view_number' = [view_number EXCEPT ![r] = m.view]
          /\ saved_view' = [saved_view EXCEPT ![r] = m.view]
      BY <2>2 DEF OnNewView
    <3> QED
      BY <1>2, <3>2, <3>3, <3>4 DEF SavedIsCurrent
  <2>3. CASE OnFarCommit(r, m)
    <3>1. view_number' = [view_number EXCEPT ![r] = view_number[r]]
      <4>1. m.view = view_number[r]
        BY <2>3 DEF TraceOutKeepsView
      <4> QED
        BY <2>3, <4>1 DEF OnFarCommit
    <3>2. UNCHANGED <<view_number, saved_view>>
      BY <1>2, <2>3, <3>1 DEF OnFarCommit
    <3> QED
      BY <1>3, <3>2
  <2>4. CASE OnPrePrepare(r, m) \/ OnPrepare(r, m) \/ OnCommit(r, m)
                 \/ OnTracedCommit(r, m)
    <3>1. UNCHANGED <<view_number, saved_view>>
      BY <2>4, ZenonT(40) DEF OnPrePrepare, OnPrepare, OnCommit, OnTracedCommit
    <3> QED
      BY <1>3, <3>1
  <2> QED
    BY <2>1, <2>2, <2>3, <2>4, Zenon DEF OnRecv
<1>6. StateOf(r) \in ReplicaState /\ StateOf(r).saved = StateOf(r).view
      /\ StateOf(r).view = view_number[r]
  BY <1>2 DEF StateOf, ReplicaState, TypeOK
<1>7. CASE RunPosted(r)
  <2> DEFINE t == Head(posted[r])
             st == UpdateValidators(StateOf(r), t)
  <2>1. CASE t.task = "validators"
    <3>1. posted[r] \in Seq(Task) /\ posted[r] # <<>>
      BY <1>7, Zenon DEF TypeOK, Task, RunPosted
    <3>2. t \in Task
      BY <3>1, HeadType, Zenon
    <3>3. t.view \in Nat /\ t.seq \in Nat
      BY <3>2 DEF Task
    <3>4. /\ view_number' = [view_number EXCEPT ![r] = st.view]
          /\ saved_view' = [saved_view EXCEPT ![r] = st.saved]
      BY <1>7, <2>1 DEF RunPosted
    <3> HIDE DEF t
    <3>5. st \in ReplicaState /\ st.view >= view_number[r] /\ st.saved = st.view
      BY <1>6, <3>3, UpdateValidatorsType, UpdateValidatorsRaises
    <3>6. st.view \in Nat
      BY <3>5 DEF ReplicaState
    <3> HIDE DEF st
    <3> QED
      BY <1>2, <3>4, <3>5, <3>6 DEF SavedIsCurrent
  <2>2. CASE t.task # "validators"
    <3>1. UNCHANGED <<view_number, saved_view>>
      BY <1>7, <2>2 DEF RunPosted
    <3> QED
      BY <1>3, <3>1
  <2> QED
    BY <2>1, <2>2
<1>8. CASE \E v \in Nat : OnViewChange(r, v)
  <2>1. PICK v \in Nat : OnViewChange(r, v)
    BY <1>8
  <2>2. /\ v > view_number[r]
        /\ view_number' = [view_number EXCEPT ![r] = v]
        /\ saved_view' = [saved_view EXCEPT ![r] = v]
    BY <2>1, ZenonT(40) DEF OnViewChange
  <2>3. v >= view_number[r]
    BY <1>2, <2>2
  <2> QED
    BY <1>2, <2>2, <2>3 DEF SavedIsCurrent
<1>9. CASE Restart(r)
  <2> DEFINE pf == proofs[r][Len(proofs[r])]
             st == IF proofs[r] = <<>> THEN Loaded(r)
                   ELSE UpdateValidators(Loaded(r), pf)
  <2>1. /\ view_number' = [view_number EXCEPT ![r] = st.view]
        /\ saved_view' = [saved_view EXCEPT ![r] = st.saved]
    BY <1>9 DEF Restart
  <2>2. /\ Loaded(r) \in ReplicaState /\ Loaded(r).saved = Loaded(r).view
        /\ Loaded(r).view = view_number[r]
    BY <1>2 DEF Loaded, ReplicaState, Base
  <2>3. proofs[r] # <<>> => pf.view \in Nat /\ pf.seq \in Nat
    <3>1. proofs[r] \in Seq(Proof)
      BY DEF TypeOK, Proof
    <3>2. proofs[r] # <<>> => pf \in Proof
      BY <3>1, LastElement, Zenon
    <3> QED
      BY <3>2 DEF Proof
  <2>4. st \in ReplicaState /\ st.view >= view_number[r] /\ st.saved = st.view
    <3>1. CASE proofs[r] = <<>>
      BY <1>2, <2>2, <3>1
    <3>2. CASE proofs[r] # <<>>
      BY <2>2, <2>3, <3>2, UpdateValidatorsType, UpdateValidatorsRaises
    <3> QED
      BY <3>1, <3>2
  <2>5. st.view \in Nat
    BY <2>4 DEF ReplicaState
  <2> HIDE DEF st
  <2> QED
    BY <1>2, <2>1, <2>4, <2>5 DEF SavedIsCurrent
<1> QED
  BY <1>1, <1>4, <1>5, <1>7, <1>8, <1>9, Zenon
=============================================================================

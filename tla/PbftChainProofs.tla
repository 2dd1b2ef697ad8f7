-------------------------- MODULE PbftChainProofs ---------------------------
(***************************************************************************)
(* What one step preserves while no timer asks for a view change: every    *)
(* view closes one ledger, the one after its number (StepInv).  What       *)
(* follows from the size of a quorum is a hypothesis of these lemmas       *)
(* (SameProofSameLedger, ExecutedInStep) that PbftProofs proves.           *)
(***************************************************************************)
EXTENDS PbftInv, Integers, TLAPS

\* The provers of a leaf that names none.
USE SMT, Zenon, Z3T(20)

USE ConstantsAssumption

-----------------------------------------------------------------------------
(* Messages, instances, prefixes *)

\* What is known of a message from its type.
LEMMA MessageTypes ==
    ASSUME NEW m \in Message
    PROVE  /\ m.type \in {"preprepare", "prepare", "commit"} => m \in PhaseMessage
           /\ m.type = "viewchange" =>
                  m.view \in Nat /\ m.from \in Replica /\ m.cert \in Cert
           /\ m.type = "newview" => m.view \in Nat
BY DEF Message, PhaseMessage

\* The instance constructors.
LEMMA InstancesMade ==
    /\ \A v, s \in Nat : NewInstance(v, s) \in Instance
    /\ \A v, s \in Nat, val \in Value, chk \in BOOLEAN :
           PrePreparedInstance(v, s, val, chk) \in Instance
    /\ \A i \in Instance, t \in BOOLEAN : CommitedInstance(i, t) \in Instance
    /\ \A I \in SUBSET Instance, last, v \in Nat, val \in Value :
           Requested(I, last, v, val) \in SUBSET Instance
<1>1. <<>> \in Value
  BY DEF Value
<1>2. \A v, s \in Nat : NewInstance(v, s) \in Instance
  BY <1>1 DEF NewInstance, Instance, NONE, COMMITED, NoValue
<1>3. \A v, s \in Nat, val \in Value, chk \in BOOLEAN :
          PrePreparedInstance(v, s, val, chk) \in Instance
  BY DEF PrePreparedInstance, Instance, NONE, PREPREPARED, COMMITED
<1>4. \A i \in Instance, t \in BOOLEAN : CommitedInstance(i, t) \in Instance
  BY DEF CommitedInstance, Instance, NONE, COMMITED
<1>5. \A I \in SUBSET Instance, last, v \in Nat, val \in Value :
          Requested(I, last, v, val) \in SUBSET Instance
  <2> TAKE I \in SUBSET Instance, last, v \in Nat, val \in Value
  <2>1. PrePreparedInstance(v, last + 1, val, TRUE) \in Instance
    <3>1. last + 1 \in Nat /\ TRUE \in BOOLEAN
      OBVIOUS
    <3> QED
      BY <1>3, <3>1, Zenon
  <2> QED
    BY <2>1, ZenonT(40) DEF Requested
<1> QED
  BY <1>2, <1>3, <1>4, <1>5

\* The instances that CreateInstanceIfNotExist finds, creates and leaves.
LEMMA InstanceOfType ==
    ASSUME TypeOK, NEW r \in Replica, NEW m \in PhaseMessage
    PROVE  /\ InstanceOf(r, m) \in SUBSET Instance
           /\ OtherInstances(r, m) \in SUBSET Instance
<1>1. instances[r] \in SUBSET Instance
  BY DEF TypeOK
<1>2. NewInstance(m.view, m.seq) \in Instance
  BY InstancesMade DEF PhaseMessage
<1> QED
  BY <1>1, <1>2 DEF InstanceOf, OtherInstances

\* The first of a sequence is an element of its set.
LEMMA HeadType ==
    ASSUME NEW S, NEW s \in Seq(S), s # <<>>
    PROVE  Head(s) \in S
OBVIOUS

\* A prefix of a prefix.
LEMMA PrefixOfPrefix ==
    ASSUME NEW S, NEW s \in Seq(S), NEW n \in 0..Len(s), NEW k \in 1..n
    PROVE  SubSeq(SubSeq(s, 1, n), 1, k) = SubSeq(s, 1, k)
<1>1. /\ n \in 1..Len(s) /\ 1 \in 1..Len(s)
      /\ k \in 1..(n - 1 + 1) /\ 1 \in 1..(n - 1 + 1)
  OBVIOUS
<1>2. SubSeq(SubSeq(s, 1, n), 1, k) = SubSeq(s, 1 + 1 - 1, 1 + k - 1)
  BY <1>1
<1>3. 1 + 1 - 1 = 1 /\ 1 + k - 1 = k
  OBVIOUS
<1> QED
  BY <1>2, <1>3

-----------------------------------------------------------------------------
(* Without timeouts *)

\* What the invariant says of a replica that a step leaves alone, in part or
\* altogether.
LEMMA InStepFrame ==
    ASSUME NEW r, InStep(r)
    PROVE  /\ UNCHANGED <<view_number[r], last_exe_seq[r], ledger[r], saved_view[r]>>
                  => ViewBehind(r)'
           /\ UNCHANGED <<ledger[r], proofs[r]>> => ProofsInStep(r)'
           /\ UNCHANGED <<ledger[r], posted[r]>> => PostedInStep(r)'
           /\ UNCHANGED <<ledger[r], posted[r], last_exe_seq[r]>> => PostedCovers(r)'
           /\ UNCHANGED <<posted[r], last_exe_seq[r], view_number[r]>> => ArmWaits(r)'
           /\ UNCHANGED <<instances[r], view_number[r], last_exe_seq[r]>>
                  => InstancesCurrent(r)'
<1>1. UNCHANGED <<view_number[r], last_exe_seq[r], ledger[r], saved_view[r]>>
          => ViewBehind(r)'
  BY DEF InStep, ViewBehind
<1>2. UNCHANGED <<ledger[r], proofs[r]>> => ProofsInStep(r)'
  BY DEF InStep, ProofsInStep
<1>3. UNCHANGED <<ledger[r], posted[r]>> => PostedInStep(r)'
  BY DEF InStep, PostedInStep
<1>4. UNCHANGED <<ledger[r], posted[r], last_exe_seq[r]>> => PostedCovers(r)'
  BY DEF InStep, PostedCovers
<1>5. UNCHANGED <<posted[r], last_exe_seq[r], view_number[r]>> => ArmWaits(r)'
  BY DEF InStep, ArmWaits
<1>6. UNCHANGED <<instances[r], view_number[r], last_exe_seq[r]>>
          => InstancesCurrent(r)'
  BY DEF InStep, InstancesCurrent
<1> QED
  BY <1>1, <1>2, <1>3, <1>4, <1>5, <1>6

\* The state of a replica is a function of the replica.
LEMMA Domains ==
    TypeOK => /\ DOMAIN view_number = Replica /\ DOMAIN saved_view = Replica
              /\ DOMAIN last_exe_seq = Replica /\ DOMAIN instances = Replica
              /\ DOMAIN posted = Replica /\ DOMAIN ledger = Replica
              /\ DOMAIN proofs = Replica
BY DEF TypeOK

\* What is left to show of a step of r.
LEMMA OneReplica ==
    ASSUME StepInv, NEW r \in Replica, OnlyOf(r),
           OneSequencePerView', PreparedExtends', InStep(r)'
    PROVE  StepInv'
<1>1. ASSUME NEW p \in Replica, p # r PROVE InStep(p)'
  <2>1. UNCHANGED <<view_number[p], last_exe_seq[p], saved_view[p], ledger[p],
                    proofs[p], posted[p], instances[p]>>
    BY <1>1 DEF OnlyOf
  <2>2. InStep(p)
    BY DEF StepInv
  <2> QED
    BY <2>1, <2>2, InStepFrame DEF InStep
<1> QED
  BY <1>1 DEF StepInv

\* The numbers the invariant is about.
LEMMA StepTypes ==
    ASSUME TypeOK, NEW r \in Replica
    PROVE  /\ view_number[r] \in Nat /\ last_exe_seq[r] \in Nat
           /\ saved_view[r] \in Nat /\ ledger[r] \in Seq(Content)
           /\ Len(ledger[r]) \in Nat /\ proofs[r] \in Seq(Proof)
           /\ posted[r] \in Seq(Task) /\ Len(posted[r]) \in Nat
           /\ \A k \in 1..Len(posted[r]) : posted[r][k] \in Task
           /\ Base \in Nat
<1>1. ledger[r] \in Seq(Content) /\ proofs[r] \in Seq(Proof) /\ posted[r] \in Seq(Task)
  BY DEF TypeOK, Value, Proof, Task
<1> QED
  BY <1>1 DEF TypeOK, Base

\* A prefix of a prefix, the empty one included.
LEMMA PrefixesNest ==
    ASSUME NEW S, NEW s \in Seq(S), NEW n \in 0..Len(s), NEW k \in 0..n
    PROVE  SubSeq(SubSeq(s, 1, n), 1, k) = SubSeq(s, 1, k)
<1>1. CASE k = 0
  BY <1>1
<1>2. CASE k # 0
  <2>1. Len(s) \in Nat
    OBVIOUS
  <2>2. k \in 1..n
    BY <1>2, <2>1
  <2> QED
    BY <2>2, PrefixOfPrefix
<1> QED
  BY <1>1, <1>2

\* Ledgers only grow, so the prepared values still extend them.
LEMMA LedgerGrows ==
    ASSUME TypeOK, StepInv, NEW r \in Replica, NEW L \in Seq(Content),
           ledger' = [ledger EXCEPT ![r] = L], UNCHANGED msgs,
           Len(ledger[r]) <= Len(L), SubSeq(L, 1, Len(ledger[r])) = ledger[r]
    PROVE  PreparedExtends'
<1> SUFFICES ASSUME NEW m \in msgs, m.type = "prepare"
             PROVE  /\ m.view < Len(m.value)
                    /\ Len(m.value) <= Len(ledger'[m.from]) + 1
                    /\ SubSeq(m.value, 1, Len(m.value) - 1)
                           = SubSeq(ledger'[m.from], 1, Len(m.value) - 1)
  BY DEF PreparedExtends
<1>1. /\ m.view < Len(m.value) /\ Len(m.value) <= Len(ledger[m.from]) + 1
      /\ SubSeq(m.value, 1, Len(m.value) - 1)
             = SubSeq(ledger[m.from], 1, Len(m.value) - 1)
  BY DEF StepInv, PreparedExtends
<1>2. m.from \in Replica /\ m.view \in Nat /\ m.value \in Seq(Content)
  <2>1. m \in Message
    BY DEF TypeOK
  <2> QED
    BY <2>1, MessageTypes DEF PhaseMessage, Value
<1>3. Len(m.value) \in Nat
  BY <1>2
<1>4. ledger \in [Replica -> Value]
  BY DEF TypeOK
<1>5. CASE m.from # r
  BY <1>1, <1>2, <1>4, <1>5
<1>6. CASE m.from = r
  <2>1. ledger'[m.from] = L
    BY <1>4, <1>6
  <2>2. Len(L) \in Nat /\ Len(ledger[r]) \in Nat
    BY StepTypes
  <2>3. /\ Len(ledger[r]) \in 0..Len(L)
        /\ Len(m.value) - 1 \in 0..Len(ledger[r])
    BY <1>1, <1>2, <1>3, <1>6, <2>2
  <2>4. SubSeq(SubSeq(L, 1, Len(ledger[r])), 1, Len(m.value) - 1)
            = SubSeq(L, 1, Len(m.value) - 1)
    BY <2>3, PrefixesNest
  <2>5. Len(m.value) <= Len(L) + 1
    BY <1>1, <1>3, <1>6, <2>2
  <2> QED
    BY <1>1, <1>6, <2>1, <2>4, <2>5
<1> QED
  BY <1>5, <1>6

\* Nor is an instance committed by trace-out.
LEMMA NoTraceOut ==
    ASSUME TypeOK, StepInv, NEW r \in Replica, NEW m \in msgs
    PROVE  ~OnTracedCommit(r, m)
<1> SUFFICES ASSUME OnTracedCommit(r, m) PROVE FALSE
  OBVIOUS
<1>1. PICK i \in instances[r] : SameIndex(i, m) /\ i.phase < COMMITED
  BY ZenonT(40) DEF OnTracedCommit
<1>2. i.view = view_number[r] /\ i.seq <= last_exe_seq[r] + ckp_interval
  BY <1>1 DEF StepInv, InStep, InstancesCurrent
<1>3. /\ ~InWaterMark(r, m.seq) \/ m.view # view_number[r]
      /\ m.seq > last_exe_seq[r]
  BY DEF OnTracedCommit, TracedOut
<1>4. last_exe_seq[r] \in Nat /\ i.seq \in Nat
  BY DEF TypeOK, Instance
<1> QED
  BY <1>1, <1>2, <1>3, <1>4 DEF InWaterMark, SameIndex

\* A replica that does not restart forgets no vote: UpdateValidators never finds
\* a sequence that is new in a view that is not.
LEMMA UndisturbedRemembers ==
    ASSUME NEW G, TypeOK, StepInv, Undisturbed(G)
    PROVE  Remembering(G)
<1> SUFFICES ASSUME NEW r \in Replica \ G, Forgets(r) PROVE FALSE
  BY DEF Remembering
<1>1. ~Restart(r) /\ \A m \in msgs : ~OnFarCommit(r, m)
  BY DEF Undisturbed
<1>2. /\ RunPosted(r)
      /\ view_number'[r] = view_number[r] /\ last_exe_seq'[r] # last_exe_seq[r]
  BY <1>1 DEF Forgets
<1> DEFINE t == Head(posted[r])
           st == UpdateValidators(StateOf(r), t)
<1>3. view_number \in [Replica -> Nat] /\ last_exe_seq \in [Replica -> Nat]
  BY DEF TypeOK
<1>4. t.task = "validators"
  BY <1>2 DEF RunPosted
<1>5. view_number'[r] = st.view /\ last_exe_seq'[r] = st.last
  BY <1>2, <1>3, <1>4 DEF RunPosted
<1>6. t = posted[r][1] /\ 1 \in 1..Len(posted[r]) /\ t \in Task
  <2>1. posted[r] \in Seq(Task) /\ posted[r] # <<>>
    BY <1>2, StepTypes DEF RunPosted
  <2>2. Len(posted[r]) \in Nat \ {0} /\ t \in Task
    BY <2>1
  <2> QED
    BY <2>1, <2>2
<1>7. t.seq = Base + t.view + 1
  BY <1>4, <1>6 DEF StepInv, InStep, PostedInStep
<1>8. t.view \in Nat /\ t.seq \in Nat
  BY <1>6 DEF Task
<1>9. Base + view_number[r] <= last_exe_seq[r]
  BY DEF StepInv, InStep, ViewBehind
<1> HIDE DEF t
<1> QED
  BY <1>2, <1>3, <1>5, <1>7, <1>8, <1>9 DEF UpdateValidators, StateOf, Base

\* An instance that a message of the current view finds or makes is current.
LEMMA FoundCurrent ==
    ASSUME TypeOK, StepInv, NEW r \in Replica, NEW m \in PhaseMessage,
           Accepts(r, m), NEW i \in InstanceOf(r, m)
    PROVE  /\ i \in Instance /\ ~i.traced /\ i.view = view_number[r]
           /\ i.seq <= last_exe_seq[r] + ckp_interval
<1>1. i \in Instance
  BY InstanceOfType
<1>2. i.view = m.view /\ i.seq = m.seq
  BY DEF InstanceOf, NewInstance, SameIndex
<1>3. ~i.traced
  BY DEF InstanceOf, NewInstance, StepInv, InStep, InstancesCurrent
<1> QED
  BY <1>1, <1>2, <1>3 DEF Accepts, InWaterMark

\* The handlers of the three phases preserve the invariant.
LEMMA StepRecv ==
    ASSUME TypeOK, StepInv, NEW r \in Replica, NEW m \in msgs,
           OnPrePrepare(r, m) \/ OnPrepare(r, m) \/ OnCommit(r, m)
    PROVE  StepInv'
<1>1. m \in PhaseMessage /\ Accepts(r, m) /\ m.seq = Base + m.view + 1
  <2>1. Accepts(r, m)
    BY Zenon DEF OnPrePrepare, OnPrepare, OnCommit
  <2>2. /\ m.type \in {"preprepare", "prepare", "commit"}
        /\ m.seq = Base + m.view + 1 /\ m \in Message
    BY DEF StepInv, OneSequencePerView, TypeOK
  <2> QED
    BY <2>1, <2>2, MessageTypes
<1>2. UNCHANGED <<view_number, last_exe_seq, ledger, proofs, posted, saved_view>>
  BY ZenonT(40) DEF OnPrePrepare, OnPrepare, OnCommit
<1>3. instances \in [Replica -> SUBSET Instance]
  BY DEF TypeOK
<1>4. ASSUME NEW j, ~j.traced,
             /\ j.view = view_number[r]
             /\ j.seq <= last_exe_seq[r] + ckp_interval,
             instances' = [instances EXCEPT ![r] = OtherInstances(r, m) \cup {j}],
             OneSequencePerView', PreparedExtends'
      PROVE  StepInv'
  <2> DEFINE I == OtherInstances(r, m) \cup {j}
  <2>1. I \subseteq instances[r] \cup {j}
    BY DEF OtherInstances
  <2>2. instances' = [instances EXCEPT ![r] = I]
    BY <1>4
  <2> HIDE DEF I
  <2>4. instances'[r] = I /\ OnlyOf(r)
    BY <1>2, <2>2, Domains DEF OnlyOf
  <2>5. InStep(r)
    BY DEF StepInv
  <2>6. InstancesCurrent(r)'
    BY <1>2, <1>4, <2>1, <2>4, <2>5 DEF InStep, InstancesCurrent
  <2>7. UNCHANGED <<view_number[r], last_exe_seq[r], saved_view[r], ledger[r],
                    proofs[r], posted[r]>>
    BY <1>2
  <2>8. InStep(r)'
    BY <2>5, <2>6, <2>7, InStepFrame, Zenon DEF InStep
  <2> QED
    BY <1>4, <2>4, <2>8, OneReplica
<1>5. ASSUME NEW new, msgs' = msgs \cup {new}, new.type \in {"prepare", "commit"},
             new.view = m.view, new.seq = m.seq
      PROVE  OneSequencePerView'
  BY <1>1, <1>5 DEF StepInv, OneSequencePerView
<1>6. UNCHANGED msgs => OneSequencePerView' /\ PreparedExtends'
  BY <1>2 DEF StepInv, OneSequencePerView, PreparedExtends
<1>7. CASE OnPrePrepare(r, m)
  <2>1. PICK i \in InstanceOf(r, m), chk \in CheckValue(r, m.value) :
          LET j == PrePrepared(r, i, m, chk) IN
          /\ instances' = [instances EXCEPT ![r] = OtherInstances(r, m) \cup {j}]
          /\ msgs' = IF Answers(r, m) /\ chk /\ j.value = m.value
                       THEN msgs \cup {PhaseMsg("prepare", m.view, m.seq, m.value, r)}
                       ELSE msgs
    BY <1>7, ZenonT(40) DEF OnPrePrepare
  <2> DEFINE j == PrePrepared(r, i, m, chk)
             new == PhaseMsg("prepare", m.view, m.seq, m.value, r)
  <2>2. /\ i \in Instance /\ ~i.traced /\ i.view = view_number[r]
        /\ i.seq <= last_exe_seq[r] + ckp_interval
    BY <1>1, FoundCurrent
  <2>3. /\ ~j.traced /\ j.view = view_number[r]
        /\ j.seq <= last_exe_seq[r] + ckp_interval
    BY <1>1, <2>2, Zenon DEF PrePrepared, PrePreparedInstance, Accepts, InWaterMark
  <2>4. instances' = [instances EXCEPT ![r] = OtherInstances(r, m) \cup {j}]
    BY <2>1
  <2>5. (chk /\ msgs' = msgs \cup {new}) \/ msgs' = msgs
    BY <2>1
  <2> HIDE DEF j
  <2>7. CASE msgs' = msgs
    BY <1>4, <1>6, <2>3, <2>4, <2>7, Zenon
  <2>8. CASE chk /\ msgs' = msgs \cup {new}
    <3>1. /\ new.type = "prepare" /\ new.from = r /\ new.view = m.view
          /\ new.seq = m.seq /\ new.value = m.value
      BY DEF PhaseMsg
    <3> HIDE DEF new
    <3>2. OneSequencePerView'
      BY <1>5, <2>8, <3>1
    <3>3. ExtendsLedger(r, m.value)
      BY <2>8, ZenonT(40) DEF CheckValue
    <3>4. m.view <= Len(ledger[r])
      <4>1. m.view = view_number[r]
        BY <1>1 DEF Accepts
      <4> QED
        BY <4>1, StepTypes DEF StepInv, InStep, ViewBehind
    <3>5. /\ Len(m.value) = Len(ledger[r]) + 1
          /\ SubSeq(m.value, 1, Len(ledger[r])) = ledger[r]
          /\ SubSeq(ledger[r], 1, Len(ledger[r])) = ledger[r]
      BY <3>3, StepTypes DEF ExtendsLedger
    <3>6. /\ m.view < Len(m.value) /\ Len(m.value) <= Len(ledger[r]) + 1
          /\ SubSeq(m.value, 1, Len(m.value) - 1)
                 = SubSeq(ledger[r], 1, Len(m.value) - 1)
      <4>1. Len(ledger[r]) \in Nat /\ m.view \in Nat
        BY <1>1, StepTypes DEF PhaseMessage
      <4>2. Len(m.value) - 1 = Len(ledger[r])
        BY <3>5, <4>1
      <4> QED
        BY <3>4, <3>5, <4>1, <4>2
    <3>7. PreparedExtends'
      BY <1>2, <2>8, <3>1, <3>6 DEF StepInv, PreparedExtends
    <3> QED
      BY <1>4, <2>3, <2>4, <3>2, <3>7, Zenon
  <2> QED
    BY <2>5, <2>7, <2>8
<1>8. CASE OnPrepare(r, m)
  <2>1. PICK i \in InstanceOf(r, m) :
          LET quorum == /\ i.phase >= PREPREPARED /\ i.value = m.value
                        /\ PrepareQuorum(m)
              j == IF quorum /\ i.phase < PREPARED
                     THEN [i EXCEPT !.phase = PREPARED] ELSE i
          IN  /\ instances' = [instances EXCEPT ![r] = OtherInstances(r, m) \cup {j}]
              /\ msgs' = IF quorum /\ i.check
                           THEN msgs \cup {PhaseMsg("commit", m.view, m.seq, m.value, r)}
                           ELSE msgs
    BY <1>8, ZenonT(40) DEF OnPrepare
  <2> DEFINE quorum == /\ i.phase >= PREPREPARED /\ i.value = m.value
                       /\ PrepareQuorum(m)
             j == IF quorum /\ i.phase < PREPARED
                    THEN [i EXCEPT !.phase = PREPARED] ELSE i
             new == PhaseMsg("commit", m.view, m.seq, m.value, r)
  <2>2. /\ i \in Instance /\ ~i.traced /\ i.view = view_number[r]
        /\ i.seq <= last_exe_seq[r] + ckp_interval
    BY <1>1, FoundCurrent
  <2>3. /\ ~j.traced /\ j.view = view_number[r]
        /\ j.seq <= last_exe_seq[r] + ckp_interval
    <3>1. [i EXCEPT !.phase = PREPARED].traced = i.traced
          /\ [i EXCEPT !.phase = PREPARED].view = i.view
          /\ [i EXCEPT !.phase = PREPARED].seq = i.seq
      BY <2>2 DEF Instance
    <3> QED
      BY <2>2, <3>1
  <2>4. instances' = [instances EXCEPT ![r] = OtherInstances(r, m) \cup {j}]
    BY <2>1
  <2>5. msgs' = msgs \cup {new} \/ msgs' = msgs
    BY <2>1
  <2> HIDE DEF j
  <2>7. CASE msgs' = msgs
    BY <1>4, <1>6, <2>3, <2>4, <2>7, Zenon
  <2>8. CASE msgs' = msgs \cup {new}
    <3>1. new.type = "commit" /\ new.view = m.view /\ new.seq = m.seq
      BY DEF PhaseMsg
    <3> HIDE DEF new
    <3>2. OneSequencePerView'
      BY <1>5, <2>8, <3>1
    <3>3. PreparedExtends'
      BY <1>2, <2>8, <3>1 DEF StepInv, PreparedExtends
    <3> QED
      BY <1>4, <2>3, <2>4, <3>2, <3>3, Zenon
  <2> QED
    BY <2>5, <2>7, <2>8
<1>9. CASE OnCommit(r, m)
  <2>1. PICK i \in InstanceOf(r, m) :
          LET done == i.phase = PREPARED /\ i.value = m.value /\ CommitQuorum(i)
              j == IF done THEN CommitedInstance(i, FALSE) ELSE i
          IN  instances' = [instances EXCEPT ![r] = OtherInstances(r, m) \cup {j}]
    BY <1>9, ZenonT(40) DEF OnCommit
  <2> DEFINE done == i.phase = PREPARED /\ i.value = m.value /\ CommitQuorum(i)
             j == IF done THEN CommitedInstance(i, FALSE) ELSE i
  <2>2. /\ i \in Instance /\ ~i.traced /\ i.view = view_number[r]
        /\ i.seq <= last_exe_seq[r] + ckp_interval
    BY <1>1, FoundCurrent
  <2>3. /\ ~j.traced /\ j.view = view_number[r]
        /\ j.seq <= last_exe_seq[r] + ckp_interval
    BY <2>2 DEF CommitedInstance
  <2>4. instances' = [instances EXCEPT ![r] = OtherInstances(r, m) \cup {j}]
    BY <2>1
  <2> HIDE DEF j
  <2>5. UNCHANGED msgs
    BY <1>9 DEF OnCommit
  <2> QED
    BY <1>4, <1>6, <2>3, <2>4, <2>5, Zenon
<1> QED
  BY <1>7, <1>8, <1>9

\* What a step leaves that changes neither the ledgers nor the messages.
LEMMA MessagesFrame ==
    ASSUME StepInv, UNCHANGED <<msgs, ledger>>
    PROVE  OneSequencePerView' /\ PreparedExtends'
BY DEF StepInv, OneSequencePerView, PreparedExtends

\* What a step leaves that changes nothing the invariant speaks of.
LEMMA StepFrame ==
    ASSUME StepInv, UNCHANGED <<view_number, last_exe_seq, instances, posted, ledger,
                                proofs, saved_view, msgs>>
    PROVE  StepInv'
<1>1. OneSequencePerView' /\ PreparedExtends'
  BY MessagesFrame
<1>2. ASSUME NEW p \in Replica PROVE InStep(p)'
  <2>1. InStep(p)
    BY DEF StepInv
  <2> QED
    BY <2>1, InStepFrame DEF InStep
<1> QED
  BY <1>1, <1>2 DEF StepInv

\* A leader that proposes has executed what its view says, so it proposes for
\* the sequence of its view.
LEMMA StepStart ==
    ASSUME TypeOK, StepInv, ckp_interval > 0, NEW r \in Replica, StartConsensus(r)
    PROVE  StepInv'
<1>2. UNCHANGED <<view_number, last_exe_seq, saved_view, ledger, proofs, posted>>
  BY DEF StartConsensus
<1>3. InStep(r)
  BY DEF StepInv
<1>4. ASSUME NEW I, instances' = [instances EXCEPT ![r] = I],
             \A i \in I : \/ i \in instances[r]
                          \/ /\ ~i.traced /\ i.view = view_number[r]
                             /\ i.seq <= last_exe_seq[r] + ckp_interval,
             OneSequencePerView', PreparedExtends'
      PROVE  StepInv'
  <2>1. instances'[r] = I /\ OnlyOf(r)
    BY <1>2, <1>4, Domains DEF OnlyOf
  <2>2. InstancesCurrent(r)'
    BY <1>2, <1>3, <1>4, <2>1 DEF InStep, InstancesCurrent
  <2>3. InStep(r)'
    BY <1>2, <1>3, <2>2, InStepFrame DEF InStep
  <2> QED
    BY <1>4, <2>1, <2>3, OneReplica
<1>5. CASE IsLeader(r) /\ view_active[r]
  <2> DEFINE v == view_number[r]
             last == last_exe_seq[r]
  <2>1. PICK val : /\ instances' = [instances EXCEPT ![r] =
                                        Requested(@, last, v, val)]
                   /\ msgs' = msgs \cup {PhaseMsg("preprepare", v, last + 1, val, r)}
    BY <1>5, ZenonT(40) DEF StartConsensus
  <2>2. v \in Nat /\ last \in Nat /\ Base \in Nat
    BY StepTypes
  <2>3. \A i \in Requested(instances[r], last, v, val) :
            \/ i \in instances[r]
            \/ ~i.traced /\ i.view = v /\ i.seq = last + 1
    BY DEF Requested, PrePreparedInstance
  <2>4. last = Base + v
    <3>1. ~(last > Base + v)
      <4>1. \A k \in 1..Len(posted[r]) : posted[r][k].task # "arm"
        BY DEF StartConsensus, TimersRun
      <4> QED
        BY <1>3, <4>1 DEF InStep, ArmWaits
    <3>2. Base + v <= last
      BY <1>3 DEF InStep, ViewBehind
    <3> QED
      BY <2>2, <3>1, <3>2
  <2> DEFINE new == PhaseMsg("preprepare", v, last + 1, val, r)
  <2>5. new.type = "preprepare" /\ new.view = v /\ new.seq = Base + v + 1
    BY <2>4 DEF PhaseMsg
  <2>6. msgs' = msgs \cup {new}
    BY <2>1
  <2> HIDE DEF new
  <2>7. OneSequencePerView'
    BY <2>5, <2>6 DEF StepInv, OneSequencePerView
  <2>8. PreparedExtends'
    BY <1>2, <2>5, <2>6 DEF StepInv, PreparedExtends
  <2>9. last + 1 <= last + ckp_interval
    BY <2>2
  <2> DEFINE I == Requested(instances[r], last, v, val)
  <2>10. instances' = [instances EXCEPT ![r] = I]
    BY <2>1
  <2>11. \A i \in I : \/ i \in instances[r]
                      \/ /\ ~i.traced /\ i.view = view_number[r]
                         /\ i.seq <= last_exe_seq[r] + ckp_interval
    BY <2>3, <2>9
  <2> HIDE DEF I
  <2> QED
    BY <1>4, <2>7, <2>8, <2>10, <2>11, Zenon
<1>6. CASE ~(IsLeader(r) /\ view_active[r])
  <2>1. UNCHANGED <<instances, msgs>>
    BY <1>6 DEF StartConsensus
  <2>2. instances' = [instances EXCEPT ![r] = instances[r]]
    BY <2>1 DEF TypeOK
  <2> QED
    BY <1>2, <1>4, <2>1, <2>2, MessagesFrame, Zenon
<1> QED
  BY <1>5, <1>6

\* The ledgers agree as high as both go.
LEMMA LedgersAgree ==
    ASSUME TypeOK, QuorumInv, SameProofSameLedger, StepInv,
           NEW r \in Replica, NEW p \in Replica, NEW k \in Nat,
           k <= Len(ledger[r]), k <= Len(ledger[p])
    PROVE  SubSeq(ledger[r], 1, k) = SubSeq(ledger[p], 1, k)
<1>1. CASE k = 0
  BY <1>1, StepTypes
<1>2. CASE k # 0
  <2>1. k \in 1..Len(ledger[r]) /\ k \in 1..Len(ledger[p])
    BY <1>2, StepTypes
  <2>2. /\ Len(proofs[r]) = Len(ledger[r]) /\ Len(proofs[p]) = Len(ledger[p])
        /\ proofs[r] \in Seq(Proof) /\ proofs[p] \in Seq(Proof)
    BY StepTypes DEF QuorumInv, Lengths
  <2>3. proofs[r][k] \in Proof /\ proofs[p][k] \in Proof
    BY <2>1, <2>2
  <2>4. /\ proofs[r][k].view + 1 = k /\ proofs[r][k].seq = Base + k
        /\ proofs[p][k].view + 1 = k /\ proofs[p][k].seq = Base + k
    BY <2>1 DEF StepInv, InStep, ProofsInStep
  <2>5. proofs[r][k].view = proofs[p][k].view /\ proofs[r][k].seq = proofs[p][k].seq
    BY <2>3, <2>4 DEF Proof
  <2>6. proofs[r][k] = proofs[p][k]
    BY <2>3, <2>5 DEF Proof
  <2> QED
    BY <2>1, <2>6 DEF SameProofSameLedger
<1> QED
  BY <1>1, <1>2

\* One turn of TryExecuteValue's loop preserves the invariant.
LEMMA StepExecute ==
    ASSUME TypeOK, QuorumInv, StepInv, NEW r \in Replica, ExecuteValue(r),
           \A i \in Executable(r) : ExecutedInStep(r, i)
    PROVE  StepInv'
<1> DEFINE h == Len(ledger[r])
           Q == posted[r]
<1>1. PICK i \in Executable(r) :
        /\ last_exe_seq' = [last_exe_seq EXCEPT ![r] = i.seq]
        /\ \E closes \in Closes(r, i) :
             LET pf == [view |-> i.view, seq |-> i.seq] IN
             IF closes
               THEN /\ ledger' = [ledger EXCEPT ![r] = i.value]
                    /\ proofs' = [proofs EXCEPT ![r] = Append(@, pf)]
                    /\ posted' = [posted EXCEPT ![r] =
                                     @ \o <<ValidatorsTask(pf), ArmTask>>]
               ELSE /\ posted' = [posted EXCEPT ![r] = Append(@, ArmTask)]
                    /\ UNCHANGED <<ledger, proofs>>
        /\ instances' = [instances EXCEPT ![r] =
              {j \in @ : j.seq + (ckp_interval \div 2) > i.seq}]
  BY ZenonT(40) DEF ExecuteValue
<1> DEFINE pf == [view |-> i.view, seq |-> i.seq]
           I == {j \in instances[r] : j.seq + (ckp_interval \div 2) > i.seq}
           V == ValidatorsTask(pf)
<1>2. /\ i.view \in Nat /\ i.view <= h
      /\ i.seq = Base + i.view + 1 /\ i.seq = last_exe_seq[r] + 1
  BY ZenonT(40) DEF ExecutedInStep
<1>2a. /\ i.value \in Seq(Content)
       /\ i.view = h => ExtendsLedger(r, i.value) /\ Closes(r, i) = {TRUE}
       /\ i.view # h => Closes(r, i) = {FALSE}
  BY ZenonT(40) DEF ExecutedInStep
<1>3. /\ h \in Nat /\ Len(Q) \in Nat /\ Base \in Nat
      /\ view_number[r] \in Nat /\ last_exe_seq[r] \in Nat
  BY StepTypes
<1>3a. Q \in Seq(Task) /\ proofs[r] \in Seq(Proof)
  BY StepTypes
<1>4. InStep(r)
  BY DEF StepInv
<1>5. /\ V.task = "validators" /\ V.view = i.view /\ V.seq = i.seq
      /\ ArmTask.task = "arm" /\ V \in Task /\ ArmTask \in Task /\ pf \in Proof
  BY <1>2, <1>3 DEF ValidatorsTask, ArmTask, Task, Proof
<1>6. /\ last_exe_seq' = [last_exe_seq EXCEPT ![r] = i.seq]
      /\ instances' = [instances EXCEPT ![r] = I]
      /\ UNCHANGED <<view_number, saved_view, msgs>>
  <2>1. UNCHANGED <<view_number, saved_view, msgs>>
    BY DEF ExecuteValue
  <2> QED
    BY <1>1, <2>1, Zenon
<1>7. I \subseteq instances[r]
  OBVIOUS
<1> HIDE DEF V, I
<1>8. ASSUME view_number'[r] = view_number[r], last_exe_seq'[r] = i.seq,
             instances'[r] = I
      PROVE  InstancesCurrent(r)'
  <2>1. \A j \in instances[r] : j.seq \in Nat
    BY DEF TypeOK, Instance
  <2>2. \A j \in instances[r] :
            j.seq <= last_exe_seq[r] + ckp_interval => j.seq <= i.seq + ckp_interval
    <3>1. i.seq = last_exe_seq[r] + 1 /\ last_exe_seq[r] \in Nat
      BY <1>2, <1>3, Zenon
    <3> QED
      BY <2>1, <3>1
  <2>3. \A j \in instances[r] :
            /\ ~j.traced
            /\ j.phase < COMMITED =>
                   j.view = view_number[r] /\ j.seq <= last_exe_seq[r] + ckp_interval
    BY <1>4, Zenon DEF InStep, InstancesCurrent
  <2> QED
    BY <1>7, <1>8, <2>2, <2>3, Zenon DEF InstancesCurrent
<1>9. CASE i.view = h
  <2> DEFINE P == Append(proofs[r], pf)
             Q2 == Q \o <<V, ArmTask>>
  <2>1. /\ ledger' = [ledger EXCEPT ![r] = i.value]
        /\ proofs' = [proofs EXCEPT ![r] = P]
        /\ posted' = [posted EXCEPT ![r] = Q2]
    <3>1. PICK closes \in Closes(r, i) :
            IF closes
              THEN /\ ledger' = [ledger EXCEPT ![r] = i.value]
                   /\ proofs' = [proofs EXCEPT ![r] = Append(@, pf)]
                   /\ posted' = [posted EXCEPT ![r] = @ \o <<V, ArmTask>>]
              ELSE /\ posted' = [posted EXCEPT ![r] = Append(@, ArmTask)]
                   /\ UNCHANGED <<ledger, proofs>>
      BY <1>1, Zenon DEF V
    <3>2. closes = TRUE
      BY <1>2a, <1>9, Zenon
    <3> HIDE DEF pf
    <3> QED
      BY <3>1, <3>2, Zenon
  <2>2. Len(i.value) = h + 1 /\ SubSeq(i.value, 1, h) = ledger[r]
    BY <1>2a, <1>9 DEF ExtendsLedger
  <2>3. /\ \A k \in 1..h : P[k] = proofs[r][k]
        /\ P[h + 1] = pf
    <3>1. Len(proofs[r]) = h
      BY DEF QuorumInv, Lengths
    <3> QED
      BY <1>3, <1>3a, <1>5, <3>1
  <2>4. /\ Len(Q2) = Len(Q) + 2
        /\ \A k \in 1..Len(Q) : Q2[k] = Q[k]
        /\ Q2[Len(Q) + 1] = V /\ Q2[Len(Q) + 2] = ArmTask
    <3>1. <<V, ArmTask>> \in Seq(Task)
      BY <1>5
    <3>2. /\ Len(Q2) = Len(Q) + 2
          /\ \A k \in 1..Len(Q) + 2 : Q2[k] =
                IF k <= Len(Q) THEN Q[k] ELSE <<V, ArmTask>>[k - Len(Q)]
      BY <1>3, <1>3a, <3>1
    <3> HIDE DEF Q2, Q
    <3> QED
      BY <1>3, <3>2
  <2> HIDE DEF P, Q2
  <2>5. /\ view_number'[r] = view_number[r] /\ saved_view'[r] = saved_view[r]
        /\ last_exe_seq'[r] = i.seq /\ instances'[r] = I /\ posted'[r] = Q2
        /\ ledger'[r] = i.value /\ proofs'[r] = P
        /\ OnlyOf(r)
    BY <1>6, <2>1, Domains DEF OnlyOf
  <2>6. OneSequencePerView'
    BY <1>6 DEF StepInv, OneSequencePerView
  <2>7. PreparedExtends'
    <3>1. Len(ledger[r]) <= Len(i.value)
      BY <1>3, <2>2
    <3> QED
      BY <1>2a, <1>6, <2>1, <2>2, <3>1, LedgerGrows, Zenon
  <2>8. ViewBehind(r)'
    <3>1. /\ saved_view[r] = view_number[r] /\ Base + view_number[r] <= i.seq
          /\ i.seq <= Base + Len(i.value)
      <4>1. /\ saved_view[r] = view_number[r]
            /\ Base + view_number[r] <= last_exe_seq[r]
        BY <1>4, Zenon DEF InStep, ViewBehind
      <4>2. /\ i.seq = last_exe_seq[r] + 1 /\ i.seq = Base + i.view + 1
            /\ i.view = h /\ Len(i.value) = h + 1 /\ h \in Nat
            /\ last_exe_seq[r] \in Nat /\ view_number[r] \in Nat /\ Base \in Nat
        BY <1>2, <1>3, <1>9, <2>2, Zenon
      <4> HIDE DEF h
      <4> QED
        BY <4>1, <4>2
    <3> QED
      BY <2>5, <3>1, Zenon DEF ViewBehind
  <2>9. ProofsInStep(r)'
    <3>1. pf.view + 1 = h + 1 /\ pf.seq = Base + (h + 1)
      BY <1>2, <1>3, <1>9
    <3> HIDE DEF pf
    <3>2. ASSUME NEW k \in 1..(h + 1)
          PROVE  P[k].view + 1 = k /\ P[k].seq = Base + k
      <4>1. CASE k = h + 1
        BY <2>3, <3>1, <4>1
      <4>2. CASE k # h + 1
        <5>1. k \in 1..h
          BY <1>3, <4>2
        <5> QED
          BY <1>4, <2>3, <5>1 DEF InStep, ProofsInStep
      <4> QED
        BY <4>1, <4>2
    <3> QED
      BY <2>2, <2>5, <3>2 DEF ProofsInStep
  <2>10. PostedInStep(r)'
    <3>1. ASSUME NEW j \in 1..(Len(Q) + 2), Q2[j].task = "validators"
          PROVE  Q2[j].seq = Base + Q2[j].view + 1 /\ Q2[j].view < h + 1
      <4>1. CASE j \in 1..Len(Q)
        <5>1. Q[j] \in Task
          BY <1>3a, <4>1
        <5>2. Q[j].view \in Nat
          BY <5>1 DEF Task
        <5>3. Q[j].seq = Base + Q[j].view + 1 /\ Q[j].view < h
          BY <1>4, <2>4, <3>1, <4>1 DEF InStep, PostedInStep
        <5>4. Q2[j] = Q[j]
          BY <2>4, <4>1
        <5> QED
          BY <1>3, <5>2, <5>3, <5>4
      <4>2. CASE j = Len(Q) + 1
        <5>1. Q2[j] = V
          BY <2>4, <4>2
        <5>2. V.seq = Base + V.view + 1 /\ V.view < h + 1
          BY <1>2, <1>3, <1>5, <1>9
        <5> QED
          BY <5>1, <5>2
      <4>3. CASE j = Len(Q) + 2
        BY <1>5, <2>4, <3>1, <4>3
      <4> QED
        <5>1. j \in 1..Len(Q) \/ j = Len(Q) + 1 \/ j = Len(Q) + 2
          BY <1>3
        <5> QED
          BY <4>1, <4>2, <4>3, <5>1, Zenon
    <3> QED
      BY <2>2, <2>4, <2>5, <3>1 DEF PostedInStep
  <2>11. PostedCovers(r)'
    BY <1>2, <1>3, <1>9, <2>2, <2>5 DEF PostedCovers
  <2>12. ArmWaits(r)'
    <3>1. Len(Q) + 1 \in 1..Len(Q2) /\ Len(Q) + 2 \in 1..Len(Q2)
          /\ Len(Q) + 1 < Len(Q) + 2
      BY <1>3, <2>4
    <3> QED
      BY <1>5, <2>4, <2>5, <3>1, Zenon DEF ArmWaits
  <2> QED
    BY <1>8, <2>5, <2>6, <2>7, <2>8, <2>9, <2>10, <2>11, <2>12, OneReplica DEF InStep
<1>10. CASE i.view # h
  <2> DEFINE Q2 == Append(Q, ArmTask)
  <2>1. posted' = [posted EXCEPT ![r] = Q2] /\ UNCHANGED <<ledger, proofs>>
    <3>1. PICK closes \in Closes(r, i) :
            closes = FALSE => /\ posted' = [posted EXCEPT ![r] = Append(@, ArmTask)]
                              /\ UNCHANGED <<ledger, proofs>>
      BY <1>1, Zenon
    <3>2. closes = FALSE
      BY <1>2a, <1>10, Zenon
    <3> QED
      BY <3>1, <3>2, Zenon
  <2>2. /\ Len(Q2) = Len(Q) + 1
        /\ \A k \in 1..Len(Q) : Q2[k] = Q[k]
        /\ Q2[Len(Q) + 1] = ArmTask
    BY <1>3, <1>3a, <1>5
  <2> HIDE DEF Q2
  <2>4. /\ view_number'[r] = view_number[r] /\ saved_view'[r] = saved_view[r]
        /\ last_exe_seq'[r] = i.seq /\ instances'[r] = I /\ posted'[r] = Q2
        /\ ledger'[r] = ledger[r] /\ proofs'[r] = proofs[r]
        /\ OnlyOf(r)
    BY <1>6, <2>1, Domains DEF OnlyOf
  <2>5. OneSequencePerView' /\ PreparedExtends'
    BY <1>6, <2>1, MessagesFrame
  <2>6. i.view + 1 \in 1..h
    BY <1>2, <1>3, <1>10
  <2>7. ViewBehind(r)'
    <3>1. /\ saved_view[r] = view_number[r] /\ Base + view_number[r] <= i.seq
          /\ i.seq <= Base + h
      <4>1. /\ saved_view[r] = view_number[r]
            /\ Base + view_number[r] <= last_exe_seq[r]
        BY <1>4, Zenon DEF InStep, ViewBehind
      <4>2. /\ i.seq = last_exe_seq[r] + 1 /\ i.seq = Base + i.view + 1
            /\ i.view \in Nat /\ h \in Nat /\ i.view + 1 \in 1..h
            /\ last_exe_seq[r] \in Nat /\ view_number[r] \in Nat /\ Base \in Nat
        BY <1>2, <1>3, <2>6, Zenon
      <4> HIDE DEF h
      <4> QED
        BY <4>1, <4>2
    <3> QED
      BY <2>4, <3>1, Zenon DEF ViewBehind
  <2>8. ProofsInStep(r)'
    BY <1>4, <2>4, InStepFrame, Zenon
  <2>9. PostedInStep(r)'
    <3>1. ASSUME NEW j \in 1..(Len(Q) + 1), Q2[j].task = "validators"
          PROVE  j \in 1..Len(Q) /\ Q2[j] = Q[j]
      <4>1. j # Len(Q) + 1
        BY <1>5, <2>2, <3>1
      <4> QED
        BY <1>3, <2>2, <4>1
    <3> QED
      BY <1>4, <2>2, <2>4, <3>1, Zenon DEF InStep, PostedInStep
  <2>10. \A j \in 1..Len(Q) : j \in 1..Len(Q2)
    BY <1>3, <2>2
  <2>11. PostedCovers(r)'
    <3>1. ASSUME NEW k \in 1..h, ~(Base + k <= i.seq)
          PROVE  \E j \in 1..Len(Q2) :
                     Q2[j].task = "validators" /\ Q2[j].seq = Base + k
      <4>1. ~(Base + k <= last_exe_seq[r])
        BY <1>2, <1>3, <3>1
      <4>2. PICK j \in 1..Len(Q) : Q[j].task = "validators" /\ Q[j].seq = Base + k
        BY <1>4, <4>1 DEF InStep, PostedCovers
      <4> QED
        BY <2>2, <2>10, <4>2
    <3> QED
      BY <2>4, <3>1 DEF PostedCovers
  <2>12. ArmWaits(r)'
    <3>1. ~(Base + (i.view + 1) <= last_exe_seq[r]) /\ Base + (i.view + 1) = i.seq
      BY <1>2, <1>3
    <3>2. PICK j \in 1..Len(Q) : Q[j].task = "validators" /\ Q[j].seq = i.seq
      BY <1>4, <2>6, <3>1, Zenon DEF InStep, PostedCovers
    <3>3. /\ Len(Q) + 1 \in 1..Len(Q2) /\ j < Len(Q) + 1 /\ j \in 1..Len(Q2)
      BY <1>3, <2>2
    <3> QED
      BY <1>5, <2>2, <2>4, <3>2, <3>3 DEF ArmWaits
  <2> QED
    BY <1>8, <2>4, <2>5, <2>7, <2>8, <2>9, <2>11, <2>12, OneReplica DEF InStep
<1> QED
  BY <1>9, <1>10

\* A posted task preserves the invariant.
LEMMA StepPosted ==
    ASSUME TypeOK, StepInv, NEW r \in Replica, RunPosted(r)
    PROVE  StepInv'
<1> DEFINE Q == posted[r]
           Q2 == Tail(posted[r])
           t == Head(posted[r])
           st == UpdateValidators(StateOf(r), t)
           v == view_number[r]
           last == last_exe_seq[r]
           h == Len(ledger[r])
<1>1. Q \in Seq(Task) /\ Q # <<>>
  BY StepTypes DEF RunPosted
<1>2. /\ Len(Q) \in Nat \ {0} /\ t = Q[1] /\ t \in Task /\ Len(Q2) = Len(Q) - 1
      /\ \A k \in 1..Len(Q2) : Q2[k] = Q[k + 1]
  BY <1>1
<1>3. /\ 1 \in 1..Len(Q)
      /\ \A k \in 1..Len(Q2) : k + 1 \in 1..Len(Q)
      /\ \A j \in 1..Len(Q) : j # 1 => j - 1 \in 1..Len(Q2) /\ Q2[j - 1] = Q[j]
  <2>1. Len(Q) \in Nat /\ Len(Q) # 0 /\ Len(Q2) = Len(Q) - 1
    BY <1>2, Zenon
  <2>2. 1 \in 1..Len(Q) /\ \A k \in 1..Len(Q2) : k + 1 \in 1..Len(Q)
    BY <2>1
  <2>3. \A j \in 1..Len(Q) : j # 1 => j - 1 \in 1..Len(Q2) /\ (j - 1) + 1 = j
    BY <2>1
  <2> QED
    BY <1>2, <2>2, <2>3
<1>4. v \in Nat /\ last \in Nat /\ h \in Nat /\ Base \in Nat
  BY StepTypes
<1>5. t.view \in Nat /\ t.seq \in Nat
  BY <1>2 DEF Task
<1>6. InStep(r)
  BY DEF StepInv
<1>7. posted' = [posted EXCEPT ![r] = Q2] /\ UNCHANGED <<ledger, proofs>>
  BY DEF RunPosted
<1>8. OneSequencePerView' /\ PreparedExtends'
  BY MessagesFrame DEF RunPosted
<1> HIDE DEF Q2, t
<1>9. ASSUME posted'[r] = Q2, ledger'[r] = ledger[r]
      PROVE  PostedInStep(r)'
  <2>1. ASSUME NEW j \in 1..Len(Q2), Q2[j].task = "validators"
        PROVE  Q2[j].seq = Base + Q2[j].view + 1 /\ Q2[j].view < h
    <3>1. j + 1 \in 1..Len(Q) /\ Q2[j] = Q[j + 1]
      BY <1>2, <1>3
    <3> QED
      BY <1>6, <2>1, <3>1 DEF InStep, PostedInStep
  <2> QED
    BY <1>9, <2>1 DEF PostedInStep
<1>10. CASE t.task = "validators"
  <2>1. /\ view_number' = [view_number EXCEPT ![r] = st.view]
        /\ saved_view' = [saved_view EXCEPT ![r] = st.saved]
        /\ last_exe_seq' = [last_exe_seq EXCEPT ![r] = st.last]
        /\ instances' = [instances EXCEPT ![r] = st.inst]
    BY <1>10, Zenon DEF RunPosted, t
  <2>2. saved_view[r] = v /\ Base + v <= last /\ last <= Base + h
    BY <1>6 DEF InStep, ViewBehind
  <2>3. t.seq = Base + t.view + 1 /\ t.view < h
    BY <1>2, <1>3, <1>6, <1>10 DEF InStep, PostedInStep
  <2>4. /\ st.view = (IF t.view >= v THEN t.view + 1 ELSE v)
        /\ st.last = (IF t.seq > last THEN t.seq ELSE last)
        /\ st.saved = st.view
    BY <2>2, Zenon DEF UpdateValidators, StateOf
  <2>4a. \A i \in st.inst : /\ i \in instances[r]
                            /\ \/ st.view = v /\ st.last = last
                               \/ i.phase = COMMITED
    BY Zenon DEF UpdateValidators, StateOf
  <2> HIDE DEF st
  <2>5. /\ view_number'[r] = st.view /\ saved_view'[r] = st.saved
        /\ last_exe_seq'[r] = st.last /\ instances'[r] = st.inst
        /\ posted'[r] = Q2 /\ ledger'[r] = ledger[r] /\ proofs'[r] = proofs[r]
        /\ OnlyOf(r)
    BY <1>7, <2>1, Domains, Zenon DEF OnlyOf
  <2>6. ViewBehind(r)'
    <3>1. /\ st.saved = st.view /\ Base + st.view <= st.last
          /\ st.last <= Base + h
      <4> HIDE DEF h, v, last
      <4> QED
        BY <1>4, <1>5, <2>2, <2>3, <2>4
    <3> QED
      BY <2>5, <3>1, Zenon DEF ViewBehind
  <2>7. ProofsInStep(r)'
    BY <1>6, <2>5, InStepFrame, Zenon
  <2>8. PostedCovers(r)'
    <3>1. ASSUME NEW k \in 1..h, ~(Base + k <= st.last)
          PROVE  \E j \in 1..Len(Q2) :
                     Q2[j].task = "validators" /\ Q2[j].seq = Base + k
      <4>1. ~(Base + k <= last) /\ Base + k # t.seq
        BY <1>4, <1>5, <2>4, <3>1
      <4>2. PICK j \in 1..Len(Q) : Q[j].task = "validators" /\ Q[j].seq = Base + k
        BY <1>6, <4>1 DEF InStep, PostedCovers
      <4>3. j # 1
        BY <1>2, <4>1, <4>2
      <4> QED
        BY <1>3, <4>2, <4>3, Zenon
    <3> QED
      BY <2>5, <3>1 DEF PostedCovers
  <2>9. ArmWaits(r)'
    <3>1. ASSUME st.last > Base + st.view
          PROVE  \E j, k \in 1..Len(Q2) :
                    /\ j < k /\ Q2[k].task = "arm"
                    /\ Q2[j].task = "validators" /\ Q2[j].seq = st.last
      <4>1. st.last = last /\ last > Base + v /\ last # t.seq
        BY <1>4, <1>5, <2>2, <2>3, <2>4, <3>1
      <4>2. PICK j \in 1..Len(Q), k \in 1..Len(Q) :
                    /\ j < k /\ Q[k].task = "arm"
                    /\ Q[j].task = "validators" /\ Q[j].seq = last
        BY <1>6, <4>1 DEF InStep, ArmWaits
      <4>3. j # 1 /\ k # 1 /\ j - 1 < k - 1
        BY <1>2, <1>10, <4>1, <4>2
      <4>4. /\ j - 1 \in 1..Len(Q2) /\ Q2[j - 1] = Q[j]
            /\ k - 1 \in 1..Len(Q2) /\ Q2[k - 1] = Q[k]
        BY <1>3, <4>3
      <4> QED
        BY <4>1, <4>2, <4>3, <4>4
    <3> QED
      BY <2>5, <3>1 DEF ArmWaits
  <2>10. InstancesCurrent(r)'
    <3>1. \A i \in instances[r] : /\ ~i.traced
                                  /\ i.phase < COMMITED =>
                                       i.view = v /\ i.seq <= last + ckp_interval
      BY <1>6 DEF InStep, InstancesCurrent
    <3> QED
      BY <2>4a, <2>5, <3>1 DEF InstancesCurrent, COMMITED
  <2> QED
    BY <1>8, <1>9, <2>5, <2>6, <2>7, <2>8, <2>9, <2>10, OneReplica, Zenon DEF InStep
<1>11. CASE t.task # "validators"
  <2>1. UNCHANGED <<view_number, last_exe_seq, saved_view, instances>>
    BY <1>11 DEF RunPosted, t
  <2>3. /\ posted'[r] = Q2 /\ ledger'[r] = ledger[r] /\ proofs'[r] = proofs[r]
        /\ OnlyOf(r)
    BY <1>7, <2>1, Domains DEF OnlyOf
  <2>4. ViewBehind(r)' /\ ProofsInStep(r)' /\ InstancesCurrent(r)'
    BY <1>6, <2>1, <2>3, InStepFrame, Zenon
  <2>5. PostedCovers(r)'
    <3>1. ASSUME NEW k \in 1..h, ~(Base + k <= last)
          PROVE  \E j \in 1..Len(Q2) :
                     Q2[j].task = "validators" /\ Q2[j].seq = Base + k
      <4>1. PICK j \in 1..Len(Q) : Q[j].task = "validators" /\ Q[j].seq = Base + k
        BY <1>6, <3>1 DEF InStep, PostedCovers
      <4>2. j # 1
        BY <1>2, <1>11, <4>1
      <4> QED
        BY <1>3, <4>1, <4>2, Zenon
    <3> QED
      BY <2>1, <2>3, <3>1, Zenon DEF PostedCovers
  <2>6. ArmWaits(r)'
    <3>1. ASSUME last > Base + v
          PROVE  \E j, k \in 1..Len(Q2) :
                    /\ j < k /\ Q2[k].task = "arm"
                    /\ Q2[j].task = "validators" /\ Q2[j].seq = last
      <4>1. PICK j \in 1..Len(Q), k \in 1..Len(Q) :
                    /\ j < k /\ Q[k].task = "arm"
                    /\ Q[j].task = "validators" /\ Q[j].seq = last
        BY <1>6, <3>1 DEF InStep, ArmWaits
      <4>2. j # 1
        BY <1>2, <1>11, <4>1
      <4>3. k # 1 /\ j - 1 < k - 1
        BY <4>1
      <4>4. /\ j - 1 \in 1..Len(Q2) /\ Q2[j - 1] = Q[j]
            /\ k - 1 \in 1..Len(Q2) /\ Q2[k - 1] = Q[k]
        BY <1>3, <4>2, <4>3
      <4> QED
        BY <4>1, <4>3, <4>4, Zenon
    <3> QED
      BY <2>1, <2>3, <3>1 DEF ArmWaits
  <2> QED
    BY <1>8, <1>9, <2>3, <2>4, <2>5, <2>6, OneReplica DEF InStep
<1> QED
  BY <1>10, <1>11

\* Syncing ledgers from a peer preserves the invariant.
LEMMA StepSync ==
    ASSUME TypeOK, QuorumInv, StepInv, NEW r \in Replica, NEW p \in Replica,
           SyncLedger(r, p)
    PROVE  StepInv'
<1> DEFINE h == Len(ledger[r])
           Q == posted[r]
<1>1. PICK n \in (h + 1)..Len(ledger[p]) :
        /\ ledger' = [ledger EXCEPT ![r] = SubSeq(ledger[p], 1, n)]
        /\ proofs' = [proofs EXCEPT ![r] = @ \o SubSeq(proofs[p], h + 1, n)]
        /\ posted' = [posted EXCEPT ![r] = @ \o
              [k \in 1..(n - h) |-> ValidatorsTask(proofs[p][h + k])]]
  BY ZenonT(40) DEF SyncLedger
<1>2. /\ ledger[r] \in Seq(Content) /\ ledger[p] \in Seq(Content)
      /\ proofs[p] \in Seq(Proof) /\ proofs[r] \in Seq(Proof)
      /\ Q \in Seq(Task) /\ Len(Q) \in Nat
      /\ Len(proofs[p]) = Len(ledger[p]) /\ Len(proofs[r]) = h
      /\ SubSeq(ledger[p], 1, h) = ledger[r]
      /\ last_exe_seq[r] \in Nat /\ Base \in Nat
  BY StepTypes DEF QuorumInv, Lengths, SyncLedger
<1>3. /\ h \in Nat /\ n \in Nat /\ h + 1 <= n /\ n <= Len(proofs[p])
      /\ n - h \in Nat /\ Len(proofs[p]) \in Nat
  BY <1>2
<1> DEFINE L == SubSeq(ledger[p], 1, n)
           X == SubSeq(proofs[p], h + 1, n)
           P == proofs[r] \o X
           tasks == [k \in 1..(n - h) |-> ValidatorsTask(proofs[p][h + k])]
           Q2 == Q \o tasks
<1>4. /\ ledger' = [ledger EXCEPT ![r] = L]
      /\ proofs' = [proofs EXCEPT ![r] = P]
      /\ posted' = [posted EXCEPT ![r] = Q2]
  BY <1>1
<1>5. UNCHANGED <<view_number, last_exe_seq, saved_view, instances, msgs>>
  BY DEF SyncLedger
<1> HIDE DEF h
<1>6. \A k \in 1..n : /\ proofs[p][k] \in Proof /\ ledger[p][k] \in Content
                      /\ proofs[p][k].view + 1 = k /\ proofs[p][k].seq = Base + k
  <2>1. \A k \in 1..n : k \in 1..Len(ledger[p]) /\ k \in 1..Len(proofs[p])
    BY <1>2, <1>3
  <2> QED
    <3>1. \A k \in 1..Len(ledger[p]) :
              proofs[p][k].view + 1 = k /\ proofs[p][k].seq = Base + k
      BY DEF StepInv, InStep, ProofsInStep
    <3> QED
      BY <1>2, <2>1, <3>1
<1>7. Len(L) = n /\ L \in Seq(Content)
  BY <1>3, <1>6
<1>8. SubSeq(L, 1, h) = ledger[r]
  <2>1. n \in 0..Len(ledger[p]) /\ h \in 0..n
    BY <1>2, <1>3
  <2> QED
    BY <1>2, <2>1, PrefixesNest
<1>9. /\ X \in Seq(Proof) /\ Len(X) = n - h
      /\ \A k \in 1..(n - h) : X[k] = proofs[p][h + k]
  <2>1. \A k \in (h + 1)..n : proofs[p][k] \in Proof
    BY <1>3, <1>6
  <2>2. /\ X \in Seq(Proof)
        /\ Len(X) = IF h + 1 <= n THEN n - (h + 1) + 1 ELSE 0
        /\ \A k \in 1..(n - (h + 1) + 1) : X[k] = proofs[p][(h + 1) + k - 1]
    BY <1>3, <2>1
  <2>3. n - (h + 1) + 1 = n - h /\ \A k \in Int : (h + 1) + k - 1 = h + k
    BY <1>3
  <2> QED
    BY <1>3, <2>2, <2>3
<1> HIDE DEF X
<1>10. \A k \in 1..n : (P[k] = proofs[r][k] /\ k <= h) \/ P[k] = proofs[p][k]
  <2>1. \A k \in 1..(Len(proofs[r]) + Len(X)) :
            P[k] = IF k <= Len(proofs[r]) THEN proofs[r][k]
                   ELSE X[k - Len(proofs[r])]
    <3>1. proofs[r] \in Seq(Proof) /\ X \in Seq(Proof)
      BY <1>2, <1>9, Zenon
    <3> QED
      BY <3>1
  <2> HIDE DEF P
  <2>2. Len(proofs[r]) + Len(X) = n
    BY <1>2, <1>3, <1>9
  <2>3. ASSUME NEW k \in 1..n, ~(k <= h) PROVE X[k - h] = proofs[p][k]
    <3>1. k - h \in 1..(n - h) /\ h + (k - h) = k
      BY <1>3, <2>3
    <3> QED
      BY <1>9, <3>1
  <2> QED
    BY <1>2, <2>1, <2>2, <2>3, ZenonT(40)
<1>11. /\ tasks \in Seq(Task) /\ Len(tasks) = n - h
       /\ \A k \in 1..(n - h) : /\ tasks[k].task = "validators"
                                /\ tasks[k].view \in Nat
                                /\ tasks[k].view + 1 = h + k
                                /\ tasks[k].seq = Base + (h + k)
  <2>1. \A k \in 1..(n - h) : h + k \in 1..n
    BY <1>3
  <2>2. \A k \in 1..(n - h) : ValidatorsTask(proofs[p][h + k]) \in Task
    BY <1>6, <2>1 DEF ValidatorsTask, Task, Proof
  <2>3. tasks \in Seq(Task) /\ Len(tasks) = n - h
    BY <1>3, <2>2
  <2>4. ASSUME NEW k \in 1..(n - h)
        PROVE  /\ tasks[k].task = "validators" /\ tasks[k].view \in Nat
               /\ tasks[k].view + 1 = h + k /\ tasks[k].seq = Base + (h + k)
    <3>1. /\ proofs[p][h + k].view \in Nat /\ proofs[p][h + k].view + 1 = h + k
          /\ proofs[p][h + k].seq = Base + (h + k)
      BY <1>6, <2>1 DEF Proof
    <3>2. tasks[k] = ValidatorsTask(proofs[p][h + k])
      OBVIOUS
    <3> QED
      BY <3>1, <3>2 DEF ValidatorsTask
  <2> HIDE DEF tasks
  <2> QED
    BY <2>3, <2>4
<1> HIDE DEF tasks
<1>12. /\ Len(Q2) = Len(Q) + (n - h)
       /\ \A k \in 1..Len(Q) : k \in 1..Len(Q2) /\ Q2[k] = Q[k]
       /\ \A k \in 1..(n - h) : Len(Q) + k \in 1..Len(Q2) /\ Q2[Len(Q) + k] = tasks[k]
  <2>1. /\ Len(Q2) = Len(Q) + Len(tasks)
        /\ \A k \in 1..(Len(Q) + Len(tasks)) :
              Q2[k] = IF k <= Len(Q) THEN Q[k] ELSE tasks[k - Len(Q)]
    <3>1. Q \in Seq(Task) /\ tasks \in Seq(Task)
      BY <1>2, <1>11
    <3> HIDE DEF Q
    <3> QED
      BY <3>1
  <2>2. Len(Q) \in Nat /\ h \in Nat /\ n \in Nat /\ h + 1 <= n /\ Len(tasks) = n - h
    BY <1>2, <1>3, <1>11
  <2> HIDE DEF Q2, Q
  <2>3. ASSUME NEW k \in 1..(n - h)
        PROVE  /\ Len(Q) + k \in 1..(Len(Q) + Len(tasks)) /\ ~(Len(Q) + k <= Len(Q))
               /\ (Len(Q) + k) - Len(Q) = k
    BY <2>2
  <2>4. \A k \in 1..Len(Q) : k \in 1..(Len(Q) + Len(tasks)) /\ k <= Len(Q)
    BY <2>2
  <2> QED
    BY <2>1, <2>2, <2>3, <2>4, ZenonT(40)
<1> HIDE DEF L, P, Q2
<1>14. /\ posted'[r] = Q2 /\ ledger'[r] = L /\ proofs'[r] = P
       /\ OnlyOf(r)
  BY <1>4, <1>5, Domains DEF OnlyOf
<1>15. InStep(r)
  BY DEF StepInv
<1>16. OneSequencePerView'
  BY <1>5 DEF StepInv, OneSequencePerView
<1>17. PreparedExtends'
  <2>1. Len(ledger[r]) <= Len(L) /\ SubSeq(L, 1, Len(ledger[r])) = ledger[r]
    BY <1>3, <1>7, <1>8 DEF h
  <2> QED
    BY <1>4, <1>5, <1>7, <2>1, LedgerGrows, Zenon
<1>18. ViewBehind(r)'
  <2>1. last_exe_seq[r] <= Base + h
    BY <1>15, Zenon DEF InStep, ViewBehind, h
  <2>2. last_exe_seq[r] <= Base + Len(L)
    BY <1>2, <1>3, <1>7, <2>1
  <2> QED
    BY <1>5, <1>14, <1>15, <2>2, Zenon DEF InStep, ViewBehind
<1>19. ProofsInStep(r)'
  <2>1. ASSUME NEW k \in 1..n PROVE P[k].view + 1 = k /\ P[k].seq = Base + k
    <3>1. CASE P[k] = proofs[r][k] /\ k <= h
      <4>1. k \in 1..Len(ledger[r])
        BY <1>3, <3>1 DEF h
      <4> QED
        BY <1>15, <3>1, <4>1 DEF InStep, ProofsInStep
    <3>2. CASE P[k] = proofs[p][k]
      BY <1>6, <3>2
    <3> QED
      BY <1>10, <3>1, <3>2
  <2> QED
    BY <1>7, <1>14, <2>1 DEF ProofsInStep
<1>20. ASSUME NEW j \in 1..Len(Q2)
       PROVE  \/ j \in 1..Len(Q) /\ Q2[j] = Q[j]
              \/ \E k \in 1..(n - h) : j = Len(Q) + k /\ Q2[j] = tasks[k]
  <2>1. CASE j <= Len(Q)
    BY <1>2, <1>12, <2>1, SMTT(20), Z3T(20)
  <2>2. CASE ~(j <= Len(Q))
    <3> DEFINE k == j - Len(Q)
    <3>1. k \in 1..(n - h) /\ j = Len(Q) + k
      BY <1>2, <1>3, <1>12, <2>2
    <3> HIDE DEF k
    <3> QED
      BY <1>12, <3>1
  <2> QED
    BY <2>1, <2>2
<1>21. PostedInStep(r)'
  <2>1. ASSUME NEW j \in 1..Len(Q2), Q2[j].task = "validators"
        PROVE  Q2[j].seq = Base + Q2[j].view + 1 /\ Q2[j].view < n
    <3>1. CASE j \in 1..Len(Q) /\ Q2[j] = Q[j]
      <4>1. Q[j] \in Task
        BY <1>2, <3>1
      <4>2. Q[j].view \in Nat
        BY <4>1 DEF Task
      <4>3. Q[j].seq = Base + Q[j].view + 1 /\ Q[j].view < h
        BY <1>15, <2>1, <3>1 DEF InStep, PostedInStep, h
      <4> QED
        BY <1>3, <3>1, <4>2, <4>3
    <3>2. ASSUME NEW k \in 1..(n - h), Q2[j] = tasks[k]
          PROVE  Q2[j].seq = Base + Q2[j].view + 1 /\ Q2[j].view < n
      <4> DEFINE w == tasks[k].view
                 q == tasks[k].seq
      <4>1. w \in Nat /\ w + 1 = h + k /\ q = Base + (h + k)
        BY <1>11
      <4>2. Base \in Nat /\ h \in Nat /\ n \in Nat /\ k \in Nat /\ k <= n - h
        BY <1>2, <1>3
      <4> HIDE DEF w, q
      <4>3. q = Base + w + 1 /\ w < n
        BY <4>1, <4>2
      <4> QED
        BY <3>2, <4>3, Zenon DEF w, q
    <3> QED
      BY <1>20, <3>1, <3>2
  <2> QED
    BY <1>7, <1>14, <2>1 DEF PostedInStep
<1>22. PostedCovers(r)'
  <2>1. ASSUME NEW k \in 1..n, ~(Base + k <= last_exe_seq[r])
        PROVE  \E j \in 1..Len(Q2) :
                   Q2[j].task = "validators" /\ Q2[j].seq = Base + k
    <3>1. CASE k <= h
      <4>1. k \in 1..Len(ledger[r])
        BY <1>3, <3>1 DEF h
      <4>2. PICK j \in 1..Len(Q) : Q[j].task = "validators" /\ Q[j].seq = Base + k
        BY <1>15, <2>1, <4>1 DEF InStep, PostedCovers
      <4> QED
        BY <1>12, <4>2
    <3>2. CASE ~(k <= h)
      <4> DEFINE j == k - h
      <4>1. j \in 1..(n - h) /\ h + j = k
        BY <1>3, <3>2
      <4> HIDE DEF j
      <4>2. Len(Q) + j \in 1..Len(Q2) /\ Q2[Len(Q) + j] = tasks[j]
        BY <1>12, <4>1
      <4>3. tasks[j].task = "validators" /\ tasks[j].seq = Base + k
        BY <1>11, <4>1
      <4> QED
        BY <4>2, <4>3
    <3> QED
      BY <3>1, <3>2
  <2> QED
    BY <1>5, <1>7, <1>14, <2>1 DEF PostedCovers
<1>23. ArmWaits(r)'
  BY <1>5, <1>12, <1>14, <1>15 DEF InStep, ArmWaits
<1>24. InstancesCurrent(r)'
  BY <1>5, <1>15, InStepFrame, Zenon
<1> QED
  BY <1>14, <1>16, <1>17, <1>18, <1>19, <1>21, <1>22, <1>23, <1>24, OneReplica
     DEF InStep

\* A restart takes up the view and the sequence after the last closed ledger.
LEMMA StepRestart ==
    ASSUME TypeOK, QuorumInv, StepInv, NEW r \in Replica, Restart(r)
    PROVE  StepInv'
<1> DEFINE h == Len(ledger[r])
           v == view_number[r]
           pf == proofs[r][Len(proofs[r])]
           st == IF proofs[r] = <<>> THEN Loaded(r)
                 ELSE UpdateValidators(Loaded(r), pf)
<1>1. /\ view_number' = [view_number EXCEPT ![r] = st.view]
      /\ last_exe_seq' = [last_exe_seq EXCEPT ![r] = st.last]
      /\ saved_view' = [saved_view EXCEPT ![r] = st.saved]
      /\ instances' = [instances EXCEPT ![r] = {}]
      /\ posted' = [posted EXCEPT ![r] = <<>>]
      /\ UNCHANGED <<ledger, proofs, msgs>>
  BY Zenon DEF Restart
<1>2. /\ h \in Nat /\ v \in Nat /\ last_exe_seq[r] \in Nat /\ Base \in Nat
      /\ proofs[r] \in Seq(Proof) /\ Len(proofs[r]) = h
  BY StepTypes DEF QuorumInv, Lengths
<1>3. InStep(r)
  BY DEF StepInv
<1>4. saved_view[r] = v /\ v <= h
  BY <1>2, <1>3 DEF InStep, ViewBehind
<1>5. st.view = h /\ st.last = Base + h /\ st.saved = h
  <2>1. CASE proofs[r] = <<>>
    <3>1. h = 0 /\ v = 0
      BY <1>2, <1>4, <2>1
    <3> QED
      BY <1>2, <1>4, <2>1, <3>1 DEF Loaded
  <2>2. CASE proofs[r] # <<>>
    <3>1. h \in 1..Len(ledger[r]) /\ h > 0
      BY <1>2, <2>2
    <3>2. pf.view + 1 = h /\ pf.seq = Base + h /\ pf \in Proof
      BY <1>2, <1>3, <3>1, SMTT(20), Z3T(20) DEF InStep, ProofsInStep
    <3>3. pf.view \in Nat
      BY <3>2 DEF Proof
    <3> HIDE DEF pf
    <3>4. st = UpdateValidators(Loaded(r), pf)
      BY <2>2
    <3>5. Loaded(r).view = v /\ Loaded(r).last = Base
      BY <1>4 DEF Loaded
    <3>6. (IF pf.view >= v THEN pf.view + 1 ELSE v) = h
      BY <1>2, <1>4, <3>2, <3>3
    <3>7. (IF pf.seq > Base THEN pf.seq ELSE Base) = Base + h /\ Base + h # Base
      BY <1>2, <3>1, <3>2
    <3> HIDE DEF st, h, v
    <3> QED
      BY <3>4, <3>5, <3>6, <3>7 DEF UpdateValidators
  <2> QED
    BY <2>1, <2>2
<1> HIDE DEF st
<1>7. /\ view_number'[r] = h /\ saved_view'[r] = h /\ last_exe_seq'[r] = Base + h
      /\ instances'[r] = {} /\ posted'[r] = <<>>
      /\ ledger'[r] = ledger[r] /\ proofs'[r] = proofs[r]
      /\ OnlyOf(r)
  <2>1. /\ view_number'[r] = st.view /\ saved_view'[r] = st.saved
        /\ last_exe_seq'[r] = st.last /\ instances'[r] = {} /\ posted'[r] = <<>>
        /\ ledger'[r] = ledger[r] /\ proofs'[r] = proofs[r]
        /\ OnlyOf(r)
    BY <1>1, Domains DEF OnlyOf
  <2> QED
    BY <1>5, <2>1, Zenon
<1>8. OneSequencePerView' /\ PreparedExtends'
  BY <1>1, MessagesFrame
<1>9. ViewBehind(r)' /\ PostedCovers(r)' /\ ArmWaits(r)'
  <2>1. /\ Base + h <= Base + h /\ ~(Base + h > Base + h)
        /\ \A k \in 1..h : Base + k <= Base + h
    BY <1>2
  <2> QED
    BY <1>7, <2>1, Zenon DEF ViewBehind, PostedCovers, ArmWaits
<1>10. ProofsInStep(r)'
  BY <1>3, <1>7, InStepFrame, Zenon
<1>11. PostedInStep(r)' /\ InstancesCurrent(r)'
  <2>1. instances'[r] = {} /\ Len(posted'[r]) = 0
    BY <1>7
  <2> QED
    BY <2>1 DEF PostedInStep, InstancesCurrent
<1> QED
  BY <1>7, <1>8, <1>9, <1>10, <1>11, OneReplica, Zenon DEF InStep

\* No view has closed a ledger at the start.
LEMMA InitStep == Init => StepInv
<1> SUFFICES ASSUME Init, NEW r \in Replica PROVE InStep(r)
  BY DEF Init, StepInv, OneSequencePerView, PreparedExtends
<1>1. /\ view_number[r] = 0 /\ saved_view[r] = 0 /\ last_exe_seq[r] = Base
      /\ instances[r] = {} /\ posted[r] = <<>> /\ ledger[r] = <<>>
  BY DEF Init
<1>2. Len(ledger[r]) = 0 /\ Len(posted[r]) = 0 /\ 1..0 = {}
  BY <1>1
<1>3. ViewBehind(r) /\ ArmWaits(r)
  BY <1>1, <1>2 DEF ViewBehind, ArmWaits, Base
<1>4. ProofsInStep(r) /\ PostedInStep(r) /\ PostedCovers(r) /\ InstancesCurrent(r)
  BY <1>1, <1>2, Zenon DEF ProofsInStep, PostedInStep, PostedCovers, InstancesCurrent
<1> QED
  BY <1>3, <1>4, Zenon DEF InStep
=============================================================================

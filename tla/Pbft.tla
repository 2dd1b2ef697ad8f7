-------------------------------- MODULE Pbft --------------------------------
(***************************************************************************)
(* The PBFT replica of src/consensus/bft.cpp and bft_instance.cpp, wired   *)
(* to the ledger the way src/glue/glue_manager.cpp wires it: the leader    *)
(* proposes, replicas pre-prepare, prepare and commit, a committed value   *)
(* is executed and closes a ledger, a closed ledger moves every replica to *)
(* the next view, and a replica that waits too long changes view.          *)
(*                                                                         *)
(* A message once broadcast stays in msgs: OnTimer retransmits it, the     *)
(* network may lose, duplicate, delay or reorder it, so any replica may    *)
(* handle it at any time, several times or never.  A vote (prepare, commit *)
(* or view change) that a replica has buffered has no effect before the    *)
(* votes reach a quorum.  Hence a replica keeps no buffers here: a vote is *)
(* handled in the step that finds a quorum among the votes broadcast.      *)
(*                                                                         *)
(* A replica handles one event at a time, on its main thread; only ledger  *)
(* synchronisation runs on the network thread.  TryExecuteValue's loop is  *)
(* the only handler taken apart: while executing[r] holds, the main thread *)
(* does nothing else.                                                      *)
(*                                                                         *)
(* A consensus value names its predecessor by hash, so a value is the      *)
(* whole chain it extends: the block contents closed since the initial     *)
(* state, followed by the proposed one.  In the initial state the ledger   *)
(* of sequence Base has just been closed.                                  *)
(***************************************************************************)
EXTENDS Naturals, Sequences, FiniteSets

CONSTANTS N,              \* validators_.size()
          Live,           \* the validators that run; the others are down
          Content,        \* block contents a leader can put in a proposal
          Fresh(_),       \* those a leader of the given view chooses from
          CheckOutcomes,  \* outcomes of the clock and pre-execution tests
          ckp_interval,   \* Pbft::ckp_interval_, 10 in the code
          Impatient,      \* bound: the replicas whose timers fire in time
          MaxView,        \* bound: no timeout asks for a higher view
          MaxLedger,      \* bound: no fresh proposal beyond this many blocks
          MaxRestarts     \* bound: number of crashes and restarts

Replica == 0..(N - 1)
Base == 2

ASSUME ConstantsAssumption ==
    /\ N \in Nat \ {0}
    /\ Live \subseteq Replica /\ Impatient \subseteq Live
    /\ CheckOutcomes \subseteq BOOLEAN
    /\ ckp_interval \in Nat
    /\ MaxView \in Nat /\ MaxLedger \in Nat /\ MaxRestarts \in Nat

VARIABLES view_number, view_active, last_exe_seq,
          instances,      \* instances_, a set of records indexed by view and seq
          executing,      \* r is inside the loop of TryExecuteValue
          start_timer,    \* a timer that calls StartConsensus("") is pending
          posted,         \* tasks posted to the io service, in order
          ledger,         \* the ledgers r has closed, as block contents
          proofs,         \* view and sequence in each closed ledger's proof
          saved_view,     \* VIEWNUMBER in the key-value database
          msgs,           \* every message broadcast so far
          restarts

vars == <<view_number, view_active, last_exe_seq, instances, executing,
          start_timer, posted, ledger, proofs, saved_view, msgs, restarts>>
-----------------------------------------------------------------------------
(* Quorums *)

\* Mutant: fault_number instead of 2 * fault_number.
GetQuorumSizeOneF == IF N = 1 THEN 0 ELSE ((N - 1) \div 3)

\* Pbft::GetQuorumSize: q prepares make a replica prepared, q + 1 commits make
\* it committed, more than q view changes make a new view.
GetQuorumSize ==
    LET f == (N - 1) \div 3 IN
    CASE N = 1 -> 0
      [] N \in {2, 3} -> 1
      [] N > 3 /\ N = 3 * f + 1 -> 2 * f
      [] N > 3 /\ N # 3 * f + 1 -> 2 * f + 1

-----------------------------------------------------------------------------
(* Instances and messages *)

NONE == 0
PREPREPARED == 1
PREPARED == 2
COMMITED == 3

\* No value: the empty string a protobuf field has by default.
NoValue == <<>>

\* PbftInstance.  "check" is check_value_result_ = CHECK_VALUE_VALID; "traced"
\* says the commit that completed the quorum came through TraceOutPbftCommit,
\* which does not put it into msg_buf_.
NewInstance(v, s) ==
    [view |-> v, seq |-> s, phase |-> NONE, value |-> NoValue,
     check |-> TRUE, traced |-> FALSE]

\* An instance with the value of its pre-prepare, and one with its commits.
PrePreparedInstance(v, s, val, chk) ==
    [view |-> v, seq |-> s, phase |-> PREPREPARED, value |-> val,
     check |-> chk, traced |-> FALSE]

CommitedInstance(i, t) ==
    [view |-> i.view, seq |-> i.seq, phase |-> COMMITED, value |-> i.value,
     check |-> i.check, traced |-> t]

\* PbftInstanceIndex::operator<
Before(i, j) == i.view < j.view \/ (i.view = j.view /\ i.seq < j.seq)

SameIndex(i, m) == i.view = m.view /\ i.seq = m.seq

\* An unset PbftPreparedSet: its sequence reads as 0.  A prepared set is bad
\* when it holds a prepare for another value than its pre-prepare.
NoCert == [view |-> 0, seq |-> 0, value |-> NoValue, bad |-> FALSE]

PhaseMsg(t, v, s, val, r) ==
    [type |-> t, view |-> v, seq |-> s, value |-> val, from |-> r]

ViewChange(v, r, c) == [type |-> "viewchange", view |-> v, from |-> r, cert |-> c]

NewView(v, r) == [type |-> "newview", view |-> v, from |-> r]

\* The replicas that voted (t is "prepare" or "commit") for val.
Voters(t, v, s, val) == {r \in Replica : PhaseMsg(t, v, s, val, r) \in msgs}

\* Somebody voted for another value under the same view and sequence.
Split(t, v, s, val) ==
    \E m \in msgs : m.type = t /\ m.view = v /\ m.seq = s /\ m.value # val

Primary(v) == v % N

IsLeader(r) == Primary(view_number[r]) = r

-----------------------------------------------------------------------------
(* What the ledger says of a value *)

\* CheckValueHelper: the value extends r's last closed ledger.
ExtendsLedger(r, val) ==
    Len(val) = Len(ledger[r]) + 1 /\ SubSeq(val, 1, Len(ledger[r])) = ledger[r]

\* GlueManager::CheckValue: VALID (TRUE) or MAYVALID (FALSE).  The clock test
\* and the pre-execution may turn down a value that extends the chain.
CheckValue(r, val) == IF ExtendsLedger(r, val) THEN CheckOutcomes ELSE {FALSE}

\* The values GlueManager::StartConsensus(last) may propose on r in view v:
\* the last prepared value if it checks, a fresh one otherwise.
Proposals(r, v, last) ==
    LET again == IF last # NoValue THEN CheckValue(r, last) ELSE {FALSE}
        fresh == {Append(ledger[r], c) : c \in Fresh(v) \cap Content}
    IN  (IF TRUE \in again THEN {last} ELSE {}) \cup
        (IF FALSE \in again /\ Len(ledger[r]) < MaxLedger THEN fresh ELSE {})

-----------------------------------------------------------------------------
(* Proposing *)

\* The main loop runs what its handlers have posted before it looks at timers;
\* only a task that the network thread posts, after a sync, may still wait.
TimersRun(r) ==
    ~executing[r] /\ \A k \in 1..Len(posted[r]) : posted[r][k].task # "arm"

\* The instances after Pbft::Request(val) in view v: uncommitted ones above the
\* last executed sequence are erased, the new one is already pre-prepared.
Requested(I, last, v, val) ==
    LET new == PrePreparedInstance(v, last + 1, val, TRUE)
    IN  {i \in I : ~SameIndex(i, new) /\ ~(i.seq > last /\ i.phase < COMMITED)}
            \cup {new}

\* GlueManager::StartConsensus(""), called by a timer.
StartConsensus(r) ==
    /\ TimersRun(r)
    /\ start_timer[r]
    /\ start_timer' = [start_timer EXCEPT ![r] = FALSE]
    /\ IF IsLeader(r) /\ view_active[r]
         THEN \E val \in Proposals(r, view_number[r], NoValue) :
                /\ instances' = [instances EXCEPT ![r] =
                      Requested(@, last_exe_seq[r], view_number[r], val)]
                /\ msgs' = msgs \cup {PhaseMsg("preprepare", view_number[r],
                                               last_exe_seq[r] + 1, val, r)}
         ELSE UNCHANGED <<instances, msgs>>
    /\ UNCHANGED <<view_number, view_active, last_exe_seq, executing, posted,
                   ledger, proofs, saved_view, restarts>>

-----------------------------------------------------------------------------
(* The three phases: CreateInstanceIfNotExist and PbftInstance::Go *)

InWaterMark(r, s) == last_exe_seq[r] <= s /\ s <= last_exe_seq[r] + ckp_interval

\* CreateInstanceIfNotExist finds or creates an instance for message m.
Accepts(r, m) ==
    /\ InWaterMark(r, m.seq) /\ m.seq > last_exe_seq[r]
    /\ m.view = view_number[r] /\ view_active[r]

InstanceOf(r, m) ==
    LET S == {i \in instances[r] : SameIndex(i, m)} IN
    IF S = {} THEN {NewInstance(m.view, m.seq)} ELSE S

\* The other instances: creating an instance erases those of lower views for
\* the same sequence.
OtherInstances(r, m) ==
    IF \E i \in instances[r] : SameIndex(i, m)
      THEN {i \in instances[r] : ~SameIndex(i, m)}
      ELSE {i \in instances[r] : ~(i.view < m.view /\ i.seq = m.seq)}

\* The primary does not answer a pre-prepare unless it is alone.
Answers(r, m) == Primary(m.view) # r \/ N = 1

\* Mutant: the phase is not tested, so a second pre-prepare replaces the value.
PrePreparedAgain(r, i, m, chk) ==
    IF Answers(r, m)
      THEN PrePreparedInstance(m.view, m.seq, m.value, chk)
      ELSE i

\* OnPrePrepare on instance i: it takes the value only if it has none.
PrePrepared(r, i, m, chk) ==
    IF i.phase = NONE /\ Answers(r, m)
      THEN PrePreparedInstance(m.view, m.seq, m.value, chk)
      ELSE i

\* OnRecv of a pre-prepare: the value is checked, then OnPrePrepare prepares it,
\* the first time or again.
OnPrePrepare(r, m) ==
    /\ ~executing[r]
    /\ m.type = "preprepare" /\ Accepts(r, m)
    /\ \E i \in InstanceOf(r, m), chk \in CheckValue(r, m.value) :
         LET j == PrePrepared(r, i, m, chk) IN
             /\ instances' = [instances EXCEPT ![r] = OtherInstances(r, m) \cup {j}]
             /\ msgs' = IF Answers(r, m) /\ chk /\ j.value = m.value
                          THEN msgs \cup {PhaseMsg("prepare", m.view, m.seq,
                                                   m.value, r)}
                          ELSE msgs
    /\ UNCHANGED <<view_number, view_active, last_exe_seq, executing,
                   start_timer, posted, ledger, proofs, saved_view, restarts>>

\* Mutant: one prepare too few.
PrepareQuorumLow(m) ==
    Cardinality(Voters("prepare", m.view, m.seq, m.value)) + 1 >= GetQuorumSize

\* OnPrepare has q prepares for the value of message m.
PrepareQuorum(m) ==
    Cardinality(Voters("prepare", m.view, m.seq, m.value)) >= GetQuorumSize

\* OnRecv of a prepare: OnPrepare becomes prepared with q matching prepares
\* and commits if its own check of the value succeeded.
OnPrepare(r, m) ==
    /\ ~executing[r]
    /\ m.type = "prepare" /\ Accepts(r, m)
    /\ \E i \in InstanceOf(r, m) :
         LET quorum == /\ i.phase >= PREPREPARED /\ i.value = m.value
                       /\ PrepareQuorum(m)
             j == IF quorum /\ i.phase < PREPARED
                    THEN [i EXCEPT !.phase = PREPARED] ELSE i
         IN  /\ instances' = [instances EXCEPT ![r] = OtherInstances(r, m) \cup {j}]
             /\ msgs' = IF quorum /\ i.check
                          THEN msgs \cup {PhaseMsg("commit", m.view, m.seq,
                                                   m.value, r)}
                          ELSE msgs
    /\ UNCHANGED <<view_number, view_active, last_exe_seq, executing,
                   start_timer, posted, ledger, proofs, saved_view, restarts>>

\* Mutant: one commit too few.
CommitQuorumLow(i) ==
    Cardinality(Voters("commit", i.view, i.seq, i.value)) >= GetQuorumSize

\* OnCommit has q + 1 commits for the value of instance i.
CommitQuorum(i) ==
    Cardinality(Voters("commit", i.view, i.seq, i.value)) >= GetQuorumSize + 1

\* OnRecv of a commit: a prepared instance with q + 1 commits is committed, and
\* the loop of TryExecuteValue begins.
OnCommit(r, m) ==
    /\ ~executing[r]
    /\ m.type = "commit" /\ Accepts(r, m)
    /\ \E i \in InstanceOf(r, m) :
         LET done == i.phase = PREPARED /\ i.value = m.value /\ CommitQuorum(i)
             j == IF done THEN CommitedInstance(i, FALSE) ELSE i
         IN  /\ instances' = [instances EXCEPT ![r] = OtherInstances(r, m) \cup {j}]
             /\ executing' = [executing EXCEPT ![r] = done]
    /\ UNCHANGED <<view_number, view_active, last_exe_seq, start_timer, posted,
                   ledger, proofs, saved_view, msgs, restarts>>

\* A commit CreateInstanceIfNotExist hands to TraceOutPbftCommit.
TracedOut(r, m) ==
    /\ m.type = "commit"
    /\ ~InWaterMark(r, m.seq) \/ m.view # view_number[r]
    /\ m.seq > last_exe_seq[r]

\* TraceOutPbftCommit when r has the instance: OnCommit, whatever the phase.
OnTracedCommit(r, m) ==
    /\ ~executing[r]
    /\ TracedOut(r, m)
    /\ \E i \in instances[r] :
         /\ SameIndex(i, m) /\ i.value = m.value
         /\ i.phase < COMMITED /\ CommitQuorum(i)
         /\ instances' = [instances EXCEPT ![r] = (@ \ {i}) \cup
                             {CommitedInstance(i, TRUE)}]
    /\ executing' = [executing EXCEPT ![r] = TRUE]
    /\ UNCHANGED <<view_number, view_active, last_exe_seq, start_timer, posted,
                   ledger, proofs, saved_view, msgs, restarts>>

\* TraceOutPbftCommit when r has no instance, and TryDoTraceOut: q + 1 commits
\* for a sequence a checkpoint interval ahead move r there.  The view is not
\* saved.
OnFarCommit(r, m) ==
    /\ ~executing[r]
    /\ TracedOut(r, m)
    /\ ~\E i \in instances[r] : SameIndex(i, m)
    /\ CommitQuorum(m)
    /\ m.seq >= last_exe_seq[r] + ckp_interval
    /\ view_active' = [view_active EXCEPT ![r] = TRUE]
    /\ view_number' = [view_number EXCEPT ![r] = m.view]
    /\ last_exe_seq' = [last_exe_seq EXCEPT ![r] = m.seq]
    /\ instances' = [instances EXCEPT ![r] = {i \in @ : i.seq > m.seq}]
    /\ UNCHANGED <<executing, start_timer, posted, ledger, proofs, saved_view,
                   msgs, restarts>>

-----------------------------------------------------------------------------
(* TryExecuteValue *)

\* The loop looks at the first instance above the last executed sequence: it
\* goes on only if that one is committed and next in sequence.
Executable(r) ==
    {i \in instances[r] :
        /\ i.seq = last_exe_seq[r] + 1 /\ i.phase = COMMITED
        /\ \A j \in instances[r] : j.seq > last_exe_seq[r] => ~Before(j, i)}

\* CheckProof on the commits of i's msg_buf_: q + 1 are needed.  A traced
\* instance was committed by a commit that is not there, so one is missing; a
\* commit for another value may or may not have been received.
CheckProof(i) ==
    IF i.traced \/ Cardinality(Voters("commit", i.view, i.seq, i.value))
                       < GetQuorumSize + 1
      THEN {FALSE}
    ELSE IF Split("commit", i.view, i.seq, i.value) THEN BOOLEAN ELSE {TRUE}

\* OnConsent and CloseLedger: the value must extend the ledger, with a proof.
Closes(r, i) == IF ExtendsLedger(r, i.value) THEN CheckProof(i) ELSE {FALSE}

ArmTask == [task |-> "arm", view |-> 0, seq |-> 0]
ValidatorsTask(pf) == [task |-> "validators", view |-> pf.view, seq |-> pf.seq]

\* One turn of the loop: GlueManager::OnValueCommited closes the ledger, which
\* posts UpdateValidators, then posts the task that arms the next proposal.
ExecuteValue(r) ==
    /\ executing[r]
    /\ \E i \in Executable(r) :
         /\ last_exe_seq' = [last_exe_seq EXCEPT ![r] = i.seq]
         /\ \E closes \in Closes(r, i) :
              LET pf == [view |-> i.view, seq |-> i.seq] IN
              IF closes
                THEN /\ ledger' = [ledger EXCEPT ![r] = i.value]
                     /\ proofs' = [proofs EXCEPT ![r] = Append(@, pf)]
                     /\ posted' = [posted EXCEPT ![r] =
                                      @ \o <<ValidatorsTask(pf), ArmTask>>]
                ELSE /\ posted' = [posted EXCEPT ![r] = Append(@, ArmTask)]
                     /\ UNCHANGED <<ledger, proofs>>
         /\ instances' = [instances EXCEPT ![r] =
               {j \in @ : j.seq + (ckp_interval \div 2) > i.seq}]
    /\ UNCHANGED <<view_number, view_active, executing, start_timer,
                   saved_view, msgs, restarts>>

\* The loop ends.
ExecuteDone(r) ==
    /\ executing[r]
    /\ Executable(r) = {}
    /\ executing' = [executing EXCEPT ![r] = FALSE]
    /\ UNCHANGED <<view_number, view_active, last_exe_seq, instances,
                   start_timer, posted, ledger, proofs, saved_view, msgs,
                   restarts>>

-----------------------------------------------------------------------------
(* After a ledger has closed *)

\* Mutant: new_view_number is stored although it is still -1.
UpdateValidatorsUnset(st, pf) ==
    LET view == IF pf.view >= st.view THEN pf.view + 1 ELSE 0 - 1
        last == IF pf.seq > st.last THEN pf.seq ELSE st.last
    IN  IF view = 0 - 1 /\ last = st.last THEN st
        ELSE [view |-> view, last |-> last, active |-> TRUE, saved |-> view,
              inst |-> {i \in st.inst : i.phase = COMMITED}]

\* Pbft::UpdateValidators with the proof of a closed ledger and an unchanged
\* validator set, on the state st of a replica.
UpdateValidators(st, pf) ==
    LET view == IF pf.view >= st.view THEN pf.view + 1 ELSE st.view
        last == IF pf.seq > st.last THEN pf.seq ELSE st.last
    IN  IF view = st.view /\ last = st.last THEN st
        ELSE [view |-> view, last |-> last, active |-> TRUE, saved |-> view,
              inst |-> {i \in st.inst : i.phase = COMMITED}]

StateOf(r) == [view |-> view_number[r], last |-> last_exe_seq[r],
               active |-> view_active[r], saved |-> saved_view[r],
               inst |-> instances[r]]

\* The io service runs the next posted task of r: UpdateValidators, or the one
\* that arms the timer of StartConsensus if r is the leader by then.
RunPosted(r) ==
    /\ ~executing[r]
    /\ posted[r] # <<>>
    /\ posted' = [posted EXCEPT ![r] = Tail(@)]
    /\ LET t == Head(posted[r])
           st == UpdateValidators(StateOf(r), t)
       IN  IF t.task = "validators"
             THEN /\ view_number' = [view_number EXCEPT ![r] = st.view]
                  /\ last_exe_seq' = [last_exe_seq EXCEPT ![r] = st.last]
                  /\ view_active' = [view_active EXCEPT ![r] = st.active]
                  /\ saved_view' = [saved_view EXCEPT ![r] = st.saved]
                  /\ instances' = [instances EXCEPT ![r] = st.inst]
                  /\ UNCHANGED start_timer
             ELSE /\ start_timer' = [start_timer EXCEPT ![r] = @ \/ IsLeader(r)]
                  /\ UNCHANGED <<view_number, last_exe_seq, view_active,
                                 instances, saved_view>>
    /\ UNCHANGED <<executing, ledger, proofs, msgs, restarts>>

\* LedgerManager::OnReceiveLedgers: r receives from p ledgers it lacks, at most
\* five, with their proofs, and closes them one after the other.
SyncLedger(r, p) ==
    LET h == Len(ledger[r]) IN
    /\ h < Len(ledger[p]) /\ SubSeq(ledger[p], 1, h) = ledger[r]
    /\ \E n \in (h + 1)..Len(ledger[p]) :
         /\ n <= h + 5
         /\ ledger' = [ledger EXCEPT ![r] = SubSeq(ledger[p], 1, n)]
         /\ proofs' = [proofs EXCEPT ![r] = @ \o SubSeq(proofs[p], h + 1, n)]
         /\ posted' = [posted EXCEPT ![r] = @ \o
               [k \in 1..(n - h) |-> ValidatorsTask(proofs[p][h + k])]]
    /\ UNCHANGED <<view_number, view_active, last_exe_seq, instances, executing,
                   start_timer, saved_view, msgs, restarts>>

-----------------------------------------------------------------------------
(* View change *)

\* Mutant: no prepared set is attached.
PreparedSetsNone(r) == {NoCert}

\* The prepared sets NewViewChangeRawValue may attach: the prepared instance of
\* highest (view, sequence) above the last executed sequence, with every prepare
\* received for it, matching or not.
PreparedSets(r) ==
    LET S == {i \in instances[r] : i.seq > last_exe_seq[r] /\ i.phase = PREPARED}
        top == {i \in S : \A j \in S : ~Before(i, j)}
        bads(i) == IF Split("prepare", i.view, i.seq, i.value)
                     THEN BOOLEAN ELSE {FALSE}
    IN  IF S = {} THEN {NoCert}
        ELSE UNION {{[view |-> i.view, seq |-> i.seq, value |-> i.value,
                      bad |-> x] : x \in bads(i)} : i \in top}

\* CheckViewChangeWithRawValue: every prepare of the set matches.
CheckPreparedSet(c) == ~c.bad

\* Pbft::OnTxTimeout, called by the ledger close timer and, from Pbft::OnTimer,
\* for an instance that expires.
OnTxTimeout(r) ==
    /\ TimersRun(r)
    /\ r \in Impatient /\ view_number[r] < MaxView
    /\ view_active' = [view_active EXCEPT ![r] = FALSE]
    /\ \E c \in PreparedSets(r) :
         msgs' = msgs \cup {ViewChange(view_number[r] + 1, r, c)}
    /\ UNCHANGED <<view_number, last_exe_seq, instances, executing, start_timer,
                   posted, ledger, proofs, saved_view, restarts>>

\* Mutant: one view change more than the quorum is awaited.
ViewChangeQuorumsHigh(v) ==
    {V \in SUBSET {m \in msgs : /\ m.type = "viewchange" /\ m.view = v
                                /\ CheckPreparedSet(m.cert)} :
        Cardinality({m.from : m \in V}) > GetQuorumSize + 1}

\* The sets of view changes for v that OnViewChangeWithRawValue counts as a
\* quorum.
ViewChangeQuorums(v) ==
    {V \in SUBSET {m \in msgs : /\ m.type = "viewchange" /\ m.view = v
                                /\ CheckPreparedSet(m.cert)} :
        Cardinality({m.from : m \in V}) > GetQuorumSize}

\* pre_prepared_env_set once r has received the view changes in V: a prepared
\* set of highest sequence, the first received of those.
BestCerts(r, V) ==
    LET S == {m.cert : m \in {x \in V : x.cert.seq > last_exe_seq[r]}} IN
    IF S = {} THEN {NoCert} ELSE {c \in S : \A d \in S : d.seq <= c.seq}

\* The instances that survive the entry into a new view.
KeptInstances(r) ==
    {i \in instances[r] : \/ i.phase = COMMITED
                          \/ i.phase = PREPARED /\ i.seq > last_exe_seq[r]}

\* The view change that completes the quorum reaches the new primary, and
\* ProcessQuorumViewChange broadcasts the new view, enters it and proposes the
\* prepared value.
OnViewChange(r, v) ==
    /\ ~executing[r]
    /\ v > view_number[r] /\ Primary(v) = r
    /\ \E V \in ViewChangeQuorums(v) : \E c \in BestCerts(r, V) :
         /\ Cardinality({m.from : m \in V}) = GetQuorumSize + 1
         /\ view_number' = [view_number EXCEPT ![r] = v]
         /\ view_active' = [view_active EXCEPT ![r] = TRUE]
         /\ saved_view' = [saved_view EXCEPT ![r] = v]
         /\ \/ /\ Proposals(r, v, c.value) = {}      \* only at the bound MaxLedger
               /\ instances' = [instances EXCEPT ![r] = KeptInstances(r)]
               /\ msgs' = msgs \cup {NewView(v, r)}
            \/ \E val \in Proposals(r, v, c.value) :
               /\ instances' = [instances EXCEPT ![r] =
                     Requested(KeptInstances(r), last_exe_seq[r], v, val)]
               /\ msgs' = msgs \cup {NewView(v, r), PhaseMsg("preprepare", v,
                                              last_exe_seq[r] + 1, val, r)}
    /\ UNCHANGED <<last_exe_seq, executing, start_timer, posted, ledger, proofs,
                   restarts>>

\* The timer ProcessQuorumViewChange starts on a backup fires: no new view has
\* come for v, so r asks for the next one.
NewViewTimeout(r, v) ==
    /\ TimersRun(r)
    /\ r \in Impatient /\ ~view_active[r]
    /\ v >= view_number[r] /\ v < MaxView /\ Primary(v) # r
    /\ \E V \in ViewChangeQuorums(v) : \E best \in BestCerts(r, V) :
         \E c \in IF best # NoCert THEN {best} ELSE PreparedSets(r) :
            msgs' = msgs \cup {ViewChange(v + 1, r, c)}
    /\ UNCHANGED <<view_number, view_active, last_exe_seq, instances, executing,
                   start_timer, posted, ledger, proofs, saved_view, restarts>>

\* OnNewView; the new primary ignores its own message.
OnNewView(r, m) ==
    /\ ~executing[r]
    /\ m.type = "newview"
    /\ m.view > view_number[r] /\ Primary(m.view) # r
    /\ instances' = [instances EXCEPT ![r] = KeptInstances(r)]
    /\ view_number' = [view_number EXCEPT ![r] = m.view]
    /\ view_active' = [view_active EXCEPT ![r] = TRUE]
    /\ saved_view' = [saved_view EXCEPT ![r] = m.view]
    /\ UNCHANGED <<last_exe_seq, executing, start_timer, posted, ledger, proofs,
                   msgs, restarts>>

-----------------------------------------------------------------------------
(* Crash and restart *)

\* Mutant: the view number is not loaded.
LoadedFromZero(r) == [view |-> 0, last |-> Base, active |-> TRUE,
                      saved |-> saved_view[r], inst |-> {}]

\* The state LoadValues restores.  The ledger of sequence Base has a proof, so
\* UpdateValidators activates the view whatever VIEW_ACTIVE says.
Loaded(r) == [view |-> saved_view[r], last |-> Base, active |-> TRUE,
              saved |-> saved_view[r], inst |-> {}]

\* Replica r stops and starts again: LoadValues, GlueManager::Initialize, and
\* the first posted task, UpdateValidators with the proof of the last closed
\* ledger, which also drops the view changes loaded.
Restart(r) ==
    /\ restarts < MaxRestarts
    /\ restarts' = restarts + 1
    /\ LET st == IF proofs[r] = <<>> THEN Loaded(r)
                 ELSE UpdateValidators(Loaded(r), proofs[r][Len(proofs[r])])
       IN  /\ view_number' = [view_number EXCEPT ![r] = st.view]
           /\ view_active' = [view_active EXCEPT ![r] = st.active]
           /\ last_exe_seq' = [last_exe_seq EXCEPT ![r] = st.last]
           /\ saved_view' = [saved_view EXCEPT ![r] = st.saved]
    /\ instances' = [instances EXCEPT ![r] = {}]
    /\ executing' = [executing EXCEPT ![r] = FALSE]
    /\ start_timer' = [start_timer EXCEPT ![r] = TRUE]
    /\ posted' = [posted EXCEPT ![r] = <<>>]
    /\ UNCHANGED <<ledger, proofs, msgs>>

-----------------------------------------------------------------------------
(* Specification *)

Init ==
    /\ view_number = [r \in Replica |-> 0]
    /\ view_active = [r \in Replica |-> TRUE]
    /\ last_exe_seq = [r \in Replica |-> Base]
    /\ instances = [r \in Replica |-> {}]
    /\ executing = [r \in Replica |-> FALSE]
    /\ start_timer = [r \in Replica |-> IsLeader(r)]
    /\ posted = [r \in Replica |-> <<>>]
    /\ ledger = [r \in Replica |-> <<>>]
    /\ proofs = [r \in Replica |-> <<>>]
    /\ saved_view = [r \in Replica |-> 0]
    /\ msgs = {}
    /\ restarts = 0

\* Pbft::OnRecv
OnRecv(r, m) ==
    \/ OnPrePrepare(r, m)
    \/ OnPrepare(r, m)
    \/ OnCommit(r, m)
    \/ OnTracedCommit(r, m)
    \/ OnFarCommit(r, m)
    \/ OnNewView(r, m)

Next ==
    \E r \in Live :
        \/ StartConsensus(r)
        \/ \E m \in msgs : OnRecv(r, m)
        \/ ExecuteValue(r)
        \/ ExecuteDone(r)
        \/ RunPosted(r)
        \/ \E p \in Live : SyncLedger(r, p)
        \/ OnTxTimeout(r)
        \/ \E v \in 0..MaxView : OnViewChange(r, v) \/ NewViewTimeout(r, v)
        \/ Restart(r)

Spec == Init /\ [][Next]_vars

\* What the main loop and the network thread of r do again and again: handle the
\* messages, posted tasks and timers that wait, and ask peers for ledgers.
Progress(r) ==
    \/ StartConsensus(r)
    \/ \E m \in msgs : OnRecv(r, m)
    \/ ExecuteValue(r)
    \/ ExecuteDone(r)
    \/ RunPosted(r)
    \/ \E p \in Live : SyncLedger(r, p)
    \/ OnTxTimeout(r)
    \/ \E v \in 0..MaxView : OnViewChange(r, v) \/ NewViewTimeout(r, v)

LiveSpec == Spec /\ \A r \in Live : WF_vars(Progress(r))

-----------------------------------------------------------------------------
(* Properties *)

Value == Seq(Content)
Cert == [view : Nat, seq : Nat, value : Value, bad : BOOLEAN]
Instance == [view : Nat, seq : Nat, phase : NONE..COMMITED, value : Value,
             check : BOOLEAN, traced : BOOLEAN]
Message ==
    [type : {"preprepare", "prepare", "commit"}, view : Nat, seq : Nat,
     value : Value, from : Replica] \cup
    [type : {"viewchange"}, view : Nat, from : Replica, cert : Cert] \cup
    [type : {"newview"}, view : Nat, from : Replica]

\* The type of every variable of Pbft, the glue and the stores.
TypeOK ==
    /\ view_number \in [Replica -> Nat]
    /\ view_active \in [Replica -> BOOLEAN]
    /\ last_exe_seq \in [Replica -> Nat]
    /\ instances \in [Replica -> SUBSET Instance]
    /\ executing \in [Replica -> BOOLEAN]
    /\ start_timer \in [Replica -> BOOLEAN]
    /\ posted \in [Replica ->
          Seq([task : {"validators", "arm"}, view : Nat, seq : Nat])]
    /\ ledger \in [Replica -> Value]
    /\ proofs \in [Replica -> Seq([view : Nat, seq : Nat])]
    /\ saved_view \in [Replica -> Nat]
    /\ msgs \subseteq Message
    /\ restarts \in Nat

\* Two replicas never close different ledgers at the same sequence: one chain
\* is a prefix of the other.
Agreement ==
    \A r, p \in Replica :
        Len(ledger[r]) <= Len(ledger[p]) =>
            SubSeq(ledger[p], 1, Len(ledger[r])) = ledger[r]

\* So many replicas have committed val that any two such sets share more than
\* (N - 1) \div 3 members, the number of faults UpdateValidators says the
\* replicas tolerate.
SafelyCommitted(v, s, val) ==
    2 * Cardinality(Voters("commit", v, s, val)) > N + ((N - 1) \div 3)

\* Every ledger a replica has closed, by executing or by syncing, was committed
\* by that many replicas in the view and sequence its proof names: CheckProof
\* lets nothing else through.
ClosedIsCommitted ==
    \A r \in Replica : \A k \in 1..Len(ledger[r]) :
        SafelyCommitted(proofs[r][k].view, proofs[r][k].seq,
                        SubSeq(ledger[r], 1, k))

\* A replica moves last_exe_seq_ to a sequence, by executing, by tracing out or
\* after a sync, only if that many replicas have committed some value there.
ExecutedIsCommitted ==
    \A r \in Replica : last_exe_seq[r] > Base =>
        \E m \in msgs : /\ m.type = "commit" /\ m.seq = last_exe_seq[r]
                        /\ SafelyCommitted(m.view, m.seq, m.value)

\* A replica sends a commit only when q replicas have prepared the value in
\* that view, so that a later view change can find it.
CommitIsPrepared ==
    \A m \in msgs : m.type = "commit" =>
        Cardinality(Voters("prepare", m.view, m.seq, m.value)) >= GetQuorumSize

\* OnValueCommited logs "Ledger(seq) closed successfully" for every sequence
\* that TryExecuteValue counts as executed: the ledger is closed by then.  NOT an
\* invariant: a proof with too few commits of the current view fails CheckProof,
\* and trace-out moves on without closing.
ExecutedIsClosed ==
    \A r \in Replica : last_exe_seq[r] <= Base + Len(ledger[r])

\* A replica never commits to two values in one view and sequence, whatever the
\* order of pre-prepares, timeouts, new views and erased instances.
CommitsOnce ==
    \A m, n \in msgs :
        (m.type = "commit" /\ n.type = "commit" /\ m.from = n.from
            /\ m.view = n.view /\ m.seq = n.seq) => m.value = n.value

\* A replica never returns to an earlier view, not even when it restarts from
\* the view number it has saved.
ViewNeverFalls ==
    [][\A r \in Replica : view_number'[r] >= view_number[r]]_vars

\* Every running replica closes a ledger, although the primaries of the first
\* views are down.
EveryoneCloses == \A r \in Live : <>(Len(ledger[r]) > 0)

=============================================================================

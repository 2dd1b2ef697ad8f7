---------------------------- MODULE LedgerProofs ----------------------------
(***************************************************************************)
(* Proofs about three parts of the ledger that share no state but the last *)
(* closed ledger: AtomMap, for any keys, values and depth of nesting;      *)
(* LedgerStore, for any number of ledgers and crashes; and LedgerSync, for *)
(* any peers, ranges and bounds.                                           *)
(*                                                                         *)
(* AtomMap: a transaction changes its objects in place, through pointers.  *)
(* That this reaches nothing under its buffer rests on NoAlias: the object *)
(* it writes to is new, or one that only its own buffer points at.  So     *)
(* what the lower records hold stays, whatever is collected, and only a    *)
(* commit moves records down.                                              *)
(*                                                                         *)
(* LedgerStore: the inductive invariant says what is on disk (Disk)        *)
(* whatever happens, and what the process knows at each point between two  *)
(* writes (Process).  A crash only leaves Disk, and Disk is what           *)
(* Initialize needs.                                                       *)
(*                                                                         *)
(* LedgerSync: the two threads that send requests share one expected range *)
(* per peer (gl_).  Unless the timer asked a peer again before its answer  *)
(* was in, at most one of them deals with the peer at a time: either       *)
(* nothing is on its way, or one request or one answer is, and that is the *)
(* one expected (OneAtATime).                                              *)
(***************************************************************************)
EXTENDS AtomMap, LedgerStore, LedgerSync, WellFoundedInduction, TLAPS

\* The provers of a leaf that names none.
USE SMT, Zenon, Z3T(20)

-----------------------------------------------------------------------------
(* LedgerStore *)

\* The proof that belongs to ledger s.
ProofFor(s) == IF s <= 1 THEN 0 ELSE s

\* ledger_db is level with account_db or one ledger ahead of it, and account_db
\* is always the complete state after one ledger.
Disk ==
    /\ account_seq <= ledger_seq /\ ledger_seq <= account_seq + 1
    /\ ledger_seq <= Len(headers) /\ Len(headers) <= account_seq + 1
    /\ account_seq # 0 => account_tree = account_seq /\ headers[account_seq] \in account_vals
    /\ last_proof = ProofFor(account_seq)
    /\ told <= account_seq

Process ==
    /\ pc = "up" =>
        /\ closed = account_seq /\ closed = ledger_seq /\ closed # 0
        /\ tree = closed /\ validators = headers[closed] /\ proof = ProofFor(closed)
    /\ pc = "closing" =>
        /\ closed = account_seq /\ closed = ledger_seq /\ closed # 0
        /\ tree = closed + 1 /\ proof = closed + 1
    /\ pc = "written" =>
        /\ closed = account_seq /\ closed + 1 = ledger_seq /\ closed # 0
        /\ tree = closed + 1 /\ proof = closed + 1 /\ validators = headers[closed + 1]
    /\ pc = "genesis" =>
        /\ closed = 1 /\ tree = 1 /\ validators = 1 /\ proof = 0
        /\ account_seq = 0 /\ ledger_seq = 1 /\ headers = <<1>>
    /\ pc = "failed" /\ ~OS_LINUX => account_seq = 0

StoreInv == StoreTypeOK /\ Disk /\ Process

\* A node that has never run satisfies the invariant.
LEMMA StoreStarts == StoreInit => StoreInv
  BY DEF StoreInit, StoreInv, StoreTypeOK, Disk, Process, Pcs, ProofFor

\* Every step of the process, and every crash, preserves the invariant.
LEMMA StoreStep == StoreInv /\ [StoreNext]_store_vars => StoreInv'
<1> SUFFICES ASSUME StoreInv, [StoreNext]_store_vars PROVE StoreInv'
  OBVIOUS
<1> USE DEF StoreInv, StoreTypeOK, Disk, Process, Pcs, ProofFor
<1>1. CASE CreateGenesisAccount
  <2>1. headers' = <<1>> /\ headers' \in Seq(Nat) /\ Len(headers') = 1
    BY <1>1 DEF CreateGenesisAccount
  <2> QED
    BY <1>1, <2>1 DEF CreateGenesisAccount, account_db
<1>2. CASE GenesisWritten
  <2>1. headers[1] = 1 /\ Len(headers) = 1
    BY <1>2 DEF GenesisWritten
  <2> QED
    BY <1>2, <2>1 DEF GenesisWritten, memory, ledger_db
<1>3. CASE Initialize
  <2>1. CASE InitializeFails(Repaired)
    <3>1. ~OS_LINUX => account_seq = 0
      <4> SUFFICES ASSUME ~OS_LINUX, account_seq # 0 PROVE FALSE
        OBVIOUS
      <4>1. ~Refused
        BY DEF Refused
      <4>2. Repaired = account_seq /\ account_seq \in DOMAIN headers
        BY DEF Repaired
      <4> QED
        BY <2>1, <4>1, <4>2 DEF InitializeFails
    <3>2. pc' = "failed" /\ UNCHANGED <<memory, ledger_db, account_db, told, crashes>>
      BY <1>3, <2>1 DEF Initialize
    <3> QED
      BY <3>1, <3>2 DEF memory, ledger_db, account_db
  <2>2. CASE ~InitializeFails(Repaired)
    <3>1. account_seq # 0 /\ account_tree = Repaired /\ Repaired \in DOMAIN headers
      BY <1>3, <2>2 DEF Initialize, InitializeFails
    <3>2. Repaired = account_seq
      BY <3>1
    <3>3. headers[account_seq] \in Nat
      BY <3>1, <3>2
    <3> QED
      BY <1>3, <2>2, <3>1, <3>2, <3>3 DEF Initialize, account_db
  <2> QED
    BY <2>1, <2>2
<1>4. ASSUME NEW voted \in BOOLEAN, CloseLedger(voted) PROVE StoreInv'
  <2>1. validators' \in Nat
    BY <1>4 DEF CloseLedger, NextValidators
  <2> QED
    BY <1>4, <2>1 DEF CloseLedger, ledger_db, account_db
<1>5. CASE AddToDb
  <2>1. headers' = [s \in 1 .. closed + 1 |-> IF s = closed + 1 THEN validators ELSE headers[s]]
    BY <1>5 DEF AddToDb
  <2>2. \A s \in 1 .. closed : headers[s] \in Nat
    BY <1>5 DEF AddToDb
  <2>3. headers' \in Seq(Nat) /\ Len(headers') = closed + 1
    BY <2>1, <2>2
  <2>4. headers'[closed + 1] = validators /\ headers'[closed] = headers[closed]
    BY <1>5, <2>1 DEF AddToDb
  <2> QED
    BY <1>5, <2>3, <2>4 DEF AddToDb, memory, account_db
<1>6. CASE WriteBatch
  BY <1>6 DEF WriteBatch, ledger_db
<1>7. CASE Crash
  BY <1>7 DEF Crash, ledger_db, account_db
<1>8. CASE UNCHANGED store_vars
  BY <1>8 DEF store_vars, memory, ledger_db, account_db
<1> QED
  BY <1>1, <1>2, <1>3, <1>4, <1>5, <1>6, <1>7, <1>8, Zenon DEF StoreNext

\* What the disk and the process are like holds for ever.
LEMMA StoreInvariant == StoreSpec => []StoreInv
  BY StoreStarts, StoreStep, PTL DEF StoreSpec

\* For every number of ledgers and crashes, on every platform, a node that
\* Initialize has started has both databases, its tree and its validators at
\* its last closed ledger.
THEOREM ConsistentAlways == StoreSpec => []Consistent
<1>1. StoreInv => Consistent
  BY DEF StoreInv, StoreTypeOK, Disk, Process, Consistent
<1> QED
  BY StoreInvariant, <1>1, PTL

\* The proof a running node proposes with and serves is that of its last closed
\* ledger: proof_ and LAST_PROOF survive every crash together with the ledger.
THEOREM ProofOfLastAlways == StoreSpec => []ProofOfLast
<1>1. StoreInv => ProofOfLast
  BY DEF StoreInv, StoreTypeOK, Disk, Process, ProofOfLast, ProofFor
<1> QED
  BY StoreInvariant, <1>1, PTL

\* No ledger that NotifyLedgerClose announced is lost by a crash.
THEOREM NeverForgetsAlways == StoreSpec => []NeverForgets
<1>1. StoreInv => NeverForgets
  BY DEF StoreInv, StoreTypeOK, Disk, Process, NeverForgets
<1> QED
  BY StoreInvariant, <1>1, PTL

\* Where CheckAndRepairLedgerSeq is compiled in, Initialize succeeds after every
\* crash that follows the first ledger.
THEOREM RestartsAlways == ~OS_LINUX => (StoreSpec => []RestartsAfterGenesis)
<1> SUFFICES ASSUME ~OS_LINUX PROVE StoreSpec => []RestartsAfterGenesis
  OBVIOUS
<1>1. StoreInv => RestartsAfterGenesis
  BY DEF StoreInv, StoreTypeOK, Disk, Process, RestartsAfterGenesis
<1> QED
  BY StoreInvariant, <1>1, PTL

-----------------------------------------------------------------------------
(* LedgerSync *)

Ledgers == [begin : Nat, end : Nat]
Answer == [gl : Ledgers, max : Nat]
Choice == [peers : SUBSET Peer, gl : Ledgers]

Typed ==
    /\ lcl \in Nat
    /\ height \in [Peer -> Nat]
    /\ asking \in Choice /\ follow \in Choice
    /\ requests \in [Peer -> Seq(Ledgers)]
    /\ answers \in [Peer -> Seq(Answer)]

\* A peer answers with ledgers it has.
AnswersTrue ==
    \A p \in Peer : \A i \in 1..Len(answers[p]) :
        answers[p][i].gl.end <= height[p] /\ answers[p][i].max <= height[p]

Quiet(p) == requests[p] = <<>> /\ answers[p] = <<>>

Expected(p) ==
    /\ p \in DOMAIN gl
    /\ \/ requests[p] = <<gl[p]>> /\ answers[p] = <<>>
       \/ requests[p] = <<>> /\ \E a \in Answer : answers[p] = <<a>> /\ a.gl = gl[p]

OneAtATime ==
    \A p \in Peer \ late :
        /\ Quiet(p) \/ Expected(p)
        /\ p \in asking.peers \cup follow.peers => Quiet(p)
        /\ p \notin asking.peers \cap follow.peers

SyncInv ==
    Typed /\ AnswersTrue /\ OneAtATime /\ OnlyFromChain /\ FollowUpsServed /\ ProbationDeserved

-----------------------------------------------------------------------------

\* Before the first request.
LEMMA SyncStarts == SyncInit => SyncInv
<1> SUFFICES ASSUME SyncInit PROVE SyncInv
    OBVIOUS
<1>1. Typed
    BY SyncConstants DEF SyncInit, Typed, NoFollow, None, Span, Choice, Ledgers
<1>2. AnswersTrue /\ OneAtATime /\ FollowUpsServed /\ ProbationDeserved
    BY DEF SyncInit, AnswersTrue, OneAtATime, Quiet, NoFollow, FollowUpsServed, ProbationDeserved
<1>3. OnlyFromChain
    BY SyncConstants DEF SyncInit, OnlyFromChain
<1> QED
    BY <1>1, <1>2, <1>3 DEF SyncInv

\* OnTimer: who has something on its way is late, so those that are not have nothing.
LEMMA OnTimerInvariant == SyncInv /\ OnTimer => SyncInv'
<1> SUFFICES ASSUME SyncInv, OnTimer PROVE SyncInv'
    OBVIOUS
<1>1. asking' = [peers |-> Peer \ probation, gl |-> Span(lcl + 1, lcl + 1)]
      /\ late' = late \cup {p \in Peer : InFlight(p) > 0 \/ p \in follow.peers}
      /\ UNCHANGED <<lcl, height, gl, probation, follow, requests, answers>>
    BY DEF OnTimer
<1>2. asking' \in Choice
    BY <1>1 DEF SyncInv, Typed, Choice, Span, Ledgers
<1>3. Typed' /\ AnswersTrue' /\ OnlyFromChain' /\ FollowUpsServed'
    BY <1>1, <1>2 DEF SyncInv, Typed, AnswersTrue, OnlyFromChain, FollowUpsServed, Refuses
<1>4. ProbationDeserved'
    BY <1>1 DEF SyncInv, ProbationDeserved
<1>5. OneAtATime'
  <2>1. SUFFICES ASSUME NEW p \in Peer \ late' PROVE Quiet(p) /\ p \notin follow.peers
    BY <1>1 DEF OneAtATime, Quiet
  <2>2. ~(Len(requests[p]) + Len(answers[p]) > 0) /\ p \notin follow.peers
    BY <1>1, <2>1, Zenon DEF InFlight
  <2>3. requests[p] \in Seq(Ledgers) /\ answers[p] \in Seq(Answer)
    BY DEF SyncInv, Typed
  <2>4. Len(requests[p]) \in Nat /\ Len(answers[p]) \in Nat
    BY <2>3
  <2>5. \A m, n \in Nat : ~(m + n > 0) => m = 0 /\ n = 0
    OBVIOUS
  <2>6. Len(requests[p]) = 0 /\ Len(answers[p]) = 0
    BY <2>2, <2>4, <2>5, Zenon
  <2> QED
    BY <2>2, <2>3, <2>6 DEF Quiet
<1> QED
    BY <1>3, <1>4, <1>5 DEF SyncInv

\* What RequestConsensusValues changes, of a peer with nothing on its way.
LEMMA RequestSent ==
    ASSUME SyncInv, NEW p \in Peer, NEW r \in Ledgers, RequestConsensusValues(p, r)
    PROVE  /\ requests' \in [Peer -> Seq(Ledgers)]
           /\ p \in DOMAIN gl' /\ gl'[p] = r
           /\ \A q \in Peer \ {p} : requests'[q] = requests[q]
                                    /\ (q \in DOMAIN gl => q \in DOMAIN gl' /\ gl'[q] = gl[q])
           /\ requests[p] = <<>> => requests'[p] = <<r>>
<1>1. requests \in [Peer -> Seq(Ledgers)] /\ requests[p] \in Seq(Ledgers)
    BY DEF SyncInv, Typed
<1>2. requests' = [requests EXCEPT ![p] = Append(@, r)]
    BY DEF RequestConsensusValues
<1>3. Append(requests[p], r) \in Seq(Ledgers)
    BY <1>1
<1>4. requests' \in [Peer -> Seq(Ledgers)] /\ \A q \in Peer \ {p} : requests'[q] = requests[q]
    BY <1>1, <1>2, <1>3
<1>5. requests[p] = <<>> => requests'[p] = <<r>>
    BY <1>1, <1>2
<1>6. gl' = [q \in DOMAIN gl \cup {p} |-> IF q = p THEN r ELSE gl[q]]
    BY DEF RequestConsensusValues, WithGl
<1> QED
    BY <1>4, <1>5, <1>6

\* A peer with nothing on its way is asked: the request is the one expected, and
\* nothing changes for the other peers.
LEMMA SendKeepsOne ==
    ASSUME SyncInv, NEW p \in Peer, NEW r \in Ledgers, RequestConsensusValues(p, r),
           p \in late \/ Quiet(p), UNCHANGED <<answers, late>>,
           asking'.peers \subseteq asking.peers, follow'.peers \subseteq follow.peers,
           p \notin late => p \notin asking'.peers /\ p \notin follow'.peers
    PROVE  OneAtATime'
<1>1. SUFFICES ASSUME NEW q \in Peer \ late
               PROVE  /\ (Quiet(q) \/ Expected(q))'
                      /\ q \in asking'.peers \cup follow'.peers => Quiet(q)'
                      /\ q \notin asking'.peers \cap follow'.peers
    BY DEF OneAtATime
<1>2. CASE q = p
  <2>1. requests'[p] = <<r>> /\ answers'[p] = <<>> /\ p \in DOMAIN gl' /\ gl'[p] = r
    BY <1>1, <1>2, RequestSent DEF Quiet
  <2>2. Expected(q)'
    BY <1>2, <2>1 DEF Expected
  <2> QED
    BY <1>1, <1>2, <2>2
<1>3. CASE q # p
  <2>1. requests'[q] = requests[q] /\ answers'[q] = answers[q]
        /\ (q \in DOMAIN gl => q \in DOMAIN gl' /\ gl'[q] = gl[q])
    BY <1>3, RequestSent
  <2>2. Quiet(q) => Quiet(q)'
    BY <2>1 DEF Quiet
  <2>3. Expected(q) => Expected(q)'
    BY <2>1 DEF Expected
  <2> QED
    BY <1>1, <2>2, <2>3 DEF SyncInv, OneAtATime
<1> QED
    BY <1>2, <1>3

\* The rest of OnTimer: what it asks for is what it will expect.
LEMMA AskInvariant ==
    ASSUME SyncInv, NEW p \in Peer, Ask(p)
    PROVE  SyncInv'
<1>1. p \in asking.peers /\ asking' = [asking EXCEPT !.peers = @ \ {p}]
      /\ RequestConsensusValues(p, asking.gl)
      /\ UNCHANGED <<lcl, height, probation, follow, answers, late>>
    BY DEF Ask
<1>2. asking \in Choice /\ asking.gl \in Ledgers
    BY DEF SyncInv, Typed, Choice
<1>3. asking' \in Choice /\ asking'.peers = asking.peers \ {p}
    BY <1>1, <1>2 DEF Choice
<1>4. requests' \in [Peer -> Seq(Ledgers)]
    BY <1>1, <1>2, RequestSent
<1>5. Typed' /\ AnswersTrue' /\ OnlyFromChain' /\ FollowUpsServed' /\ ProbationDeserved'
    BY <1>1, <1>3, <1>4, Zenon DEF SyncInv, Typed, AnswersTrue, OnlyFromChain, FollowUpsServed, Refuses,
                            ProbationDeserved
<1>6. p \notin late => Quiet(p) /\ p \notin follow.peers
    BY <1>1 DEF SyncInv, OneAtATime
<1>7. OneAtATime'
    BY <1>1, <1>2, <1>3, <1>6, SendKeepsOne
<1> QED
    BY <1>5, <1>7 DEF SyncInv

\* The rest of OnReceiveLedgers, likewise.
LEMMA FollowUpInvariant ==
    ASSUME SyncInv, NEW p \in Peer, FollowUp(p)
    PROVE  SyncInv'
<1>1. p \in follow.peers /\ follow' = NoFollow
      /\ RequestConsensusValues(p, follow.gl)
      /\ UNCHANGED <<lcl, height, probation, asking, answers, late>>
    BY DEF FollowUp
<1>2. follow.gl \in Ledgers
    BY DEF SyncInv, Typed, Choice
<1>3. follow' \in Choice /\ follow'.peers = {}
    BY <1>1 DEF Choice, NoFollow, None, Span, Ledgers
<1>4. requests' \in [Peer -> Seq(Ledgers)]
    BY <1>1, <1>2, RequestSent
<1>5. Typed' /\ AnswersTrue' /\ OnlyFromChain' /\ FollowUpsServed' /\ ProbationDeserved'
    BY <1>1, <1>3, <1>4 DEF SyncInv, Typed, AnswersTrue, OnlyFromChain, FollowUpsServed,
                            ProbationDeserved
<1>6. p \notin late => Quiet(p) /\ p \notin asking.peers
    BY <1>1 DEF SyncInv, OneAtATime
<1>7. OneAtATime'
    BY <1>1, <1>2, <1>3, <1>6, SendKeepsOne
<1> QED
    BY <1>5, <1>7 DEF SyncInv

\* OnReceiveLedgers: an answer that is not late is the one expected.
LEMMA OnReceiveLedgersInvariant ==
    ASSUME SyncInv, NEW p \in Peer, OnReceiveLedgers(p)
    PROVE  SyncInv'
<1> DEFINE a == Head(answers[p])
           asked == p \in DOMAIN gl /\ gl[p] = a.gl
           usable == asked /\ Closable(p, a) # {}
           valid == usable /\ p \notin Bad
           next == a.gl.end + 1
<1>1. /\ follow.peers = {} /\ answers[p] # <<>>
      /\ answers' = [answers EXCEPT ![p] = Tail(@)]
      /\ gl' = IF p \in DOMAIN gl THEN WithGl(p, None) ELSE gl
      /\ probation' = IF p \in DOMAIN gl /\ (~asked \/ (usable /\ p \in Bad))
                        THEN probation \cup {p} ELSE probation
      /\ lcl' = IF valid THEN a.gl.end ELSE lcl
      /\ follow' = IF valid /\ next <= a.max
                     THEN [peers |-> {p}, gl |-> FollowRange(next, a.max)]
                     ELSE NoFollow
      /\ UNCHANGED <<height, asking, requests, late>>
    BY DEF OnReceiveLedgers
<1>2. answers \in [Peer -> Seq(Answer)] /\ answers[p] \in Seq(Answer)
      /\ requests \in [Peer -> Seq(Ledgers)] /\ height \in [Peer -> Nat] /\ lcl \in Nat
    BY DEF SyncInv, Typed
<1>3. a \in Answer /\ a = answers[p][1] /\ Len(answers[p]) >= 1
    BY <1>1, <1>2
<1>4. a.gl \in Ledgers /\ a.gl.end \in Nat /\ a.max \in Nat
    BY <1>3 DEF Answer, Ledgers
<1>5. a.gl.end <= height[p] /\ a.max <= height[p]
    BY <1>2, <1>3 DEF SyncInv, AnswersTrue
<1>6. Tail(answers[p]) \in Seq(Answer) /\ Len(Tail(answers[p])) = Len(answers[p]) - 1
      /\ \A i \in 1..Len(Tail(answers[p])) : Tail(answers[p])[i] = answers[p][i + 1]
    BY <1>1, <1>2
<1>7. answers' \in [Peer -> Seq(Answer)] /\ answers'[p] = Tail(answers[p])
      /\ \A q \in Peer \ {p} : answers'[q] = answers[q]
    BY <1>1, <1>2, <1>6
<1> HIDE DEF a
<1>8. follow' \in Choice
  <2>1. NoFollow \in Choice
    BY DEF NoFollow, None, Span, Choice, Ledgers
  <2>2. FollowRange(next, a.max) \in Ledgers
    BY <1>4, SyncConstants DEF FollowRange, Smaller, Span, Ledgers
  <2>3. [peers |-> {p}, gl |-> FollowRange(next, a.max)] \in Choice
    BY <2>2 DEF Choice
  <2> QED
    BY <1>1, <2>1, <2>3
<1>9. Typed'
  <2>1. lcl' \in Nat
    BY <1>1, <1>2, <1>4
  <2> QED
    BY <1>1, <1>7, <1>8, <2>1 DEF SyncInv, Typed
<1>10. AnswersTrue'
  <2>1. SUFFICES ASSUME NEW q \in Peer, NEW i \in 1..Len(answers'[q])
                 PROVE  answers'[q][i].gl.end <= height[q] /\ answers'[q][i].max <= height[q]
    BY <1>1, Zenon DEF AnswersTrue
  <2>2. CASE q = p
    <3>1. Len(answers[p]) \in Nat /\ i \in 1..(Len(answers[p]) - 1)
        BY <1>2, <1>6, <1>7, <2>1, <2>2
    <3>2. i + 1 \in 1..Len(answers[p])
        BY <3>1
    <3>3. answers'[p][i] = answers[p][i + 1]
        BY <1>6, <1>7, <2>1, <2>2
    <3> QED
        BY <2>2, <3>2, <3>3 DEF SyncInv, AnswersTrue
  <2>3. CASE q # p
    BY <1>7, <2>1, <2>3 DEF SyncInv, AnswersTrue
  <2> QED
    BY <2>2, <2>3
<1>11. OnlyFromChain'
  <2>1. CASE valid
    BY <1>1, <1>5, <2>1 DEF OnlyFromChain
  <2>2. CASE ~valid
    BY <1>1, <2>2 DEF SyncInv, OnlyFromChain
  <2> QED
    BY <2>1, <2>2
<1>12. FollowUpsServed'
  <2>1. SUFFICES ASSUME valid /\ next <= a.max PROVE ~Refuses(p, FollowRange(next, a.max))
    BY <1>1, Zenon DEF FollowUpsServed, NoFollow, Refuses
  <2> DEFINE n == next  m == a.max
  <2>2. n \in Nat /\ m \in Nat /\ height[p] \in Nat /\ n <= m /\ m <= height[p]
    BY <1>2, <1>4, <1>5, <2>1
  <2> HIDE DEF n, m
  <2>3. ~Refuses(p, FollowRange(n, m))
    BY <2>2, SyncConstants DEF Refuses, FollowRange, Smaller, Span
  <2> QED
    BY <2>3 DEF n, m
<1>13. p \notin late => Expected(p) /\ asked /\ answers'[p] = <<>> /\ requests[p] = <<>>
                        /\ p \notin asking.peers
  <2>1. SUFFICES ASSUME p \notin late
                 PROVE  Expected(p) /\ asked /\ answers'[p] = <<>> /\ requests[p] = <<>>
                        /\ p \notin asking.peers
    OBVIOUS
  <2>2. Expected(p) /\ p \notin asking.peers
    BY <1>1, <2>1 DEF SyncInv, OneAtATime, Quiet
  <2>3. PICK b \in Answer : answers[p] = <<b>> /\ b.gl = gl[p] /\ p \in DOMAIN gl /\ requests[p] = <<>>
    BY <1>1, <2>2 DEF Expected
  <2>4. a = b /\ Tail(answers[p]) = <<>>
    BY <2>3 DEF a
  <2> QED
    BY <1>7, <2>2, <2>3, <2>4
<1>14. ProbationDeserved'
    BY <1>1, <1>13 DEF SyncInv, ProbationDeserved
<1>15. OneAtATime'
  <2>1. SUFFICES ASSUME NEW q \in Peer \ late
                 PROVE  /\ (Quiet(q) \/ Expected(q))'
                        /\ q \in asking.peers \cup follow'.peers => Quiet(q)'
                        /\ q \notin asking.peers \cap follow'.peers
    BY <1>1 DEF OneAtATime
  <2>2. follow'.peers \subseteq {p}
    BY <1>1 DEF NoFollow
  <2>3. CASE q = p
    BY <1>1, <1>13, <2>1, <2>3 DEF Quiet
  <2>4. CASE q # p
    <3>1. q \in DOMAIN gl => q \in DOMAIN gl' /\ gl'[q] = gl[q]
        BY <1>1, <2>4 DEF WithGl
    <3>2. requests'[q] = requests[q] /\ answers'[q] = answers[q]
        BY <1>1, <1>7, <2>4
    <3>3. (Quiet(q) => Quiet(q)') /\ (Expected(q) => Expected(q)')
        BY <3>1, <3>2 DEF Quiet, Expected
    <3> QED
        BY <1>1, <2>1, <2>2, <2>4, <3>3, Zenon DEF SyncInv, OneAtATime
  <2> QED
    BY <2>3, <2>4
<1> QED
    BY <1>9, <1>10, <1>11, <1>12, <1>14, <1>15 DEF SyncInv

\* OnRequestLedgers: a peer answers with ledgers it has, or not at all.
LEMMA OnRequestLedgersInvariant ==
    ASSUME SyncInv, NEW p \in Peer, OnRequestLedgers(p)
    PROVE  SyncInv'
<1> DEFINE r == Head(requests[p])
           a == [gl |-> r, max |-> height[p]]
<1>1. /\ requests[p] # <<>>
      /\ requests' = [requests EXCEPT ![p] = Tail(@)]
      /\ answers' = IF Refuses(p, r) THEN answers ELSE [answers EXCEPT ![p] = Append(@, a)]
      /\ UNCHANGED <<lcl, height, gl, probation, asking, follow, late>>
    BY DEF OnRequestLedgers
<1>2. requests \in [Peer -> Seq(Ledgers)] /\ requests[p] \in Seq(Ledgers)
      /\ answers \in [Peer -> Seq(Answer)] /\ answers[p] \in Seq(Answer)
      /\ height \in [Peer -> Nat]
    BY DEF SyncInv, Typed
<1>3. r \in Ledgers /\ Tail(requests[p]) \in Seq(Ledgers)
    BY <1>1, <1>2
<1>4. requests' \in [Peer -> Seq(Ledgers)] /\ requests'[p] = Tail(requests[p])
      /\ \A q \in Peer \ {p} : requests'[q] = requests[q]
    BY <1>1, <1>2, <1>3
<1>5. a \in Answer /\ a.gl = r /\ a.max = height[p]
    BY <1>2, <1>3 DEF Answer
<1> HIDE DEF a, r
<1>6. Append(answers[p], a) \in Seq(Answer)
      /\ Len(Append(answers[p], a)) = Len(answers[p]) + 1
      /\ \A i \in 1..(Len(answers[p]) + 1) :
            Append(answers[p], a)[i] = IF i = Len(answers[p]) + 1 THEN a ELSE answers[p][i]
    BY <1>2, <1>5
<1>7. answers' \in [Peer -> Seq(Answer)]
      /\ answers'[p] = (IF Refuses(p, r) THEN answers[p] ELSE Append(answers[p], a))
      /\ \A q \in Peer \ {p} : answers'[q] = answers[q]
    BY <1>1, <1>2, <1>6
<1>8. Typed' /\ OnlyFromChain' /\ FollowUpsServed' /\ ProbationDeserved'
    BY <1>1, <1>4, <1>7 DEF SyncInv, Typed, OnlyFromChain, FollowUpsServed, Refuses, ProbationDeserved
<1>9. AnswersTrue'
  <2>1. SUFFICES ASSUME NEW q \in Peer, NEW i \in 1..Len(answers'[q])
                 PROVE  answers'[q][i].gl.end <= height[q] /\ answers'[q][i].max <= height[q]
    BY <1>1 DEF AnswersTrue
  <2>2. CASE q = p /\ ~Refuses(p, r)
    <3>1. i \in 1..(Len(answers[p]) + 1)
          /\ answers'[p][i] = IF i = Len(answers[p]) + 1 THEN a ELSE answers[p][i]
        BY <1>6, <1>7, <2>1, <2>2
    <3>2. CASE i = Len(answers[p]) + 1
      <4>1. r.end \in Nat /\ height[p] \in Nat
        BY <1>2, <1>3 DEF Ledgers
      <4>2. ~(height[p] < r.end)
        BY <2>2 DEF Refuses
      <4> QED
        BY <1>5, <2>2, <3>1, <3>2, <4>1, <4>2
    <3>3. CASE i # Len(answers[p]) + 1
      <4>1. Len(answers[p]) \in Nat
        BY <1>2
      <4>2. i \in 1..Len(answers[p])
        BY <3>1, <3>3, <4>1
      <4> QED
        BY <2>2, <3>1, <3>3, <4>2 DEF SyncInv, AnswersTrue
    <3> QED
        BY <3>2, <3>3
  <2>3. CASE ~(q = p /\ ~Refuses(p, r))
    BY <1>7, <2>1, <2>3 DEF SyncInv, AnswersTrue
  <2> QED
    BY <2>2, <2>3
<1>10. OneAtATime'
  <2>1. SUFFICES ASSUME NEW q \in Peer \ late
                 PROVE  /\ (Quiet(q) \/ Expected(q))'
                        /\ q \in asking.peers \cup follow.peers => Quiet(q)'
                        /\ q \notin asking.peers \cap follow.peers
    BY <1>1 DEF OneAtATime
  <2>2. CASE q = p
    <3>1. requests[p] = <<gl[p]>> /\ answers[p] = <<>> /\ p \in DOMAIN gl
          /\ p \notin asking.peers \cup follow.peers
        BY <1>1, <2>1, <2>2 DEF SyncInv, OneAtATime, Quiet, Expected
    <3>2. r = gl[p] /\ Tail(requests[p]) = <<>>
        BY <3>1 DEF r
    <3>3. answers'[p] = <<>> \/ answers'[p] = <<a>>
        BY <1>7, <3>1
    <3>4. Quiet(p)' \/ Expected(p)'
        BY <1>1, <1>4, <1>5, <3>1, <3>2, <3>3 DEF Quiet, Expected
    <3> QED
        BY <2>2, <3>1, <3>4
  <2>3. CASE q # p
    BY <1>1, <1>4, <1>7, <2>1, <2>3 DEF SyncInv, OneAtATime, Quiet, Expected
  <2> QED
    BY <2>2, <2>3
<1> QED
    BY <1>8, <1>9, <1>10 DEF SyncInv

\* OnConsent closes a ledger that a good peer has.
LEMMA OnConsentInvariant == SyncInv /\ OnConsent => SyncInv'
<1> SUFFICES ASSUME SyncInv, OnConsent PROVE SyncInv'
    OBVIOUS
<1>1. lcl' = lcl + 1 /\ (\E p \in Peer \ Bad : height[p] > lcl)
      /\ UNCHANGED <<height, gl, probation, asking, follow, requests, answers, late>>
    BY DEF OnConsent
<1>2. OnlyFromChain'
    BY <1>1 DEF SyncInv, Typed, OnlyFromChain
<1>3. Typed' /\ AnswersTrue' /\ FollowUpsServed' /\ ProbationDeserved' /\ OneAtATime'
    BY <1>1 DEF SyncInv, Typed, AnswersTrue, FollowUpsServed, Refuses, ProbationDeserved,
                OneAtATime, Quiet, Expected
<1> QED
    BY <1>2, <1>3 DEF SyncInv

\* A peer that closes a ledger serves what it served before.
LEMMA PeerClosesInvariant ==
    ASSUME SyncInv, NEW p \in Peer, PeerCloses(p)
    PROVE  SyncInv'
<1>1. height' = [height EXCEPT ![p] = @ + 1]
      /\ UNCHANGED <<lcl, gl, probation, asking, follow, requests, answers, late>>
    BY DEF PeerCloses
<1>2. height \in [Peer -> Nat] /\ height' \in [Peer -> Nat]
      /\ \A q \in Peer : height[q] <= height'[q]
    BY <1>1 DEF SyncInv, Typed
<1>3. Typed' /\ ProbationDeserved' /\ OneAtATime'
    BY <1>1, <1>2 DEF SyncInv, Typed, ProbationDeserved, OneAtATime, Quiet, Expected
<1>4. OnlyFromChain'
    BY <1>1, <1>2 DEF SyncInv, Typed, OnlyFromChain
<1>5. AnswersTrue'
  <2>1. SUFFICES ASSUME NEW q \in Peer, NEW i \in 1..Len(answers[q])
                 PROVE  answers[q][i].gl.end <= height'[q] /\ answers[q][i].max <= height'[q]
    BY <1>1 DEF AnswersTrue
  <2>2. answers[q] \in Seq(Answer)
    BY DEF SyncInv, Typed
  <2>3. answers[q][i] \in Answer
    BY <2>2
  <2>4. answers[q][i].gl.end \in Nat /\ answers[q][i].max \in Nat
    BY <2>3 DEF Answer, Ledgers
  <2>5. answers[q][i].gl.end <= height[q] /\ answers[q][i].max <= height[q]
    BY DEF SyncInv, AnswersTrue
  <2> QED
    BY <1>2, <2>4, <2>5
<1>6. FollowUpsServed'
  <2>1. SUFFICES ASSUME NEW q \in follow.peers PROVE ~Refuses(q, follow.gl)'
    BY <1>1 DEF FollowUpsServed, Refuses
  <2>2. ~Refuses(q, follow.gl) /\ q \in Peer /\ follow.gl \in Ledgers
    BY DEF SyncInv, FollowUpsServed, Typed, Choice
  <2>3. follow.gl.end \in Nat
    BY <2>2 DEF Ledgers
  <2>4. height[q] \in Nat /\ height'[q] \in Nat /\ height[q] <= height'[q]
    BY <1>2, <2>2
  <2> QED
    BY <1>1, <2>2, <2>3, <2>4 DEF Refuses
<1> QED
    BY <1>3, <1>4, <1>5, <1>6 DEF SyncInv

\* A connection that is lost takes everything on its way with it.
LEMMA ReconnectInvariant ==
    ASSUME SyncInv, NEW p \in Peer, Reconnect(p)
    PROVE  SyncInv'
<1>1. /\ requests' = [requests EXCEPT ![p] = <<>>]
      /\ answers' = [answers EXCEPT ![p] = <<>>]
      /\ gl' = [q \in DOMAIN gl \ {p} |-> gl[q]]
      /\ probation' = probation \ {p}
      /\ asking' = [asking EXCEPT !.peers = @ \ {p}]
      /\ follow' = IF p \in follow.peers THEN NoFollow ELSE follow
      /\ UNCHANGED <<lcl, height, late>>
    BY DEF Reconnect
<1>2. requests \in [Peer -> Seq(Ledgers)] /\ answers \in [Peer -> Seq(Answer)]
      /\ asking \in Choice /\ follow \in Choice
    BY DEF SyncInv, Typed
<1>3. asking' \in Choice /\ asking'.peers = asking.peers \ {p}
    BY <1>1, <1>2, Zenon DEF Choice
<1>4. follow' \in Choice /\ (follow' = follow \/ follow'.peers = {}) /\ p \notin follow'.peers
    BY <1>1, <1>2 DEF Choice, NoFollow, None, Span, Ledgers
<1>5. /\ requests' \in [Peer -> Seq(Ledgers)] /\ requests'[p] = <<>>
      /\ answers' \in [Peer -> Seq(Answer)] /\ answers'[p] = <<>>
      /\ \A q \in Peer \ {p} : requests'[q] = requests[q] /\ answers'[q] = answers[q]
    BY <1>1, <1>2
<1>6. Typed' /\ OnlyFromChain' /\ ProbationDeserved'
    BY <1>1, <1>3, <1>4, <1>5 DEF SyncInv, Typed, OnlyFromChain, ProbationDeserved
<1>7. FollowUpsServed'
    BY <1>1, <1>4 DEF SyncInv, FollowUpsServed, Refuses
<1>8. AnswersTrue'
  <2>1. SUFFICES ASSUME NEW q \in Peer, NEW i \in 1..Len(answers'[q])
                 PROVE  answers'[q][i].gl.end <= height[q] /\ answers'[q][i].max <= height[q]
    BY <1>1 DEF AnswersTrue
  <2>2. q # p
    BY <1>5, <2>1
  <2> QED
    BY <1>5, <2>1, <2>2 DEF SyncInv, AnswersTrue
<1>9. OneAtATime'
  <2>1. SUFFICES ASSUME NEW q \in Peer \ late
                 PROVE  /\ (Quiet(q) \/ Expected(q))'
                        /\ q \in asking'.peers \cup follow'.peers => Quiet(q)'
                        /\ q \notin asking'.peers \cap follow'.peers
    BY <1>1 DEF OneAtATime
  <2>2. CASE q = p
    BY <1>3, <1>4, <1>5, <2>2 DEF Quiet
  <2>3. CASE q # p
    <3>1. (Quiet(q) => Quiet(q)') /\ (Expected(q) => Expected(q)')
        BY <1>1, <1>5, <2>1, <2>3 DEF Quiet, Expected
    <3> QED
        BY <1>3, <1>4, <2>1, <3>1 DEF SyncInv, OneAtATime
  <2> QED
    BY <2>2, <2>3
<1> QED
    BY <1>6, <1>7, <1>8, <1>9 DEF SyncInv

\* The clock, and steps that change nothing here.
LEMMA ClockInvariant ==
    ASSUME SyncInv, probation' \subseteq probation,
           UNCHANGED <<lcl, height, gl, asking, follow, requests, answers, late>>
    PROVE  SyncInv'
    BY DEF SyncInv, Typed, AnswersTrue, OnlyFromChain, FollowUpsServed, Refuses,
           ProbationDeserved, OneAtATime, Quiet, Expected

-----------------------------------------------------------------------------

\* The inductive invariant, one step per action.
THEOREM SyncInvariant == SyncSpec => []SyncInv
<1>1. SyncInit => SyncInv
    BY SyncStarts
<1>2. SyncInv /\ [SyncNext]_sync_vars => SyncInv'
  <2> SUFFICES ASSUME SyncInv, [SyncNext]_sync_vars PROVE SyncInv'
    OBVIOUS
  <2>1. CASE OnTimer
    BY <2>1, OnTimerInvariant
  <2>2. CASE OnConsent
    BY <2>2, OnConsentInvariant
  <2>3. CASE UpdateDue
    BY <2>3, ClockInvariant DEF UpdateDue
  <2>4. ASSUME NEW p \in Peer, Ask(p) PROVE SyncInv'
    BY <2>4, AskInvariant
  <2>5. ASSUME NEW p \in Peer, OnReceiveLedgers(p) PROVE SyncInv'
    BY <2>5, OnReceiveLedgersInvariant
  <2>6. ASSUME NEW p \in Peer, FollowUp(p) PROVE SyncInv'
    BY <2>6, FollowUpInvariant
  <2>7. ASSUME NEW p \in Peer, OnRequestLedgers(p) PROVE SyncInv'
    BY <2>7, OnRequestLedgersInvariant
  <2>8. ASSUME NEW p \in Peer, PeerCloses(p) PROVE SyncInv'
    BY <2>8, PeerClosesInvariant
  <2>9. ASSUME NEW p \in Peer, ProbationOver(p) PROVE SyncInv'
    BY <2>9, ClockInvariant DEF ProbationOver
  <2>10. ASSUME NEW p \in Peer, Reconnect(p) PROVE SyncInv'
    BY <2>10, ReconnectInvariant
  <2>11. CASE UNCHANGED sync_vars
    BY <2>11, ClockInvariant DEF sync_vars
  <2> QED
    BY <2>1, <2>2, <2>3, <2>4, <2>5, <2>6, <2>7, <2>8, <2>9, <2>10, <2>11 DEF SyncNext, Sync
<1> QED
    BY <1>1, <1>2, PTL DEF SyncSpec

\* The node never gets ahead of its good peers, nor takes a ledger from a bad one
\* (OnReceiveLedgers closes only what follows its last ledger).
THEOREM OnlyFromChainAlways == SyncSpec => []OnlyFromChain
<1>1. SyncInv => OnlyFromChain
    BY DEF SyncInv
<1> QED
    BY <1>1, SyncInvariant, PTL

\* OnRequestLedgers of the peer serves every follow-up that OnReceiveLedgers
\* prepared, also when the peer has closed more ledgers by then.
THEOREM FollowUpsServedAlways == SyncSpec => []FollowUpsServed
<1>1. SyncInv => FollowUpsServed
    BY DEF SyncInv
<1> QED
    BY <1>1, SyncInvariant, PTL

\* Whatever the timer and the network thread do in between, a good peer whose
\* answers come before the timer asks again is never put on probation.
THEOREM ProbationDeservedAlways == SyncSpec => []ProbationDeserved
<1>1. SyncInv => ProbationDeserved
    BY DEF SyncInv
<1> QED
    BY <1>1, SyncInvariant, PTL

-----------------------------------------------------------------------------
(* AtomMap *)

\* A record has an object exactly if it is not a mark.
Pointing(rec) == rec.type \in {"MOD", "ADD"} <=> rec.ptr # Null

MapInv ==
    /\ TypeOK /\ NoAlias
    /\ \A k \in Key : \A f \in 0..Depth : Pointing(At(f, k))

-----------------------------------------------------------------------------

\* The frames are a sequence of at most MaxDepth buffers.
LEMMA Shape ==
    ASSUME TypeOK
    PROVE  /\ MaxDepth \in Nat \ {0} /\ Depth \in Nat \ {0} /\ Depth <= MaxDepth
           /\ DOMAIN frames = 1..Depth
           /\ \A f \in 1..Depth : frames[f] \in [Key -> Record]
           /\ \A f \in 0..Depth : \A k \in Key : At(f, k) \in Record
<1>1. MaxDepth \in Nat \ {0} /\ Depth \in Nat \ {0} /\ Depth <= MaxDepth
    BY MapConstants DEF TypeOK
<1>2. frames \in Seq([Key -> Record]) /\ stor \in [Key -> Record]
    BY DEF TypeOK
<1>3. DOMAIN frames = 1..Depth /\ \A f \in 1..Depth : frames[f] \in [Key -> Record]
    BY <1>2 DEF Depth
<1>4. \A f \in 0..Depth : \A k \in Key : At(f, k) \in Record
    BY <1>1, <1>2, <1>3 DEF At
<1> QED
    BY <1>1, <1>3, <1>4

\* The objects that a key's records point at.
LEMMA PointersAt ==
    ASSUME TypeOK, NEW k \in Key
    PROVE  Pointers(stor, frames, k) = {At(f, k).ptr : f \in 0..Depth}
<1>1. DOMAIN frames = 1..Depth /\ Depth \in Nat
    BY Shape
<1> QED
    BY <1>1 DEF Pointers, At

\* The least-number principle, from the library's well-founded minimum.
LEMMA LeastNumber ==
    ASSUME NEW T \in SUBSET Nat, T # {}
    PROVE  \E least \in T : \A other \in T : least <= other
<1>1. IsWellFoundedOn(OpToRel(<, Nat), Nat)
  BY NatLessThanWellFounded, Zenon
<1>2. PICK least \in T : \A other \in T : ~(<<other, least>> \in OpToRel(<, Nat))
  BY <1>1, WFMin, Zenon
<1>3. \A other \in T : ~(other < least)
  BY <1>2, Zenon DEF OpToRel
<1> QED
  BY <1>3

\* The assignments of n + 1 objects to n records that use every object.
Onto(n) ==
    {g \in [1..n -> 1..(n + 1)] : \A y \in 1..(n + 1) : \E i \in 1..n : g[i] = y}

\* There are none: the least one would lead to a lesser, without the record of
\* the last object.
LEMMA NoneOnto ==
    ASSUME NEW n \in Nat
    PROVE  Onto(n) = {}
<1> DEFINE T == {k \in Nat : Onto(k) # {}}
<1>1. SUFFICES ASSUME T # {} PROVE FALSE
  OBVIOUS
<1>2. PICK least \in T : \A other \in T : least <= other
  BY <1>1, LeastNumber, Zenon
<1>3. least \in Nat /\ Onto(least) # {}
  BY <1>2
<1>4. PICK g \in [1..least -> 1..(least + 1)] :
          \A y \in 1..(least + 1) : \E i \in 1..least : g[i] = y
  BY <1>3, Zenon DEF Onto
<1>5. least \in Nat \ {0}
  <2>1. 1 \in 1..(least + 1)
    BY <1>3
  <2>2. PICK i \in 1..least : g[i] = 1
    BY <1>4, <2>1
  <2> QED
    BY <1>3, <2>2
<1>6. PICK last \in 1..least : g[last] = least + 1
  <2>1. least + 1 \in 1..(least + 1)
    BY <1>3
  <2> QED
    BY <1>4, <2>1
<1> DEFINE m == least - 1
           Swapped(i) == IF i = last THEN g[least] ELSE g[i]
           h == [i \in 1..m |-> IF Swapped(i) = least + 1 THEN 1 ELSE Swapped(i)]
<1>7. m \in Nat /\ m + 1 = least /\ ~(least <= m)
  BY <1>5
<1>8. \A i \in 1..m : /\ i \in 1..least /\ Swapped(i) \in 1..(least + 1)
                      /\ Swapped(i) # least + 1 => Swapped(i) \in 1..(m + 1)
  <2>1. least \in 1..least /\ \A i \in 1..m : i \in 1..least
    BY <1>5
  <2>2. \A i \in 1..m : Swapped(i) \in 1..(least + 1)
    BY <1>4, <2>1, Zenon
  <2>3. \A y \in 1..(least + 1) : y # least + 1 => y \in 1..(m + 1)
    BY <1>5
  <2> QED
    BY <2>1, <2>2, <2>3, Zenon
<1>9. h \in [1..m -> 1..(m + 1)]
  <2>1. 1 \in 1..(m + 1)
    BY <1>7
  <2> HIDE DEF m, Swapped
  <2> QED
    BY <1>8, <2>1
<1>10. ASSUME NEW y \in 1..(m + 1) PROVE \E i \in 1..m : h[i] = y
  <2>1. y \in 1..(least + 1) /\ y # least + 1
    BY <1>7
  <2>2. PICK j \in 1..least : g[j] = y
    BY <1>4, <2>1
  <2>3. j # last
    BY <1>6, <2>1, <2>2
  <2>4. CASE j = least
    <3>1. last \in 1..m
      BY <1>5, <2>3, <2>4
    <3>2. Swapped(last) = y
      BY <2>2, <2>4
    <3> HIDE DEF m, Swapped
    <3> QED
      BY <2>1, <3>1, <3>2
  <2>5. CASE j # least
    <3>1. j \in 1..m
      BY <1>5, <2>5
    <3>2. Swapped(j) = y
      BY <2>2, <2>3
    <3> HIDE DEF m, Swapped
    <3> QED
      BY <2>1, <3>1, <3>2
  <2> QED
    BY <2>4, <2>5
<1> HIDE DEF m, h
<1>11. h \in Onto(m)
  BY <1>9, <1>10 DEF Onto
<1> QED
  BY <1>2, <1>7, <1>11

\* make_shared always finds an object: there are more of them than records.
LEMMA FreshExists ==
    ASSUME TypeOK, NEW k \in Key
    PROVE  Fresh(k) \in Ptr /\ \A f \in 0..Depth : At(f, k).ptr # Fresh(k)
<1>1. SUFFICES ASSUME Ptr \subseteq Pointers(stor, frames, k) PROVE FALSE
    BY PointersAt DEF Fresh
<1> DEFINE n == MaxDepth + 1
           p(i) == At(i - 1, k).ptr
           g == [i \in 1..n |-> IF i <= Depth + 1 /\ p(i) \in Ptr THEN p(i) ELSE 1]
<1>2. Depth \in Nat /\ MaxDepth \in Nat /\ Depth <= MaxDepth
    BY Shape
<1>3. n \in Nat /\ Ptr = 1..(n + 1) /\ 1 \in 1..(n + 1)
    BY <1>2 DEF Ptr
<1>4. ASSUME NEW y \in Ptr PROVE \E i \in 1..n : g[i] = y
  <2>1. PICK f \in 0..Depth : At(f, k).ptr = y
    BY <1>1, PointersAt
  <2>2. f + 1 \in 1..n /\ f + 1 <= Depth + 1 /\ (f + 1) - 1 = f
    BY <1>2
  <2>3. p(f + 1) = y
    BY <2>1, <2>2
  <2> HIDE DEF p, n
  <2> QED
    BY <2>2, <2>3
<1> HIDE DEF n, p
<1>5. g \in [1..n -> 1..(n + 1)]
  BY <1>3
<1>6. g \in Onto(n)
  BY <1>3, <1>4, <1>5, Zenon DEF Onto
<1> QED
  BY <1>3, <1>6, NoneOnto

\* What frame f has, and the objects it has them in, stay as they are.
Kept(f) ==
    \A q \in Key : /\ At(f, q)' = At(f, q)
                   /\ At(f, q).ptr # Null
                        => heap'[q][At(f, q).ptr] = heap[q][At(f, q).ptr]

\* Only objects nothing points at are destroyed.
LEMMA CollectedKeeps ==
    ASSUME NEW h \in [Key -> [Ptr -> Value]], NEW s, NEW fs
    PROVE  /\ Collected(h, s, fs) \in [Key -> [Ptr -> Value]]
           /\ \A k \in Key : \A p \in Ptr \cap Pointers(s, fs, k) :
                 Collected(h, s, fs)[k][p] = h[k][p]
<1>1. 0 \in Value
    BY MapConstants DEF Value
<1> QED
    BY <1>1 DEF Collected

\* Put changes one record of the top frame, and the object of it.
LEMMA PutEffect ==
    ASSUME MapInv, NEW k \in Key, NEW rec \in Record, NEW v \in Value, Put(k, rec, v),
           Pointing(rec),
           \A f \in 0..(Depth - 1) : At(f, k).ptr = rec.ptr => rec.ptr = Null
    PROVE  /\ MapInv' /\ Depth' = Depth /\ db' = db
           /\ \A f \in 0..(Depth - 1) : Kept(f)
           /\ \A f \in 0..Depth : \A q \in Key :
                 /\ At(f, q)' = IF f = Depth /\ q = k THEN rec ELSE At(f, q)
                 /\ q # k /\ At(f, q).ptr # Null
                      => heap'[q][At(f, q).ptr] = heap[q][At(f, q).ptr]
           /\ rec.ptr # Null => heap'[k][rec.ptr] = v
<1> DEFINE d == Depth
           fs == [frames EXCEPT ![d][k] = rec]
           h == IF rec.ptr = Null THEN heap ELSE [heap EXCEPT ![k][rec.ptr] = v]
<1>1. frames' = fs /\ heap' = Collected(h, stor, fs) /\ db' = db /\ stor' = stor
    BY DEF Put
<1>2. /\ d \in Nat \ {0} /\ d <= MaxDepth /\ MaxDepth \in Nat
      /\ \A f \in 1..d : frames[f] \in [Key -> Record]
      /\ \A f \in 0..d : \A q \in Key : At(f, q) \in Record
    BY Shape DEF MapInv
<1>3. frames \in Seq([Key -> Record]) /\ stor \in [Key -> Record]
      /\ heap \in [Key -> [Ptr -> Value]] /\ Len(frames) = d
    BY DEF MapInv, TypeOK, Depth
<1> HIDE DEF d
<1>4. [frames[d] EXCEPT ![k] = rec] \in [Key -> Record]
    BY <1>2
<1>5. fs \in Seq([Key -> Record]) /\ Len(fs) = d
      /\ fs[d] = [frames[d] EXCEPT ![k] = rec] /\ \A f \in 1..d : f # d => fs[f] = frames[f]
    BY <1>2, <1>3, <1>4
<1>6. Depth' = d
    BY <1>1, <1>5 DEF Depth
<1>7. \A f \in 0..d : \A q \in Key :
        At(f, q)' = IF f = d /\ q = k THEN rec ELSE At(f, q)
    BY <1>1, <1>2, <1>5 DEF At
<1>8. h \in [Key -> [Ptr -> Value]]
      /\ \A q \in Key : \A p \in Ptr :
            h[q][p] = IF q = k /\ p = rec.ptr THEN v ELSE heap[q][p]
  <2>1. CASE rec.ptr = Null
    BY <1>3, <2>1 DEF Null, Ptr
  <2>2. CASE rec.ptr # Null
    <3>1. rec.ptr \in Ptr
        BY <2>2 DEF Record
    <3> QED
        BY <1>3, <2>2, <3>1
  <2> QED
    BY <2>1, <2>2
<1>9. heap' \in [Key -> [Ptr -> Value]]
    BY <1>1, <1>8, CollectedKeeps, Zenon
<1>10. TypeOK'
    BY <1>1, <1>2, <1>5, <1>6, <1>9, Zenon DEF MapInv, TypeOK, d
<1>11. NoAlias'
  <2>1. SUFFICES ASSUME NEW q \in Key, NEW f \in 0..d, NEW g \in 0..d, f # g,
                        At(f, q)'.ptr = At(g, q)'.ptr
                 PROVE  At(f, q)'.ptr = Null
    BY <1>6, Zenon DEF NoAlias
  <2>2. CASE q = k /\ (f = d \/ g = d)
    <3>1. d \in Nat /\ d = Depth
        BY <1>2, Zenon DEF d
    <3>2. \A e \in 0..d : e # d => e \in 0..(Depth - 1)
        BY <3>1, SMTT(20), Z3T(20)
    <3> QED
        BY <1>7, <2>1, <2>2, <3>2
  <2>3. CASE ~(q = k /\ (f = d \/ g = d))
    BY <1>7, <2>1, <2>3 DEF MapInv, NoAlias, d
  <2> QED
    BY <2>2, <2>3, Zenon
<1>12. MapInv'
    BY <1>6, <1>7, <1>10, <1>11 DEF MapInv, d, Pointing
<1>13. \A q \in Key : \A f \in 0..d :
        At(f, q)'.ptr # Null => heap'[q][At(f, q)'.ptr] = h[q][At(f, q)'.ptr]
  <2>1. SUFFICES ASSUME NEW q \in Key, NEW f \in 0..d, At(f, q)'.ptr # Null
                 PROVE  heap'[q][At(f, q)'.ptr] = h[q][At(f, q)'.ptr]
    OBVIOUS
  <2>2. At(f, q)'.ptr \in Ptr
    BY <1>2, <1>7, <2>1 DEF Record
  <2>3. Pointers(stor', frames', q) = {At(e, q)'.ptr : e \in 0..d}
    <3>1. DOMAIN frames' = 1..d
        BY <1>1, <1>5
    <3> QED
        BY <1>2, <3>1 DEF Pointers, At
  <2>4. At(f, q)'.ptr \in Pointers(stor, fs, q)
    BY <1>1, <2>1, <2>3, Zenon
  <2> HIDE DEF h, fs
  <2>5. \A p \in Ptr \cap Pointers(stor, fs, q) : Collected(h, stor, fs)[q][p] = h[q][p]
    <3>1. h \in [Key -> [Ptr -> Value]]
        BY <1>8, Zenon
    <3> QED
        BY <3>1, CollectedKeeps, SMTT(20), Z3T(20)
  <2> QED
    BY <1>1, <2>2, <2>4, <2>5, Zenon
<1>14. \A f \in 0..(Depth - 1) : Kept(f)
  <2>1. SUFFICES ASSUME NEW f \in 0..(Depth - 1), NEW q \in Key
                 PROVE  /\ At(f, q)' = At(f, q)
                        /\ At(f, q).ptr # Null
                             => heap'[q][At(f, q).ptr] = heap[q][At(f, q).ptr]
    BY Zenon DEF Kept
  <2>2. f \in 0..d /\ f # d
    <3>1. d \in Nat /\ d = Depth
        BY <1>2, Zenon DEF d
    <3> QED
        BY <2>1, <3>1
  <2>3. At(f, q)' = At(f, q)
    BY <1>7, <2>2
  <2>4. SUFFICES ASSUME At(f, q).ptr # Null
                 PROVE  heap'[q][At(f, q).ptr] = heap[q][At(f, q).ptr]
    BY <2>3, Zenon
  <2>5. At(f, q).ptr \in Ptr
    BY <1>2, <2>2, <2>4 DEF Record
  <2>6. ~(q = k /\ At(f, q).ptr = rec.ptr)
    BY <2>1, <2>4, Zenon
  <2> HIDE DEF h
  <2> QED
    <3>1. heap'[q][At(f, q).ptr] = h[q][At(f, q).ptr]
        BY <1>13, <2>2, <2>3, <2>4, Zenon
    <3>2. h[q][At(f, q).ptr] = heap[q][At(f, q).ptr]
        BY <1>8, <2>5, <2>6
    <3> QED
        BY <3>1, <3>2, Zenon
<1>15. rec.ptr # Null => heap'[k][rec.ptr] = v
  <2>1. PICK f \in 0..d : f = d
    BY <1>2, SMTT(20), Z3T(20)
  <2>2. At(f, k)' = rec
    BY <1>7, <2>1
  <2>3. rec.ptr # Null => rec.ptr \in Ptr
    BY DEF Record
  <2> HIDE DEF h
  <2> QED
    BY <1>8, <1>13, <2>2, <2>3, Zenon
<1>16. ASSUME NEW f \in 0..d, NEW q \in Key, q # k, At(f, q).ptr # Null
       PROVE  heap'[q][At(f, q).ptr] = heap[q][At(f, q).ptr]
  <2>1. At(f, q)' = At(f, q)
    BY <1>7, <1>16
  <2>2. At(f, q).ptr \in Ptr
    BY <1>2, <1>16, Zenon DEF Record
  <2> HIDE DEF h
  <2>3. heap'[q][At(f, q).ptr] = h[q][At(f, q).ptr]
    BY <1>13, <1>16, <2>1, Zenon
  <2>4. h[q][At(f, q).ptr] = heap[q][At(f, q).ptr]
    BY <1>8, <1>16, <2>2, Zenon
  <2> QED
    BY <2>3, <2>4, Zenon
<1> QED
    BY <1>1, <1>6, <1>7, <1>12, <1>14, <1>15, <1>16, Zenon DEF d

\* The entries under the outermost frame stay when stor_ and its objects do ...
LEMMA BaseKept ==
    ASSUME MapInv, Kept(0), db' = db
    PROVE  Base' = Base
<1>1. SUFFICES ASSUME NEW q \in Key PROVE Seen(q, stor[q], db[q])' = Seen(q, stor[q], db[q])
    BY DEF Base
<1>2. stor[q] = At(0, q) /\ 0 \in 0..Depth
    BY Shape DEF At, MapInv
<1>3. stor'[q] = stor[q] /\ (stor[q].ptr # Null => heap'[q][stor[q].ptr] = heap[q][stor[q].ptr])
    BY <1>2 DEF Kept, At
<1>4. stor[q] \in Record /\ Pointing(stor[q])
    BY <1>2, Shape DEF MapInv
<1> QED
    BY <1>3, <1>4 DEF Seen, Pointing, Record

\* ... and as it shows them, when its own records and objects do too.
LEMMA WorkKept ==
    ASSUME MapInv, Kept(0), Kept(1), db' = db
    PROVE  Work' = Work
<1>1. SUFFICES ASSUME NEW q \in Key
               PROVE  Seen(q, frames[1][q], Base[q])' = Seen(q, frames[1][q], Base[q])
    BY DEF Work
<1>2. frames[1][q] = At(1, q) /\ 1 \in 0..Depth
    BY Shape DEF At, MapInv
<1>3. frames'[1][q] = frames[1][q]
      /\ (frames[1][q].ptr # Null => heap'[q][frames[1][q].ptr] = heap[q][frames[1][q].ptr])
    BY <1>2, SMTT(20), Z3T(20) DEF Kept, At
<1>4. frames[1][q] \in Record /\ Pointing(frames[1][q])
    BY <1>2, Shape DEF MapInv
<1>5. Base' = Base
    BY BaseKept
<1> QED
    BY <1>3, <1>4, <1>5 DEF Seen, Pointing, Record

Entries == Base \in [Key -> Value \cup {NoEntry}] /\ Work \in [Key -> Value \cup {NoEntry}]

\* What a frame shows of a key is a value, or that there is none.
LEMMA MapsTyped == MapInv => Entries
<1> SUFFICES ASSUME MapInv PROVE Entries
    OBVIOUS
<1>1. \A q \in Key : \A f \in 0..Depth : \A under \in Value \cup {NoEntry} :
        Seen(q, At(f, q), under) \in Value \cup {NoEntry}
  <2>1. SUFFICES ASSUME NEW q \in Key, NEW f \in 0..Depth, NEW under \in Value \cup {NoEntry}
                 PROVE  Seen(q, At(f, q), under) \in Value \cup {NoEntry}
    OBVIOUS
  <2>2. At(f, q) \in Record /\ Pointing(At(f, q)) /\ heap \in [Key -> [Ptr -> Value]]
    BY Shape DEF MapInv, TypeOK
  <2>3. At(f, q).ptr # Null => At(f, q).ptr \in Ptr
    BY <2>2 DEF Record
  <2>4. At(f, q).ptr # Null => heap[q][At(f, q).ptr] \in Value
    BY <2>2, <2>3
  <2> QED
    BY <2>2, <2>4 DEF Seen, Pointing, Record
<1>2. \A q \in Key : At(0, q) = stor[q] /\ At(1, q) = frames[1][q]
    BY DEF At
<1>3. 0 \in 0..Depth /\ 1 \in 0..Depth
    BY Shape DEF MapInv
<1>4. Base \in [Key -> Value \cup {NoEntry}]
    BY <1>1, <1>2, <1>3 DEF Base, MapInv, TypeOK
<1>5. Work \in [Key -> Value \cup {NoEntry}]
  <2>1. \A q \in Key : Base[q] \in Value \cup {NoEntry}
    BY <1>4
  <2> QED
    BY <1>1, <1>2, <1>3, <2>1 DEF Work
<1> QED
    BY <1>4, <1>5 DEF Entries

\* GetValue gives a record of the top frame, or one with a new object.
LEMMA GetGives ==
    ASSUME MapInv, NEW k \in Key, GetValue(k).found
    PROVE  /\ GetValue(k).rec \in Record /\ GetValue(k).rec.ptr # Null
           /\ Pointing(GetValue(k).rec) /\ GetValue(k).val \in Value
           /\ \A f \in 0..(Depth - 1) : At(f, k).ptr # GetValue(k).rec.ptr
<1> DEFINE d == Depth  own == frames[d][k]  below == Data(d)[k]
<1>1. d \in Nat \ {0} /\ own = At(d, k) /\ below = At(d - 1, k)
    BY Shape DEF MapInv, At, Data
<1>2. d \in 0..d /\ d - 1 \in 0..d
    BY <1>1
<1>3. own \in Record /\ Pointing(own) /\ below \in Record /\ Pointing(below)
    BY <1>1, <1>2, Shape DEF MapInv
<1>4. heap \in [Key -> [Ptr -> Value]] /\ db \in [Key -> Value \cup {NoEntry}]
    BY DEF MapInv, TypeOK
<1>5. Fresh(k) \in Ptr /\ Fresh(k) # Null /\ \A f \in 0..d : At(f, k).ptr # Fresh(k)
    BY FreshExists DEF MapInv, Ptr, Null
<1>6. CASE own.type # "MAX"
  <2>1. own.type # "DEL" /\ GetValue(k) = [found |-> TRUE, rec |-> own, val |-> heap[k][own.ptr]]
    BY <1>6, Zenon DEF GetValue, Depth
  <2>2. own.ptr # Null /\ own.ptr \in Ptr
    BY <1>3, <1>6, <2>1 DEF Pointing, Record
  <2>3. \A f \in 0..(d - 1) : At(f, k).ptr # own.ptr
    <3>1. \A f \in 0..(d - 1) : f \in 0..d /\ f # d
        BY <1>1
    <3> QED
        BY <1>1, <1>2, <2>2, <3>1 DEF MapInv, NoAlias
  <2>4. heap[k][own.ptr] \in Value
    BY <1>4, <2>2, Zenon
  <2>5. GetValue(k).rec = own /\ GetValue(k).val = heap[k][own.ptr]
    BY <2>1
  <2> QED
    BY <1>3, <2>2, <2>3, <2>4, <2>5, Zenon
<1>7. CASE own.type = "MAX"
  <2>1. PICK t \in {"MOD", "ADD"}, v \in Value :
          GetValue(k) = [found |-> TRUE, rec |-> [type |-> t, ptr |-> Fresh(k)], val |-> v]
    <3>1. CASE below.type # "MAX"
      <4>1. below.type # "DEL"
            /\ GetValue(k) = [found |-> TRUE, rec |-> [type |-> "MOD", ptr |-> Fresh(k)],
                              val |-> heap[k][below.ptr]]
        BY <1>7, <3>1, Zenon DEF GetValue, Depth
      <4>2. below.ptr \in Ptr
        BY <1>3, <3>1, <4>1, Zenon DEF Pointing, Record
      <4> QED
        BY <1>4, <4>1, <4>2, Zenon
    <3>2. CASE below.type = "MAX"
      <4>1. db[k] # NoEntry
            /\ GetValue(k) = [found |-> TRUE, rec |-> [type |-> "ADD", ptr |-> Fresh(k)],
                              val |-> db[k]]
        BY <1>7, <3>2, Zenon DEF GetValue, Depth
      <4> QED
        BY <1>4, <4>1, Zenon
    <3> QED
        BY <3>1, <3>2, Zenon
  <2>2. \A f \in 0..(d - 1) : f \in 0..d
    BY <1>1
  <2> QED
    BY <1>5, <2>1, <2>2 DEF Record, Pointing
<1> QED
    BY <1>6, <1>7, Zenon

\* At the outermost frame GetValue answers with the entry that the frame shows.
LEMMA GetMeans ==
    ASSUME MapInv, Depth = 1, NEW k \in Key
    PROVE  /\ GetValue(k).found <=> Work[k] # NoEntry
           /\ GetValue(k).found => GetValue(k).val = Work[k]
<1> DEFINE own == frames[1][k]  below == stor[k]
<1>1. own = At(1, k) /\ below = At(0, k) /\ 0 \in 0..Depth /\ 1 \in 0..Depth
    BY DEF At
<1>2. own \in Record /\ Pointing(own) /\ below \in Record /\ Pointing(below)
    BY <1>1, Shape DEF MapInv
<1>3. heap \in [Key -> [Ptr -> Value]] /\ NoEntry \notin Value
    BY MapConstants DEF MapInv, TypeOK, Value
<1>4. Work[k] = Seen(k, own, Seen(k, below, db[k]))
    BY DEF Work, Base
<1>5. own.type \in {"MOD", "ADD"} => heap[k][own.ptr] # NoEntry
    BY <1>2, <1>3 DEF Pointing, Record
<1>6. below.type \in {"MOD", "ADD"} => heap[k][below.ptr] # NoEntry
    BY <1>2, <1>3 DEF Pointing, Record
<1>7. frames[Depth][k] = own /\ Data(Depth)[k] = below
    BY DEF Data
<1>8. own.type \in {"MOD", "ADD", "DEL", "MAX"} /\ below.type \in {"MOD", "ADD", "DEL", "MAX"}
    BY <1>2 DEF Record
<1> HIDE DEF own, below
<1>9. CASE own.type # "MAX"
    BY <1>4, <1>5, <1>7, <1>8, <1>9 DEF GetValue, Seen
<1>10. CASE own.type = "MAX" /\ below.type # "MAX"
    BY <1>4, <1>6, <1>7, <1>8, <1>10 DEF GetValue, Seen
<1>11. CASE own.type = "MAX" /\ below.type = "MAX"
    BY <1>4, <1>7, <1>11 DEF GetValue, Seen
<1> QED
    BY <1>9, <1>10, <1>11

\* What a kept frame holds stays.
LEMMA KeptHeld ==
    ASSUME NEW f, Kept(f)
    PROVE  Held(IF f = 0 THEN stor' ELSE frames'[f], heap')
             = Held(IF f = 0 THEN stor ELSE frames[f], heap)
<1>1. \A q \in Key : (IF f = 0 THEN stor ELSE frames[f])[q] = At(f, q)
                     /\ (IF f = 0 THEN stor' ELSE frames'[f])[q] = At(f, q)
    BY Zenon DEF Kept, At
<1> QED
    BY <1>1, Zenon DEF Held, Kept

\* The step of the abstract map that a step is, and what it leaves.
StepOK == MapInv' /\ ChangesBelow /\ [Abstract!MapNext]_(Abstract!mapVars)

\* A step that keeps the frames under the top one, and stutters or writes.
LEMMA PutStep ==
    ASSUME MapInv, NEW k \in Key, NEW rec \in Record, NEW v \in Value, Put(k, rec, v),
           Pointing(rec), rec.type # "MAX",
           \A f \in 0..(Depth - 1) : At(f, k).ptr = rec.ptr => rec.ptr = Null,
           LET u == IF rec.ptr = Null THEN NoEntry ELSE v
           IN  Depth = 1 => \/ u = Work[k]
                            \/ Work[k] # NoEntry /\ u = Changed(Work[k])
                            \/ Work[k] = NoEntry /\ u = 0
                            \/ u = NoEntry
    PROVE  StepOK
<1> DEFINE u == IF rec.ptr = Null THEN NoEntry ELSE v
<1>1. /\ MapInv' /\ Depth' = Depth /\ db' = db
      /\ \A f \in 0..(Depth - 1) : Kept(f)
      /\ \A f \in 0..Depth : \A q \in Key :
            /\ At(f, q)' = IF f = Depth /\ q = k THEN rec ELSE At(f, q)
            /\ q # k /\ At(f, q).ptr # Null
                 => heap'[q][At(f, q).ptr] = heap[q][At(f, q).ptr]
      /\ rec.ptr # Null => heap'[k][rec.ptr] = v
    BY PutEffect, Zenon
<1>2. ChangesBelow
    BY <1>1, KeptHeld, Zenon DEF ChangesBelow
<1>3. Depth \in Nat \ {0}
    BY Shape DEF MapInv
<1>4. Kept(0) /\ Base' = Base
  <2>1. 0 \in 0..(Depth - 1)
    BY <1>3
  <2> QED
    BY <1>1, <2>1, BaseKept, Zenon
<1>5. CASE Depth > 1
  <2>1. 1 \in 0..(Depth - 1)
    BY <1>3, <1>5
  <2>2. Work' = Work
    BY <1>1, <1>4, <2>1, WorkKept, Zenon
  <2> QED
    BY <1>1, <1>2, <1>4, <2>2, Zenon DEF StepOK, Abstract!mapVars
<1>6. CASE Depth = 1
  <2>1. \A q \in Key : frames[1][q] = At(1, q) /\ frames'[1][q] = At(1, q)'
    BY SMTT(20), Z3T(20) DEF At
  <2>2. Work'[k] = u
    <3>1. frames'[1][k] = rec
      <4>1. 1 \in 0..Depth
        BY <1>6
      <4> QED
        BY <1>1, <1>6, <2>1, <4>1, Zenon
    <3>2. Work'[k] = Seen(k, rec, Base[k])'
        BY <3>1, Zenon DEF Work
    <3>3. rec.ptr = Null => rec.type = "DEL"
        BY DEF Pointing, Record
    <3>4. rec.ptr # Null => rec.type \in {"MOD", "ADD"}
        BY DEF Pointing
    <3> QED
        BY <1>1, <3>2, <3>3, <3>4 DEF Seen
  <2>3. \A q \in Key \ {k} : Work'[q] = Work[q]
    <3>1. SUFFICES ASSUME NEW q \in Key \ {k} PROVE Work'[q] = Work[q]
        BY Zenon
    <3>2. 1 \in 0..Depth
        BY <1>6
    <3>3. frames'[1][q] = frames[1][q]
          /\ (frames[1][q].ptr # Null => heap'[q][frames[1][q].ptr] = heap[q][frames[1][q].ptr])
      <4>1. q \in Key /\ q # k
        BY <3>1
      <4>2. At(1, q)' = At(1, q)
            /\ (At(1, q).ptr # Null => heap'[q][At(1, q).ptr] = heap[q][At(1, q).ptr])
        BY <1>1, <3>2, <4>1, Zenon
      <4> QED
        BY <2>1, <4>1, <4>2, Zenon
    <3>4. frames[1][q] \in Record /\ Pointing(frames[1][q])
        BY <2>1, <3>2, Shape, Zenon DEF MapInv
    <3> QED
        BY <1>4, <3>3, <3>4 DEF Work, Seen, Pointing, Record
  <2>4. Work' = [Work EXCEPT ![k] = u]
    BY <2>2, <2>3, Zenon DEF Work
  <2> HIDE DEF u
  <2>5. CASE u = Work[k]
    <3>1. Work' = Work
        BY <2>4, <2>5, Zenon DEF Work
    <3> QED
        BY <1>1, <1>2, <1>4, <3>1, Zenon DEF StepOK, Abstract!mapVars
  <2>6. CASE Work[k] # NoEntry /\ u = Changed(Work[k])
    BY <1>1, <1>2, <1>4, <1>6, <2>4, <2>6, Zenon DEF StepOK, Abstract!MapNext, Abstract!ChangeEntry, Abstract!Write
  <2>7. CASE Work[k] = NoEntry /\ u = 0
    BY <1>1, <1>2, <1>4, <1>6, <2>4, <2>7, Zenon DEF StepOK, Abstract!MapNext, Abstract!AddEntry, Abstract!Write
  <2>8. CASE u = NoEntry
    BY <1>1, <1>2, <1>4, <1>6, <2>4, <2>8, Zenon DEF StepOK, Abstract!MapNext, Abstract!Erase, Abstract!Write
  <2> QED
    BY <1>6, <2>5, <2>6, <2>7, <2>8, Zenon DEF u
<1> QED
    BY <1>3, <1>5, <1>6

-----------------------------------------------------------------------------

\* A caller that only looks changes nothing that is seen.
LEMMA GetEntryStep ==
    ASSUME MapInv, NEW k \in Key, GetEntry(k)
    PROVE  StepOK
<1>1. GetValue(k).found /\ Put(k, GetValue(k).rec, GetValue(k).val)
    BY DEF GetEntry
<1> DEFINE rec == GetValue(k).rec  v == GetValue(k).val
<1>2. rec \in Record /\ rec.ptr # Null /\ Pointing(rec) /\ v \in Value
      /\ \A f \in 0..(Depth - 1) : At(f, k).ptr # rec.ptr
    BY <1>1, GetGives
<1>3. Depth = 1 => v = Work[k]
    BY <1>1, GetMeans
<1>4. rec.type # "MAX"
    BY <1>2 DEF Pointing
<1>5. Put(k, rec, v)
    BY <1>1
<1> HIDE DEF rec, v
<1> QED
    BY <1>2, <1>3, <1>4, <1>5, PutStep, Zenon

\* A caller that changes what it was given changes that entry of its frame.
LEMMA ChangeEntryStep ==
    ASSUME MapInv, NEW k \in Key, ChangeEntry(k)
    PROVE  StepOK
<1>1. GetValue(k).found /\ Put(k, GetValue(k).rec, Changed(GetValue(k).val))
    BY DEF ChangeEntry
<1> DEFINE rec == GetValue(k).rec  v == GetValue(k).val
<1>2. rec \in Record /\ rec.ptr # Null /\ Pointing(rec) /\ v \in Value
      /\ \A f \in 0..(Depth - 1) : At(f, k).ptr # rec.ptr
    BY <1>1, GetGives, Zenon
<1>3. Depth = 1 => v = Work[k] /\ Work[k] # NoEntry
    BY <1>1, GetMeans
<1>4. rec.type # "MAX"
    BY <1>2 DEF Pointing
<1>5. Put(k, rec, Changed(v))
    BY <1>1
<1> HIDE DEF rec, v
<1>6. Changed(v) \in Value
    BY <1>2, MapConstants DEF Changed, Value
<1> QED
    BY <1>2, <1>3, <1>4, <1>5, <1>6, PutStep, Zenon

\* AddEntry makes an entry where none is seen.
LEMMA AddEntryStep ==
    ASSUME MapInv, NEW k \in Key, AddEntry(k)
    PROVE  StepOK
<1> DEFINE rec == [type |-> "MOD", ptr |-> Fresh(k)]
<1>1. ~GetValue(k).found /\ Put(k, rec, 0)
    BY DEF AddEntry
<1>2. Fresh(k) \in Ptr /\ Fresh(k) # Null /\ \A f \in 0..Depth : At(f, k).ptr # Fresh(k)
    BY FreshExists DEF MapInv, Ptr, Null
<1>3. \A f \in 0..(Depth - 1) : f \in 0..Depth
    BY Shape DEF MapInv
<1>4. rec \in Record /\ Pointing(rec) /\ rec.type # "MAX" /\ rec.ptr # Null
      /\ \A f \in 0..(Depth - 1) : At(f, k).ptr # rec.ptr
    BY <1>2, <1>3 DEF Record, Pointing
<1>5. Depth = 1 => Work[k] = NoEntry
    BY <1>1, GetMeans
<1>6. 0 \in Value
    BY MapConstants DEF Value
<1> HIDE DEF rec
<1> QED
    BY <1>1, <1>4, <1>5, <1>6, PutStep, Zenon

\* Del leaves a mark.
LEMMA DelStep ==
    ASSUME MapInv, NEW k \in Key, Del(k)
    PROVE  StepOK
<1>1. Put(k, Deleted, 0) /\ 0 \in Value
    BY MapConstants DEF Del, Value
<1>2. Deleted \in Record /\ Pointing(Deleted) /\ Deleted.type # "MAX" /\ Deleted.ptr = Null
    BY DEF Deleted, Record, Pointing
<1> QED
    BY <1>1, <1>2, PutStep

\* The levels of the buffers: the storage, or one of the frames.
LEMMA Levels ==
    ASSUME NEW S, NEW fs \in Seq(S), NEW f \in 0..Len(fs)
    PROVE  f = 0 \/ f \in 1..Len(fs)
    OBVIOUS

\* A step that moves records only: the objects of those that are left stay.
LEMMA Moved ==
    ASSUME MapInv, NEW fs \in Seq([Key -> Record]), Len(fs) \in 1..MaxDepth,
           stor' \in [Key -> Record], frames' = fs, db' = db,
           heap' = heap \/ heap' = Collected(heap, stor', fs),
           \A q \in Key : \A f \in 0..Len(fs) : Pointing(At(f, q)'),
           \A q \in Key : \A f, g \in 0..Len(fs) :
              f # g /\ At(f, q)'.ptr = At(g, q)'.ptr => At(f, q)'.ptr = Null
    PROVE  /\ MapInv' /\ Depth' = Len(fs)
           /\ \A q \in Key : \A f \in 0..Len(fs) :
                 At(f, q)'.ptr # Null => heap'[q][At(f, q)'.ptr] = heap[q][At(f, q)'.ptr]
<1>1. Depth' = Len(fs)
    BY DEF Depth
<1>2. heap \in [Key -> [Ptr -> Value]] /\ heap' \in [Key -> [Ptr -> Value]]
    BY CollectedKeeps DEF MapInv, TypeOK
<1>3. TypeOK'
    BY <1>1, <1>2 DEF MapInv, TypeOK
<1>4. MapInv'
    BY <1>1, <1>3 DEF MapInv, NoAlias
<1>5. ASSUME NEW q \in Key, NEW f \in 0..Len(fs), At(f, q)'.ptr # Null
      PROVE  heap'[q][At(f, q)'.ptr] = heap[q][At(f, q)'.ptr]
  <2>1. DOMAIN fs = 1..Len(fs) /\ \A e \in 1..Len(fs) : fs[e] \in [Key -> Record]
    OBVIOUS
  <2> f = 0 \/ f \in 1..Len(fs)
    BY Levels, Zenon
  <2>2. At(f, q)' \in Record
    BY <1>5, <2>1 DEF At
  <2>3. At(f, q)'.ptr \in Ptr
    BY <1>5, <2>2 DEF Record
  <2>4. At(f, q)'.ptr \in Pointers(stor', fs, q)
    <3>1. CASE f = 0
        BY <3>1 DEF Pointers, At
    <3>2. CASE f # 0
      <4>1. f \in DOMAIN fs
        BY <2>1, <3>2, Zenon
      <4> QED
        BY <3>2, <4>1, Zenon DEF Pointers, At
    <3> QED
        BY <3>1, <3>2, Zenon
  <2>5. Collected(heap, stor', fs)[q][At(f, q)'.ptr] = heap[q][At(f, q)'.ptr]
    BY <1>2, <2>3, <2>4, CollectedKeeps
  <2>6. CASE heap' = heap
    BY <2>6, Zenon
  <2>7. CASE heap' = Collected(heap, stor', fs)
    BY <2>5, <2>7, Zenon
  <2> QED
    BY <2>6, <2>7, Zenon
<1> QED
    BY <1>1, <1>4, <1>5, Zenon

\* The marks an empty buffer consists of.
LEMMA UnsetPoints == Unset \in Record /\ Pointing(Unset) /\ Unset.ptr = Null
                     /\ Empty \in [Key -> Record]
    BY DEF Unset, Record, Pointing, Empty

\* NewStackFrameEnv puts an empty buffer on top.
LEMMA NewStackFrameEnvStep ==
    ASSUME MapInv, NewStackFrameEnv
    PROVE  StepOK
<1>1. Depth < MaxDepth /\ frames' = Append(frames, Empty) /\ UNCHANGED <<db, heap, stor>>
    BY DEF NewStackFrameEnv
<1> DEFINE d == Depth  fs == Append(frames, Empty)
<1>2. d \in Nat \ {0} /\ MaxDepth \in Nat /\ Len(frames) = d
    BY Shape DEF MapInv, Depth
<1>3. frames \in Seq([Key -> Record]) /\ stor \in [Key -> Record]
    BY DEF MapInv, TypeOK
<1> HIDE DEF d
<1>4. fs \in Seq([Key -> Record]) /\ Len(fs) = d + 1 /\ fs[d + 1] = Empty
      /\ \A f \in 1..d : fs[f] = frames[f]
    BY <1>2, <1>3, UnsetPoints
<1>5. \A q \in Key : \A f \in 0..(d + 1) :
        At(f, q)' = IF f = d + 1 THEN Unset ELSE At(f, q)
    BY <1>1, <1>2, <1>4 DEF At, Empty
<1>6. \A f \in 0..(d + 1) : f # d + 1 => f \in 0..d
    BY <1>2
<1>7. \A q \in Key : \A f \in 0..(d + 1) : Pointing(At(f, q)')
    BY <1>5, <1>6, UnsetPoints DEF MapInv, d
<1>8. \A q \in Key : \A f, g \in 0..(d + 1) :
        f # g /\ At(f, q)'.ptr = At(g, q)'.ptr => At(f, q)'.ptr = Null
    BY <1>5, <1>6, UnsetPoints DEF MapInv, NoAlias, d
<1>9. Len(fs) \in 1..MaxDepth
    BY <1>1, <1>2, <1>4 DEF d
<1> HIDE DEF fs
<1>10. MapInv' /\ Depth' = d + 1
    BY <1>1, <1>3, <1>4, <1>7, <1>8, <1>9, Moved, Zenon DEF fs
<1>11. \A f \in 0..d : Kept(f)
    BY <1>1, <1>2, <1>5 DEF Kept
<1>12. ChangesBelow
    BY <1>2, <1>11, KeptHeld DEF ChangesBelow, d
<1>13. Base' = Base /\ Work' = Work
    BY <1>1, <1>2, <1>11, BaseKept, WorkKept
<1> QED
    BY <1>1, <1>10, <1>12, <1>13 DEF StepOK, Abstract!MapNext, Abstract!Begin, d

\* DropFrame takes the top buffer away.
LEMMA DropFrameStep ==
    ASSUME MapInv, DropFrame
    PROVE  StepOK
<1> DEFINE d == Depth  fs == SubSeq(frames, 1, d - 1)
<1>1. d > 1 /\ frames' = fs /\ heap' = Collected(heap, stor, fs) /\ UNCHANGED <<db, stor>>
    BY DEF DropFrame
<1>2. d \in Nat \ {0} /\ MaxDepth \in Nat /\ d <= MaxDepth /\ Len(frames) = d
    BY Shape DEF MapInv, Depth
<1>3. frames \in Seq([Key -> Record]) /\ stor \in [Key -> Record]
    BY DEF MapInv, TypeOK
<1> HIDE DEF d
<1>4. fs \in Seq([Key -> Record]) /\ Len(fs) = d - 1 /\ \A f \in 1..(d - 1) : fs[f] = frames[f]
    BY <1>1, <1>2, <1>3
<1>5. \A q \in Key : \A f \in 0..(d - 1) : At(f, q)' = At(f, q)
    BY <1>1, <1>2, <1>4 DEF At
<1>6. \A f \in 0..(d - 1) : f \in 0..d
    BY <1>2
<1>7. \A q \in Key : \A f \in 0..(d - 1) : Pointing(At(f, q)')
    BY <1>5, <1>6 DEF MapInv, d
<1>8. \A q \in Key : \A f, g \in 0..(d - 1) :
        f # g /\ At(f, q)'.ptr = At(g, q)'.ptr => At(f, q)'.ptr = Null
    BY <1>5, <1>6 DEF MapInv, NoAlias, d
<1>9. Len(fs) \in 1..MaxDepth
    BY <1>1, <1>2, <1>4
<1> HIDE DEF fs
<1>10. MapInv' /\ Depth' = d - 1
       /\ \A q \in Key : \A f \in 0..(d - 1) :
             At(f, q)'.ptr # Null => heap'[q][At(f, q)'.ptr] = heap[q][At(f, q)'.ptr]
    BY <1>1, <1>3, <1>4, <1>7, <1>8, <1>9, Moved, Zenon
<1>11. \A f \in 0..(d - 1) : Kept(f)
    BY <1>5, <1>10 DEF Kept
<1>12. ChangesBelow
    BY <1>2, <1>11, KeptHeld DEF ChangesBelow, d
<1>13. Base' = Base /\ Work' = Work
    BY <1>1, <1>2, <1>11, BaseKept, WorkKept
<1> QED
    BY <1>1, <1>10, <1>12, <1>13 DEF StepOK, Abstract!MapNext, Abstract!End, d

\* ClearChangeBuf takes the changes back.
LEMMA ClearStep ==
    ASSUME MapInv, ClearChangeBuf
    PROVE  StepOK
<1> DEFINE d == Depth  fs == [frames EXCEPT ![d] = Empty]
<1>1. frames' = fs /\ heap' = Collected(heap, stor, fs) /\ UNCHANGED <<db, stor>>
    BY DEF ClearChangeBuf
<1>2. d \in Nat \ {0} /\ MaxDepth \in Nat /\ d <= MaxDepth /\ Len(frames) = d
    BY Shape DEF MapInv, Depth
<1>3. frames \in Seq([Key -> Record]) /\ stor \in [Key -> Record]
    BY DEF MapInv, TypeOK
<1> HIDE DEF d
<1>4. fs \in Seq([Key -> Record]) /\ Len(fs) = d /\ fs[d] = Empty
      /\ \A f \in 1..d : f # d => fs[f] = frames[f]
    BY <1>2, <1>3, UnsetPoints
<1>5. \A q \in Key : \A f \in 0..d : At(f, q)' = IF f = d THEN Unset ELSE At(f, q)
    BY <1>1, <1>2, <1>4 DEF At, Empty
<1>6. \A q \in Key : \A f \in 0..d : Pointing(At(f, q)')
    BY <1>5, UnsetPoints DEF MapInv, d
<1>7. \A q \in Key : \A f, g \in 0..d :
        f # g /\ At(f, q)'.ptr = At(g, q)'.ptr => At(f, q)'.ptr = Null
    BY <1>5, UnsetPoints DEF MapInv, NoAlias, d
<1>8. Len(fs) \in 1..MaxDepth
    BY <1>2, <1>4
<1> HIDE DEF fs
<1>9. MapInv' /\ Depth' = d
      /\ \A q \in Key : \A f \in 0..d :
            At(f, q)'.ptr # Null => heap'[q][At(f, q)'.ptr] = heap[q][At(f, q)'.ptr]
    BY <1>1, <1>3, <1>4, <1>6, <1>7, <1>8, Moved, Zenon
<1>10. \A f \in 0..(d - 1) : Kept(f)
  <2>1. \A f \in 0..(d - 1) : f \in 0..d /\ f # d
    BY <1>2
  <2> QED
    BY <1>5, <1>9, <2>1, Zenon DEF Kept
<1>11. ChangesBelow
    BY <1>10, KeptHeld DEF ChangesBelow, d
<1>12. Base' = Base
    BY <1>1, <1>2, <1>10, BaseKept
<1>13. CASE d > 1
  <2>1. Kept(0) /\ Kept(1)
    BY <1>2, <1>10, <1>13
  <2>2. Work' = Work
    BY <1>1, <2>1, WorkKept
  <2> QED
    BY <1>9, <1>11, <1>12, <2>2 DEF StepOK, Abstract!mapVars, d
<1>14. CASE d = 1
  <2>1. \A q \in Key : frames'[1][q] = Unset
    BY <1>1, <1>4, <1>14 DEF Empty
  <2>2. \A q \in Key : Work'[q] = Base'[q]
    BY <2>1 DEF Work, Seen, Unset
  <2>3. Work' = Base
    BY <1>12, <2>2, Zenon DEF Work, Base
  <2> QED
    BY <1>9, <1>11, <1>12, <1>14, <2>3 DEF StepOK, Abstract!MapNext, Abstract!Discard, d
<1> QED
    BY <1>2, <1>13, <1>14

\* Commit moves the records of the top buffer one frame down.
LEMMA CommitStep ==
    ASSUME MapInv, Commit
    PROVE  StepOK
<1> DEFINE d == Depth
           data == Merged(Data(d), frames[d])
           s == IF d = 1 THEN data ELSE stor
           fs == [f \in 1..d |-> IF f = d THEN Empty ELSE IF f = d - 1 THEN data ELSE frames[f]]
<1>1. stor' = s /\ frames' = fs /\ heap' = Collected(heap, s, fs) /\ db' = db
    BY DEF Commit, CommitWith
<1>2. d \in Nat \ {0} /\ MaxDepth \in Nat /\ d <= MaxDepth
      /\ \A f \in 1..d : frames[f] \in [Key -> Record]
    BY Shape DEF MapInv
<1>3. stor \in [Key -> Record]
    BY DEF MapInv, TypeOK
<1> HIDE DEF d
<1>4. Data(d) \in [Key -> Record] /\ \A q \in Key : Data(d)[q] = At(d - 1, q)
    BY <1>2, <1>3, SMTT(20), Z3T(20) DEF Data, At
<1>5. \A q \in Key : frames[d][q] = At(d, q)
    BY <1>2 DEF At
<1>6. data \in [Key -> Record]
      /\ \A q \in Key : data[q] = IF At(d, q).type = "MAX" THEN At(d - 1, q) ELSE At(d, q)
    BY <1>2, <1>4, <1>5 DEF Merged
<1> HIDE DEF data
<1>7. s \in [Key -> Record] /\ fs \in Seq([Key -> Record]) /\ Len(fs) = d
    BY <1>2, <1>3, <1>6, UnsetPoints
<1>8. \A q \in Key : \A f \in 0..d :
        At(f, q)' = IF f = d THEN Unset ELSE IF f = d - 1 THEN data[q] ELSE At(f, q)
    BY <1>1, <1>2 DEF At, Empty
<1>9. d \in 0..d /\ d - 1 \in 0..d /\ d - 1 # d /\ Len(fs) \in 1..MaxDepth
    BY <1>2, <1>7
<1>10. \A q \in Key : \A f \in 0..d : Pointing(At(f, q)')
    BY <1>6, <1>8, <1>9, UnsetPoints DEF MapInv, d
<1>11. \A q \in Key : \A f, g \in 0..d :
        f # g /\ At(f, q)'.ptr = At(g, q)'.ptr => At(f, q)'.ptr = Null
  <2>1. SUFFICES ASSUME NEW q \in Key, NEW f \in 0..d, NEW g \in 0..d, f # g,
                        At(f, q)'.ptr = At(g, q)'.ptr, f # d, g # d
                 PROVE  At(f, q)'.ptr = Null
    BY <1>8, UnsetPoints
  <2>2. \A e \in 0..d : e # d =>
          At(e, q)' = At(e, q) \/ (e = d - 1 /\ At(e, q)' = At(d, q))
    BY <1>6, <1>8
  <2>3. \A e, o \in 0..d : e # o /\ At(e, q).ptr = At(o, q).ptr => At(e, q).ptr = Null
    BY DEF MapInv, NoAlias, d
  <2> QED
    BY <1>9, <2>1, <2>2, <2>3
<1> HIDE DEF fs, s
<1>12. MapInv' /\ Depth' = d
       /\ \A q \in Key : \A f \in 0..d :
             At(f, q)'.ptr # Null => heap'[q][At(f, q)'.ptr] = heap[q][At(f, q)'.ptr]
    BY <1>1, <1>7, <1>9, <1>10, <1>11, Moved, Zenon
<1>13. \A f \in 0..(d - 1) : f # d - 1 => Kept(f)
  <2>1. \A f \in 0..(d - 1) : f # d - 1 => f \in 0..d /\ f # d
    BY <1>2
  <2> QED
    BY <1>8, <1>12, <2>1 DEF Kept
<1>14. frames'[d] = Empty /\ Len(frames') = d
  <2>1. d \in 1..d
    BY <1>2
  <2>2. fs[d] = Empty
    BY <2>1 DEF fs
  <2> QED
    BY <1>1, <1>7, <2>2, Zenon
<1>15. ChangesBelow
    BY <1>13, <1>14, KeptHeld, Zenon DEF ChangesBelow, d
<1>16. CASE d = 1
  <2>1. \A q \in Key : stor'[q] = data[q] /\ frames'[1][q] = Unset
    BY <1>1, <1>2, <1>16 DEF s, fs, Empty
  <2>2. \A q \in Key : At(0, q) = stor[q] /\ At(1, q) = frames[1][q] /\ At(0, q)' = stor'[q]
    BY DEF At
  <2>3. \A q \in Key : Base'[q] = Work[q]
    <3>1. SUFFICES ASSUME NEW q \in Key PROVE Base'[q] = Work[q]
        OBVIOUS
    <3>2. 0 \in 0..d /\ 1 \in 0..d
        BY <1>16
    <3>3. At(0, q) \in Record /\ Pointing(At(0, q)) /\ At(1, q) \in Record /\ Pointing(At(1, q))
        BY <3>2, Shape DEF MapInv, d
    <3>4. stor'[q] = IF At(1, q).type = "MAX" THEN At(0, q) ELSE At(1, q)
        BY <1>6, <1>16, <2>1
    <3>5. stor'[q].ptr # Null => heap'[q][stor'[q].ptr] = heap[q][stor'[q].ptr]
        BY <1>12, <2>2, <3>2, Zenon
    <3>6. Base'[q] = Seen(q, stor[q], db[q])'
        BY DEF Base
    <3>7. Work[q] = Seen(q, At(1, q), Seen(q, At(0, q), db[q]))
        BY <2>2 DEF Work, Base
    <3>8. CASE At(1, q).type = "MAX"
        BY <1>1, <3>3, <3>4, <3>5, <3>6, <3>7, <3>8 DEF Seen, Pointing, Record
    <3>9. CASE At(1, q).type # "MAX"
        BY <1>1, <3>3, <3>4, <3>5, <3>6, <3>7, <3>9 DEF Seen, Pointing, Record
    <3> QED
        BY <3>8, <3>9
  <2>4. \A q \in Key : Work'[q] = Base'[q]
    BY <2>1 DEF Work, Seen, Unset
  <2>5. Base' = Work /\ Work' = Work
    BY <2>3, <2>4, Zenon DEF Work, Base
  <2> QED
    BY <1>12, <1>15, <1>16, <2>5 DEF StepOK, Abstract!MapNext, Abstract!Submit, d
<1>17. CASE d > 1
  <2>1. Base' = Base
    <3>1. 0 \in 0..(d - 1) /\ 0 # d - 1
        BY <1>2, <1>17
    <3> QED
        BY <1>1, <1>13, <3>1, BaseKept, Zenon
  <2>2. Work' \in [Key -> Value \cup {NoEntry}]
    <3>1. MapInv' => Entries'
        BY MapsTyped, PTL
    <3> QED
        BY <1>12, <3>1 DEF Entries
  <2> QED
    BY <1>12, <1>15, <1>17, <2>1, <2>2, Zenon
    DEF StepOK, Abstract!MapNext, Abstract!TakeOver, Abstract!Maps, d
<1> QED
    BY <1>2, <1>16, <1>17

-----------------------------------------------------------------------------

\* An environment starts with empty buffers.
LEMMA MapStarts == Init => MapInv /\ Abstract!MapInit
<1> SUFFICES ASSUME Init PROVE MapInv /\ Abstract!MapInit
    OBVIOUS
<1>1. Len(frames) = 1 /\ frames[1] = Empty /\ frames \in Seq([Key -> Record]) /\ Depth = 1
    BY UnsetPoints DEF Init, Depth
<1>2. 0 \in Value /\ 1 \in 1..MaxDepth
    BY MapConstants DEF Value
<1>3. TypeOK
    BY <1>1, <1>2, UnsetPoints DEF Init, TypeOK
<1>4. \A q \in Key : \A f \in 0..1 : At(f, q) = Unset
    BY <1>1 DEF Init, At, Empty
<1>5. MapInv
    BY <1>1, <1>3, <1>4, UnsetPoints, Zenon DEF MapInv, NoAlias
<1>6. Base \in [Key -> Value \cup {NoEntry}]
    BY <1>5, MapsTyped DEF Entries
<1>7. \A q \in Key : Work[q] = Base[q]
    BY <1>1 DEF Work, Seen, Empty, Unset
<1>8. Work = Base
    BY <1>7 DEF Work, Base
<1> QED
    BY <1>1, <1>5, <1>6, <1>8 DEF Abstract!MapInit, Abstract!Maps

\* One step per action.
LEMMA NextStep == MapInv /\ Next => StepOK
<1> SUFFICES ASSUME MapInv, Next PROVE StepOK
    OBVIOUS
<1>1. ASSUME NEW k \in Key, GetEntry(k) PROVE StepOK
    BY <1>1, GetEntryStep
<1>2. ASSUME NEW k \in Key, ChangeEntry(k) PROVE StepOK
    BY <1>2, ChangeEntryStep
<1>3. ASSUME NEW k \in Key, AddEntry(k) PROVE StepOK
    BY <1>3, AddEntryStep
<1>4. ASSUME NEW k \in Key, Del(k) PROVE StepOK
    BY <1>4, DelStep
<1>5. CASE Commit
    BY <1>5, CommitStep
<1>6. CASE ClearChangeBuf
    BY <1>6, ClearStep
<1>7. CASE NewStackFrameEnv
    BY <1>7, NewStackFrameEnvStep
<1>8. CASE DropFrame
    BY <1>8, DropFrameStep
<1> QED
    BY <1>1, <1>2, <1>3, <1>4, <1>5, <1>6, <1>7, <1>8 DEF Next

\* A step that leaves everything as it is.
LEMMA Stutter == MapInv /\ UNCHANGED vars => MapInv' /\ UNCHANGED Abstract!mapVars
    BY DEF MapInv, vars, TypeOK, NoAlias, At, Depth, Base, Work, Seen, Pointing, Abstract!mapVars

\* The inductive invariant.
THEOREM MapInvariant == Spec => []MapInv
<1>1. Init => MapInv
    BY MapStarts
<1>2. MapInv /\ [Next]_vars => MapInv'
    BY NextStep, Stutter DEF StepOK
<1> QED
    BY <1>1, <1>2, PTL DEF Spec

\* No two levels of nested environments reach the same object (GetValue copies,
\* the commits clear the buffer they took the pointers from).
THEOREM NoAliasAlways == Spec => []NoAlias
<1>1. MapInv => NoAlias
    BY DEF MapInv
<1> QED
    BY <1>1, MapInvariant, PTL

\* Nothing under the running transaction changes except when it commits.
THEOREM ChangesOnlyAtCommitAlways == Spec => ChangesOnlyAtCommit
<1>1. MapInv /\ [Next]_vars => [ChangesBelow]_vars
    BY NextStep DEF StepOK
<1> QED
    BY <1>1, MapInvariant, PTL DEF Spec, ChangesOnlyAtCommit

\* The buffers of a ledger's environment implement a transactional map, however
\* deep transactions nest.
THEOREM TransactionalAlways == Spec => Transactional
<1>1. Init => Abstract!MapInit
    BY MapStarts
<1>2. MapInv /\ [Next]_vars => [Abstract!MapNext]_(Abstract!mapVars)
    BY NextStep, Stutter DEF StepOK
<1> QED
    BY <1>1, <1>2, MapInvariant, PTL DEF Spec, Transactional, Abstract!MapSpec
=============================================================================

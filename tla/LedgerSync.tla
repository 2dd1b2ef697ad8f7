----------------------------- MODULE LedgerSync -----------------------------
(***************************************************************************)
(* Ledger synchronisation: LedgerManager::OnTimer, OnRequestLedgers,       *)
(* OnReceiveLedgers and RequestConsensusValues of                          *)
(* ledger/ledger_manager.cpp, on one node and its peers.                   *)
(*                                                                         *)
(* The node asks every peer for its next ledger from the timer (main       *)
(* thread), and a peer whose answer it could use for the following ones    *)
(* (network thread).  gmutex_ is released between choosing what to ask for *)
(* and asking.  Connections deliver in order; a lost one loses what was on *)
(* its way, and the peer comes back with another id.                       *)
(*                                                                         *)
(* Time is three events: update_time_ is 30 s old, a probation of 60 s is  *)
(* over, an answer is slow.  send_time_ needs no variable: every request   *)
(* sets update_time_ as well, so whenever OnTimer gets past its first test *)
(* every request is older than 30 s and its send_time_ is reset.           *)
(***************************************************************************)
EXTENDS Integers, Sequences, FiniteSets

CONSTANTS
    Peer,           \* the peers
    Bad,            \* peers whose ledgers this node cannot close
    ahead,          \* a follow-up asks for next .. next + ahead (4 in the code)
    most,           \* ledgers a peer sends at once (5 in the code)
    Start,          \* last ledger of every peer when the node starts
    MaxSeq,         \* bound: last ledger of the chain
    MaxFlight,      \* bound: messages in flight with one peer
    MaxLost         \* bound: lost connections

ASSUME SyncConstants ==
    /\ Bad \subseteq Peer /\ Bad # Peer
    /\ ahead \in Nat /\ most \in Nat /\ MaxSeq \in Nat /\ ahead < most
    /\ Start \in [Peer -> 1..MaxSeq]

VARIABLES
    lcl,            \* last closed ledger of the node
    height,         \* last closed ledger of every peer
    gl,             \* sync_.peers_[p].gl_; the peers asked so far
    probation,      \* peers whose probation_ is not over
    update_due,     \* update_time_ is more than 30 s old
    asking,         \* OnTimer after the lock: peers still to ask, and for what
    follow,         \* OnReceiveLedgers after the lock: the follow-up request
    requests,       \* on their way to a peer, in order
    answers,        \* on their way from a peer, in order
    late,           \* peers that had not answered yet when OnTimer asked again
    lost

sync_vars == <<lcl, height, gl, probation, update_due, asking, follow, requests,
          answers, late, lost>>

Span(b, e) == [begin |-> b, end |-> e]

None == Span(0, 0)

NoFollow == [peers |-> {}, gl |-> None]

Smaller(a, b) == IF a < b THEN a ELSE b

WithGl(p, r) == [q \in DOMAIN gl \cup {p} |-> IF q = p THEN r ELSE gl[q]]

InFlight(p) == Len(requests[p]) + Len(answers[p])

-----------------------------------------------------------------------------
(* The node.                                                               *)

RequestUnrecorded(p, r) ==
    /\ gl' = WithGl(p, None)
    /\ update_due' = FALSE
    /\ requests' = [requests EXCEPT ![p] = Append(@, r)]

\* RequestConsensusValues.
RequestConsensusValues(p, r) ==
    /\ gl' = WithGl(p, r)
    /\ update_due' = FALSE
    /\ requests' = [requests EXCEPT ![p] = Append(@, r)]

OnTimerOnce ==
    /\ asking.peers = {} /\ update_due
    /\ \A p \in Peer : InFlight(p) < MaxFlight
    /\ update_due' = FALSE
    /\ asking' = [peers |-> Peer \ (probation \cup DOMAIN gl),
                  gl |-> Span(lcl + 1, lcl + 1)]
    /\ late' = late \cup {p \in Peer : InFlight(p) > 0 \/ p \in follow.peers}
    /\ UNCHANGED <<lcl, height, gl, probation, follow, requests, answers, lost>>

\* OnTimer under gmutex_: chooses the peers to ask.
OnTimer ==
    /\ asking.peers = {} /\ update_due
    /\ \A p \in Peer : InFlight(p) < MaxFlight
    /\ update_due' = FALSE
    /\ asking' = [peers |-> Peer \ probation, gl |-> Span(lcl + 1, lcl + 1)]
    /\ late' = late \cup {p \in Peer : InFlight(p) > 0 \/ p \in follow.peers}
    /\ UNCHANGED <<lcl, height, gl, probation, follow, requests, answers, lost>>

\* OnTimer after gmutex_: asks them one after the other.
Ask(p) ==
    /\ p \in asking.peers
    /\ asking' = [asking EXCEPT !.peers = @ \ {p}]
    /\ RequestConsensusValues(p, asking.gl)
    /\ UNCHANGED <<lcl, height, probation, follow, answers, late, lost>>

FollowRangeLong(next, max) == Span(next, Smaller(max, next + ahead + 1))

\* What a follow-up asks for.
FollowRange(next, max) == Span(next, Smaller(max, next + ahead))

\* The ledgers of an answer that OnReceiveLedgers closes: from the next one on.
Closable(p, a) ==
    {s \in a.gl.begin .. a.gl.end : s > lcl /\ a.gl.begin <= lcl + 1}

\* OnReceiveLedgers up to the end of gmutex_.
OnReceiveLedgers(p) ==
    LET a == Head(answers[p])
        asked == p \in DOMAIN gl /\ gl[p] = a.gl
        usable == asked /\ Closable(p, a) # {}
        valid == usable /\ p \notin Bad
        next == a.gl.end + 1
    IN  /\ follow.peers = {} /\ answers[p] # <<>>
        /\ answers' = [answers EXCEPT ![p] = Tail(@)]
        /\ gl' = IF p \in DOMAIN gl THEN WithGl(p, None) ELSE gl
        /\ probation' = IF p \in DOMAIN gl /\ (~asked \/ (usable /\ p \in Bad))
                          THEN probation \cup {p} ELSE probation
        /\ lcl' = IF valid THEN a.gl.end ELSE lcl
        /\ follow' = IF valid /\ next <= a.max
                       THEN [peers |-> {p}, gl |-> FollowRange(next, a.max)]
                       ELSE NoFollow
        /\ UNCHANGED <<height, update_due, asking, requests, late, lost>>

\* The rest of OnReceiveLedgers.
FollowUp(p) ==
    /\ p \in follow.peers
    /\ follow' = NoFollow
    /\ RequestConsensusValues(p, follow.gl)
    /\ UNCHANGED <<lcl, height, probation, asking, answers, late, lost>>

\* OnConsent: consensus, on the main thread, closes the next ledger.
OnConsent ==
    /\ asking.peers = {}
    /\ \E p \in Peer \ Bad : height[p] > lcl
    /\ lcl' = lcl + 1
    /\ update_due' = FALSE
    /\ UNCHANGED <<height, gl, probation, asking, follow, requests, answers, late, lost>>

-----------------------------------------------------------------------------
(* The peers.                                                              *)

RefusesRange(p, r) == r.end - r.begin + 1 > most \/ r.end < r.begin

\* OnRequestLedgers returns without an answer.
Refuses(p, r) ==
    \/ r.end - r.begin + 1 > most
    \/ r.end < r.begin
    \/ height[p] < r.end

\* OnRequestLedgers: no answer at all when it refuses.
OnRequestLedgers(p) ==
    LET r == Head(requests[p]) IN
    /\ requests[p] # <<>>
    /\ requests' = [requests EXCEPT ![p] = Tail(@)]
    /\ answers' = IF Refuses(p, r) THEN answers
                  ELSE [answers EXCEPT ![p] = Append(@, [gl |-> r, max |-> height[p]])]
    /\ UNCHANGED <<lcl, height, gl, probation, update_due, asking, follow, late, lost>>

PeerCloses(p) ==
    /\ height[p] < MaxSeq
    /\ height' = [height EXCEPT ![p] = @ + 1]
    /\ UNCHANGED <<lcl, gl, probation, update_due, asking, follow, requests, answers,
                   late, lost>>

-----------------------------------------------------------------------------
(* Time and the network.                                                   *)

UpdateDue ==
    /\ ~update_due /\ asking.peers = {}
    /\ update_due' = TRUE
    /\ UNCHANGED <<lcl, height, gl, probation, asking, follow, requests, answers, late, lost>>

ProbationOver(p) ==
    /\ p \in probation
    /\ probation' = probation \ {p}
    /\ UNCHANGED <<lcl, height, gl, update_due, asking, follow, requests, answers, late, lost>>

\* The peer of the new connection is one that has not been asked anything.
Reconnect(p) ==
    /\ lost < MaxLost
    /\ lost' = lost + 1
    /\ requests' = [requests EXCEPT ![p] = <<>>]
    /\ answers' = [answers EXCEPT ![p] = <<>>]
    /\ gl' = [q \in DOMAIN gl \ {p} |-> gl[q]]
    /\ probation' = probation \ {p}
    /\ asking' = [asking EXCEPT !.peers = @ \ {p}]
    /\ follow' = IF p \in follow.peers THEN NoFollow ELSE follow
    /\ UNCHANGED <<lcl, height, update_due, late>>

SyncInit ==
    /\ lcl = 1
    /\ height = Start
    /\ gl = [p \in {} |-> None]
    /\ probation = {}
    /\ update_due = TRUE
    /\ asking = NoFollow
    /\ follow = NoFollow
    /\ requests = [p \in Peer |-> <<>>]
    /\ answers = [p \in Peer |-> <<>>]
    /\ late = {}
    /\ lost = 0

Sync(p) == Ask(p) \/ OnReceiveLedgers(p) \/ FollowUp(p) \/ OnRequestLedgers(p)

SyncNext ==
    \/ OnTimer
    \/ OnConsent
    \/ UpdateDue
    \/ \E p \in Peer : Sync(p) \/ PeerCloses(p) \/ ProbationOver(p) \/ Reconnect(p)

SyncSpec == SyncInit /\ [][SyncNext]_sync_vars

\* Timers and threads run, peers answer, probations end, the honest peers get
\* the whole chain; connections need not last and consensus need not help.
LiveSpec ==
    /\ SyncSpec
    /\ WF_sync_vars(OnTimer) /\ WF_sync_vars(UpdateDue)
    /\ \A p \in Peer :
          /\ WF_sync_vars(Ask(p)) /\ WF_sync_vars(OnReceiveLedgers(p)) /\ WF_sync_vars(FollowUp(p))
          /\ WF_sync_vars(OnRequestLedgers(p)) /\ WF_sync_vars(PeerCloses(p))
          /\ WF_sync_vars(ProbationOver(p))

-----------------------------------------------------------------------------

\* The node never gets ahead of the chain its good peers have, nor does it
\* take a ledger from a peer whose ledgers do not close: CloseLedger only ever
\* runs on the next ledger.
OnlyFromChain == \E p \in Peer \ Bad : lcl <= height[p]

\* A follow-up can be answered: the range it asks for is one that
\* OnRequestLedgers serves (at most five ledgers, not beyond the peer's last).
FollowUpsServed == \A p \in follow.peers : ~Refuses(p, follow.gl)

\* A good peer is only put on probation if the timer asked it again before its
\* answer was in: an answer that comes in time is always the one expected,
\* whatever the two threads do in between.
ProbationDeserved == probation \subseteq Bad \cup late

\* However slow the answers and whichever peer is bad, the node gets the whole
\* chain from the one good peer.
CatchesUp == <>(lcl = MaxSeq)
=============================================================================

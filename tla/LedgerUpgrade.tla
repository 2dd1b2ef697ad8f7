--------------------------- MODULE LedgerUpgrade ---------------------------
(***************************************************************************)
(* glue/ledger_upgrade.cpp with its callers: how the nodes agree to move   *)
(* the ledger to the version that a newer program supports.  A validator   *)
(* that runs such a program announces it; the leader that has heard the    *)
(* same announcement from enough validators proposes the upgrade with the  *)
(* next ledger; the others check the proposal against their own program.   *)
(*                                                                         *)
(* What Pbft decides is external: one value for each sequence, which       *)
(* enough validators have checked.  Time is not kept: a timer may be due   *)
(* and an announcement may have expired at any moment.                     *)
(***************************************************************************)
EXTENDS Broadcast

CONSTANTS Validator,
          Faulty,           \* validators that announce, propose and vote anything
          MaxVersion,       \* the version of the newest program
          Scenario          \* the nodes that run, their connections and the bounds

\* In a scenario some nodes have the newest program to begin with, and the honest
\* nodes are connected without the faulty ones.  It bounds the announcements of each
\* validator (sent), the nodes started again (restarts) and the ledgers (seq).
ASSUME UpgradeConstants ==
    /\ Validator \subseteq Node /\ Validator # {} /\ IsFiniteSet(Validator)
    /\ Faulty \subseteq Validator
    /\ MaxVersion \in Nat \ {0}
    /\ \A s \in Scenario :
          /\ s.live \subseteq Node /\ s.newer \subseteq Node /\ s.link \subseteq s.live \X s.live
          /\ \A e \in s.link : e[1] # e[2] /\ <<e[2], e[1]>> \in s.link
          /\ \A S \in (SUBSET (s.live \ Faulty)) \ {{}} :
                (\A e \in s.link : e[1] \in S => e[2] \in S \cup Faulty) => S = s.live \ Faulty
          /\ s.sent \in Nat /\ s.restarts \in Nat /\ s.seq \in Nat

VARIABLES bound,            \* the scenario
          prog,             \* General::LEDGER_VERSION of the program each node runs
          local,            \* local_state_: the version it announces, 0 if none
          states,           \* current_states_: the version each validator announced
          lcl,              \* the last closed ledger of each node
          posted,           \* calls of LedgerHasUpgrade that wait for the main thread
          chain,            \* the ledgers decided: version, has_ledger_upgrade, upgrade
          proposal,         \* the value that is being voted on
          sent,             \* how many announcements each validator made
          restarts,         \* how often a node was started again
          heard,            \* ghost: the announcements each node has taken
          cut               \* ghost: those made before some node ended

upgradeVars == <<bound, prog, local, states, lcl, posted, chain, proposal>>
vars == <<broadcastVars, upgradeVars, sent, restarts, heard, cut>>

Honest == bound.live \ Faulty
Version == 1..MaxVersion
Message == [from : Validator, version : Version, nonce : Nat \ {0}]
None == [made |-> FALSE, honest |-> TRUE, has |-> FALSE, upgrade |-> 0]

\* Pbft::GetQuorumSize, plus one.
Enough(S) ==
    LET size == Cardinality(Validator)
        fault_number == (size - 1) \div 3
        qsize == IF size = 1 THEN 0 ELSE IF size \in {2, 3} THEN 1
                 ELSE IF size % 3 = 1 THEN 2 * fault_number ELSE 2 * fault_number + 1
    IN  Cardinality(S) >= qsize + 1

\* The faulty validators alone decide nothing.
ASSUME FewFaulty == ~Enough(Faulty)

LclVersion(n) == chain[lcl[n]].version

----------------------------------------------------------------------------

Announcement(n, v) == [from |-> n, version |-> v, nonce |-> sent[n] + 1]

\* Recv keeps the latest announcement of each validator.
Recv(n, st, m) == [st EXCEPT ![n][m.from] = m.version]

\* OnTimer: what is older than five minutes goes; when the last announcement is
\* half a minute old, a validator that has something to announce does (due).
OnTimer(n) ==
    \E old \in SUBSET {v \in Validator : states[n][v] # 0}, due \in BOOLEAN :
        LET left == [states EXCEPT ![n] = [v \in Validator |-> IF v \in old THEN 0 ELSE @[v]]]
            m == Announcement(n, local[n])
        IN  /\ due => local[n] > 0 /\ n \in Validator
            /\ due \/ old # {}
            /\ IF due
               THEN /\ sent[n] < bound.sent
                    /\ Send(n, records[n], m, net)
                    /\ states' = Recv(n, left, m)
                    /\ heard' = [heard EXCEPT ![n] = @ \cup {m}]
                    /\ sent' = [sent EXCEPT ![n] = @ + 1]
               ELSE states' = left /\ UNCHANGED <<link, records, net, forgot, heard, sent>>
            /\ UNCHANGED <<crossed, bound, prog, local, lcl, posted, chain, proposal, restarts, cut>>

\* OnMethodLedgerUpNotify: what a validator announced is passed on and taken, but
\* only once.
OnMethodLedgerUpNotify(p, n, m) ==
    LET copy == <<p, n, m>>
        rs == Add(records[n], m, p)
    IN  /\ copy \in net
        /\ IF IsQueued(records[n], m)
           THEN /\ records' = [records EXCEPT ![n] = rs]
                /\ net' = net \ {copy}
                /\ UNCHANGED <<link, forgot, states, heard>>
           ELSE /\ Send(n, rs, m, net \ {copy})
                /\ states' = Recv(n, states, m)
                /\ heard' = [heard EXCEPT ![n] = @ \cup {m}]
        /\ crossed' = crossed \cup {copy}
        /\ UNCHANGED <<bound, prog, local, lcl, posted, chain, proposal, sent, restarts, cut>>

GetValidMinority(n, v) ==
    2 * Cardinality({m \in Validator : states[n][m] = v}) >= Cardinality(Validator)

\* GetValid: enough validators announced v.
GetValid(n, v) == Enough({m \in Validator : states[n][m] = v})

\* The upgrade that StartConsensus puts into the value of leader n, 0 for none.
Upgrade(n) ==
    LET valid == {v \in Version : GetValid(n, v) /\ LclVersion(n) < v /\ v <= prog[n]}
    IN  IF valid = {} THEN 0 ELSE CHOOSE v \in valid : TRUE

\* A leader that upgrades nothing leaves the field out; a faulty one need not.
Proposed(v, honest) ==
    [made |-> TRUE, honest |-> honest, has |-> (v > 0 \/ ~honest), upgrade |-> v]

\* StartConsensus of a leader.  Which validator leads is left to Pbft.
StartConsensus(n) ==
    /\ n \in Validator /\ lcl[n] = Len(chain) /\ Len(chain) <= bound.seq
    /\ proposal' = Proposed(Upgrade(n), TRUE)
    /\ UNCHANGED <<broadcastVars, bound, prog, local, states, lcl, posted, chain, sent, restarts, heard, cut>>

CheckValueAnyProgram(n, v) == v = 0 \/ LclVersion(n) < v

CheckValueAnyVersion(n, v) == v = 0 \/ v <= prog[n]

\* What CheckValueHelper asks of the upgrade.
CheckValue(n, v) == v = 0 \/ (LclVersion(n) < v /\ v <= prog[n])

\* Pbft commits the value when enough validators have checked it.  A validator
\* that has can check it at any later time until then: its program is replaced
\* by newer ones only.
Decide ==
    /\ proposal # None /\ Len(chain) < bound.seq
    /\ Enough({n \in Validator \cap bound.live :
                  n \in Faulty \/ (lcl[n] = Len(chain) /\ CheckValue(n, proposal.upgrade))})
    /\ chain' = Append(chain, [version |-> IF proposal.upgrade > 0 THEN proposal.upgrade
                                           ELSE chain[Len(chain)].version,
                               has |-> proposal.has, upgrade |-> proposal.upgrade])
    /\ proposal' = None
    /\ UNCHANGED <<broadcastVars, bound, prog, local, states, lcl, posted, sent, restarts, heard, cut>>

\* CloseLedger, by consensus or by synchronisation: the upgrade is not checked
\* again.  NotifyLedgerClose posts the call of LedgerHasUpgrade.
CloseLedger(n) ==
    /\ lcl[n] < Len(chain)
    /\ lcl' = [lcl EXCEPT ![n] = @ + 1]
    /\ posted' = [posted EXCEPT ![n] = IF chain[lcl[n] + 1].has THEN @ + 1 ELSE @]
    /\ UNCHANGED <<broadcastVars, bound, prog, local, states, chain, proposal, sent, restarts, heard, cut>>

LedgerHasUpgrade(n) ==
    /\ posted[n] > 0
    /\ posted' = [posted EXCEPT ![n] = @ - 1]
    /\ local' = [local EXCEPT ![n] = 0]
    /\ states' = [states EXCEPT ![n] = [v \in Validator |-> 0]]
    /\ UNCHANGED <<broadcastVars, bound, prog, lcl, chain, proposal, sent, restarts, heard, cut>>

\* A node ends and starts, perhaps with a newer program.  It must support the
\* last closed ledger, or Initialize ends the process.
Restart(n, v) ==
    /\ restarts < bound.restarts
    /\ v >= prog[n] /\ LclVersion(n) <= v
    /\ prog' = [prog EXCEPT ![n] = v]
    /\ local' = [local EXCEPT ![n] = IF LclVersion(n) < v THEN v ELSE 0]
    /\ states' = [states EXCEPT ![n] = [m \in Validator |-> 0]]
    /\ posted' = [posted EXCEPT ![n] = 0]
    /\ Disconnected(n)
    /\ cut' = cut \cup UNION {heard[q] : q \in Honest}
    /\ restarts' = restarts + 1
    /\ UNCHANGED <<bound, lcl, chain, proposal, sent, heard>>

\* A faulty validator announces what it likes to whom it likes ...
FaultyAnnounce(f) ==
    /\ sent[f] < bound.sent
    /\ \E v \in Version : \E to \in (SUBSET Peers(f)) \ {{}} :
          net' = net \cup {<<f, p, Announcement(f, v)>> : p \in to}
    /\ sent' = [sent EXCEPT ![f] = @ + 1]
    /\ UNCHANGED <<link, records, crossed, forgot, upgradeVars, restarts, heard, cut>>

\* ... and proposes what it likes.
FaultyPropose ==
    /\ Faulty \cap bound.live # {} /\ Len(chain) < bound.seq
    /\ \E v \in 0..MaxVersion : proposal' = Proposed(v, FALSE)
    /\ UNCHANGED <<broadcastVars, bound, prog, local, states, lcl, posted, chain, sent, restarts, heard, cut>>

OnTimerPeers(n) == OnTimerBroadcast(n) /\ UNCHANGED <<upgradeVars, sent, restarts, heard, cut>>

Init ==
    /\ bound \in Scenario
    /\ BroadcastInit(bound.link)
    /\ prog = [n \in Node |-> IF n \in bound.newer THEN MaxVersion ELSE 1]
    /\ local = [n \in Node |-> IF 1 < prog[n] THEN prog[n] ELSE 0]
    /\ states = [n \in Node |-> [v \in Validator |-> 0]]
    /\ lcl = [n \in Node |-> 1]
    /\ posted = [n \in Node |-> 0]
    /\ chain = <<[version |-> 1, has |-> FALSE, upgrade |-> 0]>>
    /\ proposal = None
    /\ sent = [v \in Validator |-> 0]
    /\ restarts = 0
    /\ heard = [n \in Node |-> {}]
    /\ cut = {}

Next ==
    \/ \E n \in Honest :
          \/ OnTimer(n) \/ OnTimerPeers(n)
          \/ \E c \in net : c[2] = n /\ OnMethodLedgerUpNotify(c[1], n, c[3])
          \/ StartConsensus(n) \/ CloseLedger(n) \/ LedgerHasUpgrade(n)
          \/ \E v \in Version : Restart(n, v)
    \/ Decide
    \/ \E f \in Faulty \cap bound.live : FaultyAnnounce(f)
    \/ FaultyPropose

Spec == Init /\ [][Next]_vars

----------------------------------------------------------------------------

Supporters(v) == Faulty \cup {n \in Validator \ Faulty : prog[n] >= v}

\* A leader proposes an upgrade only when enough validators run a program that
\* supports it, and it raises the version: the proposal finds the votes it
\* needs, and does not hold consensus up (glue/README.md: "After the upgraded
\* verification nodes reach a certain ratio, all verification nodes follow the
\* new version").
ProposalSupported ==
    proposal.upgrade > 0 /\ proposal.honest
        => Enough(Supporters(proposal.upgrade)) /\ chain[Len(chain)].version < proposal.upgrade

\* Whoever proposed the upgrade, the version of the ledger is one that enough
\* validators can start with: after Initialize has ended the others there are
\* still enough to close ledgers.
EnoughCanStart == \A i \in DOMAIN chain : Enough(Supporters(chain[i].version))

\* An upgrade raises the version, and no ledger carries one that was made before,
\* though announcements of it go on arriving after LedgerHasUpgrade.
UpgradesRaise ==
    \A i \in 2..Len(chain) :
        IF chain[i].upgrade = 0 THEN chain[i].version = chain[i - 1].version
        ELSE chain[i].upgrade = chain[i].version /\ chain[i - 1].version < chain[i].version

\* When no copy of an announcement is on its way, every node has taken it, unless
\* one has ended since it was made: Add and Send lose no recipient.
FloodReaches ==
    \A m \in (UNION {heard[n] : n \in Honest}) \ cut :
        (\A c \in net : c[3] = m => c[2] \in Faulty) => \A n \in Honest : m \in heard[n]

\* A node that runs a newer program than its ledger needs announces it.  NOT an
\* invariant: LedgerHasUpgrade clears the announcement also when the upgrade was
\* to an older version than the node's program supports, or to none at all, and
\* only a restart sets it again.
KeepsAnnouncing ==
    \A n \in Honest : posted[n] = 0 /\ LclVersion(n) < prog[n] => local[n] = prog[n]
=============================================================================

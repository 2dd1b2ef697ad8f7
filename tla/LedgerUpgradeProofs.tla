------------------------ MODULE LedgerUpgradeProofs -------------------------
(***************************************************************************)
(* Proofs about LedgerUpgrade, for any validators, network and programs.   *)
(*                                                                         *)
(* What makes an upgrade safe is that programs are replaced by newer ones  *)
(* only: whatever a correct validator announced, wherever the announcement *)
(* is by now, its program supports (Truthful).  So the set of those who    *)
(* announced a version, or checked a proposal of it, is part of the set of *)
(* those that can run it.                                                  *)
(***************************************************************************)
EXTENDS LedgerUpgrade, FiniteSetTheorems, TLAPS

\* The provers of a leaf that names none.
USE SMT, Zenon, Z3T(20)

Ledger == [version : Version, has : BOOLEAN, upgrade : 0..MaxVersion]
Proposal == [made : BOOLEAN, honest : BOOLEAN, has : BOOLEAN, upgrade : 0..MaxVersion]

Typed ==
    /\ bound \in Scenario
    /\ prog \in [Node -> Version]
    /\ local \in [Node -> 0..MaxVersion]
    /\ states \in [Node -> [Validator -> 0..MaxVersion]]
    /\ sent \in [Validator -> Nat]
    /\ net \subseteq Node \X Node \X Message
    /\ proposal \in Proposal
    /\ chain \in Seq(Ledger) /\ Len(chain) >= 1
    /\ lcl \in [Node -> Nat \ {0}] /\ \A n \in Node : lcl[n] <= Len(chain)

Truthful ==
    /\ \A n \in Node : local[n] <= prog[n]
    /\ \A x \in net : x[3].from \in Faulty \/ x[3].version <= prog[x[3].from]
    /\ \A n \in Node : \A v \in Validator \ Faulty : states[n][v] <= prog[v]

IInv == Typed /\ Truthful /\ ProposalSupported /\ EnoughCanStart /\ UpgradesRaise

----------------------------------------------------------------------------

\* More validators are enough when fewer are (Pbft::GetQuorumSize is a bound on
\* a number).
LEMMA EnoughMono ==
    ASSUME NEW S, NEW T, S \subseteq T, T \subseteq Validator, Enough(S)
    PROVE  Enough(T)
<1>1. IsFiniteSet(T)
    BY UpgradeConstants, FS_Subset
<1>2. Cardinality(S) <= Cardinality(T) /\ Cardinality(S) \in Nat /\ Cardinality(T) \in Nat
    BY <1>1, FS_Subset, FS_CardinalityType
<1>3. Cardinality(Validator) \in Nat
    BY UpgradeConstants, FS_CardinalityType
<1> QED
    BY <1>2, <1>3 DEF Enough

\* All the validators are enough.
LEMMA AllEnough == Enough(Validator)
<1>1. Cardinality(Validator) \in Nat /\ Cardinality(Validator) # 0
    BY UpgradeConstants, FS_CardinalityType, FS_EmptySet
<1> QED
    BY <1>1 DEF Enough

\* What a program supports a newer one supports.
LEMMA SupportersStay ==
    ASSUME Typed, Typed', \A n \in Node : prog[n] <= prog'[n], NEW v \in Nat,
           Enough(Supporters(v))
    PROVE  Enough(Supporters(v))'
<1>1. Validator \subseteq Node /\ Faulty \subseteq Validator
    BY UpgradeConstants
<1>2. prog \in [Node -> Version] /\ prog' \in [Node -> Version]
    BY DEF Typed
<1>3. Supporters(v) \subseteq Supporters(v)' /\ Supporters(v)' \subseteq Validator
    BY <1>1, <1>2, UpgradeConstants DEF Supporters, Version
<1>4. Enough(Supporters(v)')
    BY <1>3, EnoughMono
<1> QED
    BY <1>4 DEF Enough

\* The properties that speak of the chain and the proposal only hold on when
\* neither changes and programs are replaced by newer ones.
LEMMA ChainStays ==
    ASSUME IInv, Typed', \A n \in Node : prog[n] <= prog'[n],
           chain' = chain, proposal' = proposal
    PROVE  (ProposalSupported /\ EnoughCanStart /\ UpgradesRaise)'
<1>1. ProposalSupported'
  <2>1. SUFFICES ASSUME proposal.upgrade > 0 /\ proposal.honest
                 PROVE  Enough(Supporters(proposal.upgrade))' /\ chain[Len(chain)].version < proposal.upgrade
    BY DEF ProposalSupported, Enough, Supporters
  <2>2. Enough(Supporters(proposal.upgrade)) /\ chain[Len(chain)].version < proposal.upgrade
    BY <2>1 DEF IInv, ProposalSupported
  <2>3. proposal.upgrade \in Nat
    BY UpgradeConstants DEF IInv, Typed, Proposal
  <2>4. Enough(Supporters(proposal.upgrade))'
    BY <2>2, <2>3, SupportersStay DEF IInv, Enough, Supporters
  <2> QED
    BY <2>2, <2>4
<1>2. EnoughCanStart'
  <2>1. SUFFICES ASSUME NEW i \in DOMAIN chain PROVE Enough(Supporters(chain[i].version))'
    BY DEF EnoughCanStart
  <2>2. Enough(Supporters(chain[i].version))
    BY DEF IInv, EnoughCanStart
  <2>3. chain[i] \in Ledger
    BY DEF IInv, Typed
  <2>4. chain[i].version \in Nat
    BY <2>3 DEF Ledger, Version
  <2> QED
    BY <2>2, <2>4, SupportersStay DEF IInv, Enough, Supporters
<1>3. UpgradesRaise'
    BY DEF IInv, UpgradesRaise
<1> QED
    BY <1>1, <1>2, <1>3

\* A step that leaves programs, chain and proposal alone.
LEMMA QuietStep ==
    ASSUME IInv, Typed', Truthful', prog' = prog, chain' = chain, proposal' = proposal
    PROVE  IInv'
<1>1. \A n \in Node : prog[n] <= prog'[n]
  <2>1. prog \in [Node -> Version]
    BY DEF IInv, Typed
  <2> QED
    BY <2>1 DEF Version
<1> QED
    BY <1>1, ChainStays DEF IInv

----------------------------------------------------------------------------

\* The initial states: one ledger of version 1, nothing announced.
LEMMA InitInvariant == Init => IInv
<1> SUFFICES ASSUME Init PROVE IInv
    OBVIOUS
<1>1. MaxVersion \in Nat \ {0} /\ Validator \subseteq Node /\ Faulty \subseteq Validator
    BY UpgradeConstants
<1>2. prog \in [Node -> Version] /\ local \in [Node -> 0..MaxVersion]
      /\ \A n \in Node : local[n] <= prog[n]
    BY <1>1 DEF Init, Version
<1>3. chain = <<[version |-> 1, has |-> FALSE, upgrade |-> 0]>>
      /\ chain \in Seq(Ledger) /\ Len(chain) = 1 /\ chain[1].version = 1
    BY <1>1 DEF Init, Ledger, Version
<1>4. proposal \in Proposal /\ proposal.upgrade = 0
    BY <1>1 DEF Init, None, Proposal
<1>5. Typed
    BY <1>1, <1>2, <1>3, <1>4 DEF Init, BroadcastInit, Typed
<1>6. Truthful
    BY <1>1, <1>2 DEF Init, BroadcastInit, Truthful, Version
<1>7. Supporters(1) = Validator
    BY <1>1, <1>2 DEF Supporters, Version
<1>8. EnoughCanStart
    BY <1>3, <1>7, AllEnough DEF EnoughCanStart
<1>9. ProposalSupported /\ UpgradesRaise
    BY <1>3, <1>4 DEF ProposalSupported, UpgradesRaise
<1> QED
    BY <1>5, <1>6, <1>8, <1>9 DEF IInv

\* The nodes that run are nodes.
LEMMA LiveNodes == Typed => bound.live \subseteq Node
    BY UpgradeConstants DEF Typed

\* OnTimer announces what the program supports, and forgets.
LEMMA OnTimerInvariant ==
    ASSUME IInv, NEW n \in Honest, OnTimer(n)
    PROVE  IInv'
<1>1. n \in Node /\ n \notin Faulty /\ Validator \subseteq Node
    BY LiveNodes, UpgradeConstants DEF IInv, Honest
<1>2. prog' = prog /\ local' = local /\ bound' = bound /\ lcl' = lcl
      /\ chain' = chain /\ proposal' = proposal
    BY DEF OnTimer
<1>3. PICK old \in SUBSET {v \in Validator : states[n][v] # 0}, due \in BOOLEAN :
        LET left == [states EXCEPT ![n] = [v \in Validator |-> IF v \in old THEN 0 ELSE @[v]]]
            m == Announcement(n, local[n])
        IN  IF due
            THEN /\ local[n] > 0 /\ n \in Validator
                 /\ Send(n, records[n], m, net)
                 /\ states' = Recv(n, left, m)
                 /\ sent' = [sent EXCEPT ![n] = @ + 1]
            ELSE states' = left /\ UNCHANGED <<net, sent>>
    BY Zenon DEF OnTimer
<1> DEFINE left == [states EXCEPT ![n] = [v \in Validator |-> IF v \in old THEN 0 ELSE @[v]]]
           m == Announcement(n, local[n])
<1>4. /\ left \in [Node -> [Validator -> 0..MaxVersion]]
      /\ \A k \in Node : \A v \in Validator \ Faulty : left[k][v] <= prog[v]
  <2>1. states \in [Node -> [Validator -> 0..MaxVersion]] /\ prog \in [Node -> Version]
        /\ MaxVersion \in Nat
    BY UpgradeConstants DEF IInv, Typed
  <2>2. \A k \in Node : \A v \in Validator \ Faulty : states[k][v] <= prog[v]
    BY DEF IInv, Truthful
  <2> QED
    BY <1>1, <2>1, <2>2 DEF Version
<1>5. CASE due
  <2> local[n] > 0 /\ n \in Validator
    BY <1>3, <1>5, Zenon
  <2>1. m \in Message /\ m.from = n /\ m.version = local[n] /\ local[n] <= prog[n]
    <3>1. /\ local[n] \in 0..MaxVersion /\ MaxVersion \in Nat /\ sent[n] \in Nat
          /\ local[n] <= prog[n]
      BY <1>1, <1>5, UpgradeConstants DEF IInv, Typed, Truthful
    <3>2. local[n] \in Version /\ sent[n] + 1 \in Nat \ {0}
      BY <1>5, <3>1 DEF Version
    <3> QED
      BY <1>5, <3>1, <3>2 DEF Announcement, Message
  <2>2. states' = [left EXCEPT ![n][n] = local[n]]
    BY <1>3, <1>5, <2>1 DEF Recv
  <2>3. net' = net \cup {<<n, p, m>> : p \in Recipients(n, records[n], m)}
    BY <1>3, <1>5 DEF Send
  <2>4. Recipients(n, records[n], m) \subseteq Node
    BY DEF Recipients, Peers
  <2>5. local[n] \in 0..MaxVersion /\ sent \in [Validator -> Nat]
    BY <1>1 DEF IInv, Typed
  <2>6. states' \in [Node -> [Validator -> 0..MaxVersion]]
    BY <1>1, <1>4, <1>5, <2>2, <2>5
  <2>7. sent' \in [Validator -> Nat]
    BY <1>3, <1>5, <2>5
  <2>8. net' \subseteq Node \X Node \X Message
    BY <1>1, <2>1, <2>3, <2>4 DEF IInv, Typed
  <2>9. Typed'
    BY <1>2, <2>6, <2>7, <2>8 DEF IInv, Typed
  <2>10. \A x \in net' : x[3].from \in Faulty \/ x[3].version <= prog[x[3].from]
    BY <2>1, <2>3 DEF IInv, Truthful
  <2>11. \A k \in Node : \A v \in Validator \ Faulty : states'[k][v] <= prog[v]
    BY <1>1, <1>4, <1>5, <2>1, <2>2
  <2>12. Truthful'
    BY <1>2, <2>10, <2>11 DEF IInv, Truthful
  <2> QED
    BY <1>2, <2>9, <2>12, QuietStep
<1>6. CASE ~due
  <2>1. states' = left /\ net' = net /\ sent' = sent
    BY <1>3, <1>6
  <2>2. Typed' /\ Truthful'
    BY <1>2, <1>4, <2>1 DEF IInv, Typed, Truthful
  <2> QED
    BY <1>2, <2>2, QuietStep
<1> QED
    BY <1>5, <1>6

\* OnMethodLedgerUpNotify passes on and takes what its sender announced.
LEMMA NotifyInvariant ==
    ASSUME IInv, NEW x \in net, x[2] \in Honest, OnMethodLedgerUpNotify(x[1], x[2], x[3])
    PROVE  IInv'
<1> DEFINE p == x[1]  n == x[2]  m == x[3]
<1>1. x = <<p, n, m>> /\ n \in Node /\ m \in Message
    BY DEF IInv, Typed
<1>2. m.from \in Validator /\ m.version \in 0..MaxVersion
      /\ (m.from \in Faulty \/ m.version <= prog[m.from])
    BY <1>1, UpgradeConstants DEF IInv, Truthful, Message, Version
<1>3. prog' = prog /\ local' = local /\ bound' = bound /\ lcl' = lcl
      /\ chain' = chain /\ proposal' = proposal /\ sent' = sent
    BY DEF OnMethodLedgerUpNotify
<1>4. states' = states \/ states' = [states EXCEPT ![n][m.from] = m.version]
    BY DEF OnMethodLedgerUpNotify, Recv
<1>5. \A y \in net' : y \in net \/ \E q \in Node : y = <<n, q, m>>
  <2>1. CASE IsQueued(records[n], m)
    BY <2>1 DEF OnMethodLedgerUpNotify
  <2>2. CASE ~IsQueued(records[n], m)
    <3>1. net' = (net \ {<<p, n, m>>}) \cup {<<n, q, m>> : q \in Recipients(n, Add(records[n], m, p), m)}
        BY <2>2 DEF OnMethodLedgerUpNotify, Send
    <3>2. Recipients(n, Add(records[n], m, p), m) \subseteq Node
        BY DEF Recipients, Peers
    <3> QED
        BY <3>1, <3>2
  <2> QED
    BY <2>1, <2>2
<1>6. net' \subseteq Node \X Node \X Message
    BY <1>1, <1>5 DEF IInv, Typed
<1>7. \A y \in net' : y[3].from \in Faulty \/ y[3].version <= prog[y[3].from]
    BY <1>2, <1>5 DEF IInv, Truthful
<1>8. states \in [Node -> [Validator -> 0..MaxVersion]]
      /\ \A k \in Node : \A v \in Validator \ Faulty : states[k][v] <= prog[v]
    BY DEF IInv, Typed, Truthful
<1>9. states' \in [Node -> [Validator -> 0..MaxVersion]]
      /\ \A k \in Node : \A v \in Validator \ Faulty : states'[k][v] <= prog[v]
  <2>1. CASE states' = [states EXCEPT ![n][m.from] = m.version]
    <3> HIDE DEF n, m
    <3>1. states' \in [Node -> [Validator -> 0..MaxVersion]]
        BY <1>1, <1>2, <1>8, <2>1
    <3>2. \A k \in Node : \A v \in Validator :
            states'[k][v] = IF k = n /\ v = m.from THEN m.version ELSE states[k][v]
        BY <1>1, <1>2, <1>8, <2>1
    <3> QED
        BY <1>2, <1>8, <3>1, <3>2
  <2> QED
    BY <1>4, <1>8, <2>1
<1>10. Typed' /\ Truthful'
    BY <1>3, <1>6, <1>7, <1>9 DEF IInv, Typed, Truthful
<1> QED
    BY <1>3, <1>10, QuietStep

\* Broadcast::OnTimer drops records only.
LEMMA OnTimerPeersInvariant ==
    ASSUME IInv, NEW n \in Honest, OnTimerPeers(n)
    PROVE  IInv'
<1>1. net' = net /\ UNCHANGED <<upgradeVars, sent>>
    BY DEF OnTimerPeers, OnTimerBroadcast
<1>2. Typed' /\ Truthful'
    BY <1>1 DEF IInv, Typed, Truthful, upgradeVars
<1> QED
    BY <1>1, <1>2, QuietStep DEF upgradeVars

\* StartConsensus proposes what GetValid has enough announcements of.
LEMMA StartConsensusInvariant ==
    ASSUME IInv, NEW n \in Honest, StartConsensus(n)
    PROVE  IInv'
<1> DEFINE u == Upgrade(n)
           announced == {v \in Validator : states[n][v] = u}
<1>1. n \in Node /\ lcl[n] = Len(chain) /\ proposal' = Proposed(u, TRUE)
    BY LiveNodes DEF IInv, Honest, StartConsensus
<1>2. UNCHANGED <<broadcastVars, bound, prog, local, states, lcl, chain, sent>>
    BY DEF StartConsensus
<1>3. u = 0 \/ (u \in Version /\ GetValid(n, u) /\ LclVersion(n) < u)
    BY DEF Upgrade
<1>4. u \in 0..MaxVersion
    BY <1>3, UpgradeConstants DEF Version
<1>5. Typed' /\ Truthful'
  <2>1. proposal' \in Proposal
    BY <1>1, <1>4 DEF Proposed, Proposal
  <2> QED
    BY <1>2, <2>1 DEF IInv, Typed, Truthful, broadcastVars
<1>6. ProposalSupported'
  <2>1. proposal'.upgrade = u
    BY <1>1 DEF Proposed
  <2>2. CASE u = 0
    BY <2>1, <2>2 DEF ProposalSupported
  <2>3. CASE u # 0
    <3>1. Enough(announced) /\ chain[Len(chain)].version < u
        BY <1>1, <1>3, <2>3 DEF GetValid, LclVersion
    <3>2. announced \subseteq Supporters(u)
        BY <1>1 DEF IInv, Truthful, Supporters
    <3>3. Supporters(u) \subseteq Validator
        BY UpgradeConstants DEF Supporters
    <3>4. Enough(Supporters(u))
        BY <3>1, <3>2, <3>3, EnoughMono
    <3> QED
        BY <1>2, <2>1, <3>1, <3>4 DEF ProposalSupported, Enough, Supporters
  <2> QED
    BY <2>2, <2>3
<1>7. EnoughCanStart' /\ UpgradesRaise'
    BY <1>2, Zenon DEF IInv, EnoughCanStart, UpgradesRaise, Enough, Supporters
<1> QED
    BY <1>5, <1>6, <1>7 DEF IInv

\* Decide: of those whose check it takes one at least is correct.
LEMMA DecideInvariant ==
    ASSUME IInv, Decide
    PROVE  IInv'
<1> DEFINE u == proposal.upgrade
           last == chain[Len(chain)]
           new == [version |-> IF u > 0 THEN u ELSE last.version, has |-> proposal.has, upgrade |-> u]
           checked == {n \in Validator \cap bound.live :
                          n \in Faulty \/ (lcl[n] = Len(chain) /\ CheckValue(n, u))}
<1>1. UNCHANGED <<broadcastVars, bound, prog, local, states, lcl, sent>>
      /\ chain' = Append(chain, new) /\ proposal' = None /\ Enough(checked)
    BY DEF Decide
<1>2. chain \in Seq(Ledger) /\ Len(chain) \in Nat \ {0} /\ last \in Ledger
    BY DEF IInv, Typed
<1>3. u \in 0..MaxVersion /\ MaxVersion \in Nat /\ proposal.has \in BOOLEAN
    BY UpgradeConstants DEF IInv, Typed, Proposal
<1>4. new \in Ledger
    BY <1>2, <1>3 DEF Ledger, Version
<1>5. /\ chain' \in Seq(Ledger) /\ Len(chain') = Len(chain) + 1
      /\ chain'[Len(chain) + 1] = new /\ \A i \in 1..Len(chain) : chain'[i] = chain[i]
  <2> HIDE DEF new
  <2> QED
    BY <1>1, <1>2, <1>4
<1>6. Typed' /\ Truthful'
  <2>1. proposal' \in Proposal
    BY <1>1, <1>3 DEF None, Proposal
  <2>2. lcl' \in [Node -> Nat \ {0}] /\ \A n \in Node : lcl'[n] <= Len(chain')
    BY <1>1, <1>2, <1>5 DEF IInv, Typed
  <2> QED
    BY <1>1, <1>2, <1>5, <2>1, <2>2 DEF IInv, Typed, Truthful, broadcastVars
<1>7. ProposalSupported'
    BY <1>1 DEF None, ProposalSupported
<1>8. checked \subseteq Validator /\ Faulty \subseteq Validator
    BY UpgradeConstants
<1>9. u > 0 => last.version < u /\ Enough(Supporters(u))
  <2>1. SUFFICES ASSUME u > 0 PROVE last.version < u /\ Enough(Supporters(u))
    OBVIOUS
  <2>2. PICK n \in checked : n \notin Faulty
    BY <1>1, <1>8, EnoughMono, FewFaulty
  <2>3. last.version < u
    BY <2>1, <2>2 DEF CheckValue, LclVersion
  <2>4. checked \subseteq Supporters(u) /\ Supporters(u) \subseteq Validator
    <3>1. prog \in [Node -> Version] /\ Validator \subseteq Node
        BY UpgradeConstants DEF IInv, Typed
    <3> QED
        BY <1>3, <1>8, <2>1, <3>1 DEF CheckValue, Supporters, Version
  <2> QED
    BY <1>1, <2>3, <2>4, EnoughMono
<1>10. Enough(Supporters(new.version))
    BY <1>2, <1>3, <1>9 DEF IInv, EnoughCanStart
<1>11. EnoughCanStart'
  <2>1. SUFFICES ASSUME NEW i \in 1..(Len(chain) + 1)
                 PROVE  Enough(Supporters(chain'[i].version))
    BY <1>1, <1>5 DEF EnoughCanStart, Enough, Supporters
  <2>2. CASE i = Len(chain) + 1
    BY <1>5, <1>10, <2>2
  <2>3. CASE i # Len(chain) + 1
    BY <1>2, <1>5, <2>3 DEF IInv, EnoughCanStart
  <2> QED
    BY <2>2, <2>3
<1>12. UpgradesRaise'
  <2>1. SUFFICES ASSUME NEW i \in 2..(Len(chain) + 1)
                 PROVE  IF chain'[i].upgrade = 0 THEN chain'[i].version = chain'[i - 1].version
                        ELSE /\ chain'[i].upgrade = chain'[i].version
                             /\ chain'[i - 1].version < chain'[i].version
    BY <1>2, <1>5 DEF UpgradesRaise
  <2>2. CASE i = Len(chain) + 1
    <3>1. chain'[i] = new /\ chain'[i - 1] = last
        BY <1>2, <1>5, <2>2
    <3>2. new.upgrade = u /\ new.version = IF u > 0 THEN u ELSE last.version
        OBVIOUS
    <3> QED
        BY <1>3, <1>9, <3>1, <3>2
  <2>3. CASE i # Len(chain) + 1
    <3>1. i \in 2..Len(chain) /\ chain'[i] = chain[i] /\ chain'[i - 1] = chain[i - 1]
        BY <1>2, <1>5, <2>3
    <3> QED
        BY <3>1 DEF IInv, UpgradesRaise
  <2> QED
    BY <2>2, <2>3
<1> QED
    BY <1>6, <1>7, <1>11, <1>12 DEF IInv

\* CloseLedger moves to the next decided ledger.
LEMMA CloseLedgerInvariant ==
    ASSUME IInv, NEW n \in Honest, CloseLedger(n)
    PROVE  IInv'
<1>1. UNCHANGED <<broadcastVars, bound, prog, local, states, chain, proposal, sent>>
      /\ lcl' = [lcl EXCEPT ![n] = @ + 1] /\ lcl[n] < Len(chain)
    BY DEF CloseLedger
<1>2. lcl' \in [Node -> Nat \ {0}] /\ \A k \in Node : lcl'[k] <= Len(chain)
  <2>1. lcl \in [Node -> Nat \ {0}] /\ Len(chain) \in Nat
        /\ \A k \in Node : lcl[k] <= Len(chain)
    BY DEF IInv, Typed
  <2>2. \A k \in Node : lcl'[k] = IF k = n THEN lcl[k] + 1 ELSE lcl[k]
    BY <1>1, <2>1
  <2>3. n \in Node
    BY LiveNodes DEF IInv, Honest
  <2>4. lcl[n] + 1 \in Nat \ {0}
    BY <2>1, <2>3
  <2>5. lcl' \in [Node -> Nat \ {0}]
    BY <1>1, <2>1, <2>4, Zenon
  <2> QED
    BY <1>1, <2>1, <2>2, <2>5
<1>3. Typed' /\ Truthful'
    BY <1>1, <1>2 DEF IInv, Typed, Truthful, broadcastVars
<1> QED
    BY <1>1, <1>3, QuietStep

\* LedgerHasUpgrade forgets every announcement.
LEMMA HasUpgradeInvariant ==
    ASSUME IInv, NEW n \in Honest, LedgerHasUpgrade(n)
    PROVE  IInv'
<1>1. UNCHANGED <<broadcastVars, bound, prog, lcl, chain, proposal, sent>>
      /\ local' = [local EXCEPT ![n] = 0]
      /\ states' = [states EXCEPT ![n] = [v \in Validator |-> 0]]
    BY DEF LedgerHasUpgrade
<1>2. prog \in [Node -> Version] /\ MaxVersion \in Nat /\ Validator \subseteq Node
    BY UpgradeConstants DEF IInv, Typed
<1>3. local' \in [Node -> 0..MaxVersion] /\ states' \in [Node -> [Validator -> 0..MaxVersion]]
  <2>1. local \in [Node -> 0..MaxVersion] /\ states \in [Node -> [Validator -> 0..MaxVersion]]
    BY DEF IInv, Typed
  <2>2. 0 \in 0..MaxVersion /\ [v \in Validator |-> 0] \in [Validator -> 0..MaxVersion]
    BY <1>2
  <2> QED
    BY <1>1, <2>1, <2>2, Zenon
<1>4. \A k \in Node : local'[k] <= prog[k]
    BY <1>1, <1>2 DEF IInv, Typed, Truthful, Version
<1>5. \A k \in Node : \A v \in Validator \ Faulty : states'[k][v] <= prog[v]
    BY <1>1, <1>2 DEF IInv, Typed, Truthful, Version
<1>6. Typed' /\ Truthful'
    BY <1>1, <1>3, <1>4, <1>5 DEF IInv, Typed, Truthful, broadcastVars
<1> QED
    BY <1>1, <1>6, QuietStep

\* Restart keeps the program or replaces it by a newer one.
LEMMA RestartInvariant ==
    ASSUME IInv, NEW n \in Honest, NEW v \in Version, Restart(n, v)
    PROVE  IInv'
<1>1. UNCHANGED <<bound, lcl, chain, proposal, sent>>
      /\ prog' = [prog EXCEPT ![n] = v] /\ v >= prog[n]
      /\ local' = [local EXCEPT ![n] = IF LclVersion(n) < v THEN v ELSE 0]
      /\ states' = [states EXCEPT ![n] = [m \in Validator |-> 0]]
      /\ net' \subseteq net
    BY DEF Restart, Disconnected
<1>2. prog \in [Node -> Version] /\ MaxVersion \in Nat /\ Validator \subseteq Node
      /\ local \in [Node -> 0..MaxVersion] /\ \A k \in Node : local[k] <= prog[k]
    BY UpgradeConstants DEF IInv, Typed, Truthful
<1>3. prog' \in [Node -> Version] /\ \A k \in Node : prog[k] <= prog'[k]
  <2>1. prog' \in [Node -> Version]
    BY <1>1, <1>2, Zenon
  <2>2. \A k \in Node : prog[k] \in Nat /\ prog'[k] = IF k = n THEN v ELSE prog[k]
    BY <1>1, <1>2 DEF Version
  <2> QED
    BY <1>1, <2>1, <2>2 DEF Version
<1>4. local' \in [Node -> 0..MaxVersion] /\ \A k \in Node : local'[k] <= prog'[k]
    BY <1>1, <1>2, <1>3 DEF Version
<1>5. states' \in [Node -> [Validator -> 0..MaxVersion]]
  <2>1. states \in [Node -> [Validator -> 0..MaxVersion]]
    BY DEF IInv, Typed
  <2>2. [m \in Validator |-> 0] \in [Validator -> 0..MaxVersion]
    BY <1>2
  <2> QED
    BY <1>1, <2>1, <2>2, Zenon
<1>6. Typed'
    BY <1>1, <1>3, <1>4, <1>5 DEF IInv, Typed
<1>7. \A x \in net' : x[3].from \in Faulty \/ x[3].version <= prog'[x[3].from]
  <2>1. SUFFICES ASSUME NEW x \in net, x[3].from \notin Faulty
                 PROVE  x[3].version <= prog'[x[3].from]
    BY <1>1
  <2>2. x[3].version <= prog[x[3].from]
    BY <2>1 DEF IInv, Truthful
  <2>3. x[3] \in Message
    BY DEF IInv, Typed
  <2>4. x[3].from \in Node /\ x[3].version \in Nat
    BY <1>2, <2>3 DEF Message, Version
  <2> QED
    BY <1>2, <1>3, <2>2, <2>4 DEF Version
<1>8. \A k \in Node : \A m \in Validator \ Faulty : states'[k][m] <= prog'[m]
  <2>1. SUFFICES ASSUME NEW k \in Node, NEW m \in Validator \ Faulty
                 PROVE  states'[k][m] <= prog'[m]
    OBVIOUS
  <2>2. m \in Node /\ prog[m] \in Nat /\ prog'[m] \in Nat /\ prog[m] <= prog'[m]
    BY <1>2, <1>3, <2>1 DEF Version
  <2>3. states[k][m] \in Nat /\ states[k][m] <= prog[m]
    BY <2>1, <1>2 DEF IInv, Typed, Truthful
  <2>4. states'[k][m] = 0 \/ states'[k][m] = states[k][m]
    BY <1>1, <2>1 DEF IInv, Typed
  <2> QED
    BY <2>2, <2>3, <2>4
<1>9. Truthful'
    BY <1>4, <1>7, <1>8 DEF Truthful
<1> QED
    BY <1>1, <1>3, <1>6, <1>9, ChainStays DEF IInv

\* What a faulty validator announces nobody relies on alone.
LEMMA FaultyAnnounceInvariant ==
    ASSUME IInv, NEW f \in Faulty \cap bound.live, FaultyAnnounce(f)
    PROVE  IInv'
<1>1. UNCHANGED upgradeVars /\ sent' = [sent EXCEPT ![f] = @ + 1]
    BY DEF FaultyAnnounce
<1>2. PICK v \in Version, to \in SUBSET Peers(f) :
        net' = net \cup {<<f, p, Announcement(f, v)>> : p \in to}
    BY DEF FaultyAnnounce
<1>3. f \in Node /\ f \in Validator /\ to \subseteq Node
    BY LiveNodes, UpgradeConstants, Zenon DEF IInv, Peers
<1>4. Announcement(f, v) \in Message /\ Announcement(f, v).from = f
    BY <1>3 DEF IInv, Typed, Announcement, Message
<1>5. net' \subseteq Node \X Node \X Message /\ sent' \in [Validator -> Nat]
    BY <1>1, <1>2, <1>3, <1>4 DEF IInv, Typed
<1>6. \A x \in net' : x[3].from \in Faulty \/ x[3].version <= prog[x[3].from]
    BY <1>2, <1>4 DEF IInv, Truthful
<1>7. Typed' /\ Truthful'
    BY <1>1, <1>5, <1>6 DEF IInv, Typed, Truthful, upgradeVars
<1> QED
    BY <1>1, <1>7, QuietStep DEF upgradeVars

\* What a faulty leader proposes is only proposed.
LEMMA FaultyProposeInvariant ==
    ASSUME IInv, FaultyPropose
    PROVE  IInv'
<1>1. UNCHANGED <<broadcastVars, bound, prog, local, states, lcl, chain, sent>>
    BY DEF FaultyPropose
<1>2. PICK v \in 0..MaxVersion : proposal' = Proposed(v, FALSE)
    BY Zenon DEF FaultyPropose
<1>3. proposal' \in Proposal /\ ~proposal'.honest
    BY <1>2, UpgradeConstants DEF Proposed, Proposal, Version
<1>4. Typed' /\ Truthful'
    BY <1>1, <1>3 DEF IInv, Typed, Truthful, broadcastVars
<1>5. ProposalSupported' /\ EnoughCanStart' /\ UpgradesRaise'
    BY <1>1, <1>3 DEF IInv, ProposalSupported, EnoughCanStart, UpgradesRaise, Enough, Supporters
<1> QED
    BY <1>4, <1>5 DEF IInv

----------------------------------------------------------------------------

\* The inductive invariant, one step per action.
THEOREM InvariantAlways == Spec => []IInv
<1>1. Init => IInv
    BY InitInvariant
<1>2. IInv /\ [Next]_vars => IInv'
  <2> SUFFICES ASSUME IInv, [Next]_vars PROVE IInv'
    OBVIOUS
  <2>1. ASSUME NEW n \in Honest, OnTimer(n) PROVE IInv'
    BY <2>1, OnTimerInvariant
  <2>2. ASSUME NEW n \in Honest, OnTimerPeers(n) PROVE IInv'
    BY <2>2, OnTimerPeersInvariant
  <2>3. ASSUME NEW n \in Honest, NEW x \in net, x[2] = n, OnMethodLedgerUpNotify(x[1], n, x[3])
        PROVE  IInv'
    BY <2>3, NotifyInvariant
  <2>4. ASSUME NEW n \in Honest, StartConsensus(n) PROVE IInv'
    BY <2>4, StartConsensusInvariant
  <2>5. ASSUME NEW n \in Honest, CloseLedger(n) PROVE IInv'
    BY <2>5, CloseLedgerInvariant
  <2>6. ASSUME NEW n \in Honest, LedgerHasUpgrade(n) PROVE IInv'
    BY <2>6, HasUpgradeInvariant
  <2>7. ASSUME NEW n \in Honest, NEW v \in Version, Restart(n, v) PROVE IInv'
    BY <2>7, RestartInvariant
  <2>8. CASE Decide
    BY <2>8, DecideInvariant
  <2>9. ASSUME NEW f \in Faulty \cap bound.live, FaultyAnnounce(f) PROVE IInv'
    BY <2>9, FaultyAnnounceInvariant
  <2>10. CASE FaultyPropose
    BY <2>10, FaultyProposeInvariant
  <2>11. CASE UNCHANGED vars
    <3>1. UNCHANGED <<net, upgradeVars, sent>>
        BY <2>11 DEF vars, broadcastVars
    <3>2. Typed' /\ Truthful'
        BY <3>1 DEF IInv, Typed, Truthful, upgradeVars
    <3> QED
        BY <3>1, <3>2, QuietStep DEF upgradeVars
  <2> QED
    BY <2>1, <2>2, <2>3, <2>4, <2>5, <2>6, <2>7, <2>8, <2>9, <2>10, <2>11 DEF Next
<1> QED
    BY <1>1, <1>2, PTL DEF Spec

\* A correct leader proposes only upgrades that enough validators can follow
\* (StartConsensus asks GetValid), whatever was announced, lost or delayed.
THEOREM ProposalSupportedAlways == Spec => []ProposalSupported
<1>1. IInv => ProposalSupported
    BY DEF IInv
<1> QED
    BY <1>1, InvariantAlways, PTL

\* Every version the ledger has had is one that enough validators can start with
\* (Initialize ends the process of the others), whoever proposed it.
THEOREM EnoughCanStartAlways == Spec => []EnoughCanStart
<1>1. IInv => EnoughCanStart
    BY DEF IInv
<1> QED
    BY <1>1, InvariantAlways, PTL

\* Upgrades raise the version, and none is made twice (CheckValueHelper compares
\* it with the last closed ledger).
THEOREM UpgradesRaiseAlways == Spec => []UpgradesRaise
<1>1. IInv => UpgradesRaise
    BY DEF IInv
<1> QED
    BY <1>1, InvariantAlways, PTL

----------------------------------------------------------------------------
(* The flood.  A copy of a message is under way only from a node that has  *)
(* taken it, and while one is, who sent or received a copy remembers it or *)
(* has dropped its record early.  Who has taken a message has sent it to   *)
(* every peer but the one it came from, so of two neighbours that both     *)
(* lack nothing else either both have it or a copy is under way.           *)

Record == [msg : Message, peers : SUBSET Node]
Messages(rs) == {rs[i].msg : i \in DOMAIN rs}
Remembers(n, m) == m \in Messages(records[n]) \/ <<n, m>> \in forgot
OnItsWay(p, m) == \E x \in net : x[2] = p /\ x[3] = m

FloodTyped ==
    /\ link = bound.link
    /\ records \in [Node -> Seq(Record)]
    /\ heard \in [Node -> SUBSET Message]
    /\ crossed \subseteq Node \X Node \X Message

Fresh ==
    /\ \A x \in net \cup crossed : x[3].nonce <= sent[x[3].from]
    /\ \A n \in Node : \A m \in heard[n] : m.nonce <= sent[m.from]

SentByTakers ==
    /\ \A n \in Node : Messages(records[n]) \subseteq heard[n]
    /\ \A x \in net : x[1] \in Honest => x[3] \in heard[x[1]] /\ Remembers(x[1], x[3])

BothRemember ==
    \A x \in crossed : \A n \in {x[1], x[2]} \cap Honest : Remembers(n, x[3]) \/ ~InFlight(x[3])

Spreads ==
    \A e \in link : e[1] \in Honest /\ e[2] \in Honest =>
        \A m \in heard[e[1]] \ cut : m \in heard[e[2]] \/ OnItsWay(e[2], m)

FloodInv == FloodTyped /\ Fresh /\ SentByTakers /\ BothRemember /\ Spreads

\* IsQueued looks for the message in the records.
LEMMA QueuedMessages == \A rs, m : IsQueued(rs, m) <=> m \in Messages(rs)
BY DEF IsQueued, Messages

\* Noting a message keeps all records and has one for it.
LEMMA NotedMessages ==
    ASSUME NEW rs \in Seq(Record), NEW m \in Message, NEW P \in SUBSET Node
    PROVE  Noted(rs, m, P) \in Seq(Record) /\ Messages(Noted(rs, m, P)) = Messages(rs) \cup {m}
<1> DEFINE new == [msg |-> m, peers |-> P]
           more(r) == [r EXCEPT !.peers = @ \cup P]
           all == [i \in DOMAIN rs |-> IF rs[i].msg = m THEN more(rs[i]) ELSE rs[i]]
<1>1. new \in Record
    BY DEF Record
<1>2. \A r \in Record : more(r) \in Record /\ more(r).msg = r.msg
    BY DEF Record
<1>3. CASE IsQueued(rs, m)
  <2>1. Noted(rs, m, P) = all
    BY <1>3 DEF Noted
  <2> HIDE DEF more
  <2>2. all \in Seq(Record) /\ DOMAIN all = DOMAIN rs /\ \A i \in DOMAIN rs : all[i].msg = rs[i].msg
    BY <1>2
  <2> HIDE DEF all
  <2>3. Messages(all) = Messages(rs)
    BY <2>2 DEF Messages
  <2>4. m \in Messages(rs)
    BY <1>3, QueuedMessages
  <2> QED
    BY <2>1, <2>2, <2>3, <2>4
<1>4. CASE ~IsQueued(rs, m)
  <2>1. Noted(rs, m, P) = Append(rs, new)
    BY <1>4 DEF Noted
  <2> DEFINE longer == Append(rs, new)
  <2>2. new.msg = m
    OBVIOUS
  <2> HIDE DEF new
  <2>3. /\ longer \in Seq(Record) /\ DOMAIN longer = DOMAIN rs \cup {Len(rs) + 1}
        /\ longer[Len(rs) + 1] = new /\ \A i \in DOMAIN rs : longer[i] = rs[i]
    BY <1>1
  <2> HIDE DEF longer
  <2>4. Messages(longer) = Messages(rs) \cup {m}
    BY <2>2, <2>3 DEF Messages
  <2> QED
    BY <2>1, <2>3, <2>4 DEF longer
<1> QED
    BY <1>3, <1>4

\* A node that has no record of a message has told nobody, and after Add only the
\* peer it came from.
LEMMA ToldNew ==
    ASSUME NEW rs \in Seq(Record), NEW m \in Message, NEW P \in SUBSET Node, ~IsQueued(rs, m)
    PROVE  Told(rs, m) = {} /\ Told(Noted(rs, m, P), m) = P
<1>1. Told(rs, m) = {}
    BY DEF Told, IsQueued
<1> DEFINE new == [msg |-> m, peers |-> P]
           longer == Append(rs, new)
<1>2. Noted(rs, m, P) = longer
    BY DEF Noted
<1>3. new \in Record /\ new.msg = m /\ new.peers = P
    BY DEF Record
<1> HIDE DEF new
<1>4. /\ DOMAIN longer = DOMAIN rs \cup {Len(rs) + 1}
      /\ longer[Len(rs) + 1] = new /\ \A i \in DOMAIN rs : longer[i] = rs[i]
    BY <1>3
<1> HIDE DEF longer
<1>5. {j \in DOMAIN longer : longer[j].msg = m} = {Len(rs) + 1}
    BY <1>3, <1>4 DEF IsQueued
<1>6. {longer[i].peers : i \in {Len(rs) + 1}} = {P}
    BY <1>3, <1>4
<1>7. Told(longer, m) = UNION {P}
    BY <1>5, <1>6 DEF Told
<1> QED
    BY <1>1, <1>2, <1>7

\* Dropping the oldest records: who is forgotten had one of them.
LEMMA DroppedMessages ==
    ASSUME NEW rs \in Seq(Record), NEW d \in 0..Len(rs)
    PROVE  /\ SubSeq(rs, d + 1, Len(rs)) \in Seq(Record)
           /\ Messages(SubSeq(rs, d + 1, Len(rs))) \subseteq Messages(rs)
           /\ \A m \in Messages(rs) \ Messages(SubSeq(rs, d + 1, Len(rs))) :
                 \E i \in 1..d : rs[i].msg = m
<1> DEFINE t == SubSeq(rs, d + 1, Len(rs))
<1>1. /\ t \in Seq(Record) /\ DOMAIN t = 1..(Len(rs) - d)
      /\ \A i \in 1..(Len(rs) - d) : t[i] = rs[d + i]
    OBVIOUS
<1> HIDE DEF t
<1>2. Messages(t) \subseteq Messages(rs)
  <2> SUFFICES ASSUME NEW i \in DOMAIN t PROVE t[i].msg \in Messages(rs)
    BY DEF Messages
  <2>1. t[i] = rs[d + i] /\ d + i \in DOMAIN rs
    BY <1>1
  <2> QED
    BY <2>1 DEF Messages
<1>3. ASSUME NEW m \in Messages(rs) \ Messages(t) PROVE \E i \in 1..d : rs[i].msg = m
  <2>1. PICK i \in DOMAIN rs : rs[i].msg = m
    BY DEF Messages
  <2>2. CASE i \in 1..d
    BY <2>1, <2>2
  <2>3. CASE i \notin 1..d
    <3>1. i - d \in DOMAIN t /\ t[i - d] = rs[i]
      BY <1>1, <2>1, <2>3
    <3> QED
      BY <2>1, <3>1 DEF Messages
  <2> QED
    BY <2>2, <2>3
<1> QED
    BY <1>1, <1>2, <1>3 DEF t

\* At the start nothing was announced.
LEMMA InitFlood == Init => FloodInv
<1> SUFFICES ASSUME Init PROVE FloodInv
    OBVIOUS
<1>1. /\ link = bound.link /\ records = [n \in Node |-> <<>>] /\ net = {} /\ crossed = {}
      /\ heard = [n \in Node |-> {}]
    BY DEF Init, BroadcastInit
<1>2. FloodTyped
    BY <1>1 DEF FloodTyped
<1>3. \A n \in Node : Messages(records[n]) = {} /\ heard[n] = {}
    BY <1>1 DEF Messages
<1>4. Fresh /\ SentByTakers /\ BothRemember
    BY <1>1, <1>3 DEF Fresh, SentByTakers, BothRemember
<1>5. link \subseteq Node \X Node
    BY <1>1, UpgradeConstants DEF Init
<1>6. Spreads
    BY <1>3, <1>5 DEF Spreads
<1> QED
    BY <1>2, <1>4, <1>6 DEF FloodInv

\* A step that has nothing to do with the broadcast.
LEMMA FloodStays ==
    ASSUME FloodInv, UNCHANGED <<broadcastVars, bound, sent, heard, cut>>
    PROVE  FloodInv'
<1>1. FloodTyped'
    BY DEF FloodInv, FloodTyped, broadcastVars
<1>2. Fresh'
    BY DEF FloodInv, Fresh, broadcastVars
<1>3. SentByTakers'
    BY DEF FloodInv, SentByTakers, Remembers, Messages, Honest, broadcastVars
<1>4. BothRemember'
  <2> SUFFICES ASSUME NEW x \in crossed', NEW n \in ({x[1], x[2]} \cap Honest)'
               PROVE  Remembers(n, x[3])' \/ ~InFlight(x[3])'
    BY DEF BothRemember
  <2>1. x \in crossed /\ n \in {x[1], x[2]} \cap Honest
    BY DEF Honest, broadcastVars
  <2>2. Remembers(n, x[3]) \/ ~InFlight(x[3])
    BY <2>1 DEF FloodInv, BothRemember
  <2>3. records' = records /\ forgot' = forgot /\ net' = net
    BY DEF broadcastVars
  <2> QED
    BY <2>2, <2>3 DEF Remembers, Messages, InFlight
<1>5. Spreads'
    BY DEF FloodInv, Spreads, OnItsWay, Honest, broadcastVars
<1> QED
    BY <1>1, <1>2, <1>3, <1>4, <1>5 DEF FloodInv

\* Node n takes m, its own or from a copy in gone, and sends it to the nodes of to.
Takes(n, m, gone, to, new) ==
    /\ n \in Honest /\ m \in Message /\ to \subseteq Peers(n)
    /\ gone \subseteq {x \in net : x[2] = n /\ x[3] = m}
    /\ net' = (net \ gone) \cup {<<n, p, m>> : p \in to}
    /\ crossed' = crossed \cup gone
    /\ records' = [records EXCEPT ![n] = new]
    /\ new \in Seq(Record) /\ Messages(new) = Messages(records[n]) \cup {m}
    /\ heard' = [heard EXCEPT ![n] = @ \cup {m}]
    /\ \A v \in Validator : sent[v] <= sent'[v]
    /\ m.nonce <= sent'[m.from]
    /\ InFlight(m) \/ \A x \in crossed : x[3] # m
    /\ m \in heard[n] \/ \A p \in (Peers(n) \cap Honest) \ to : m \in heard[p]
    /\ link' = link /\ bound' = bound /\ forgot' = forgot /\ cut' = cut

\* Taking a message and passing it on keeps the invariant, as long as every peer gets
\* a copy that does not have the message (Broadcast::Send).
LEMMA TakesInvariant ==
    ASSUME IInv, IInv', FloodInv, NEW n, NEW m, NEW gone, NEW to, NEW new,
           Takes(n, m, gone, to, new)
    PROVE  FloodInv'
<1>1. /\ n \in Node /\ n \in Honest /\ m \in Message /\ m.from \in Validator /\ m.nonce \in Nat
      /\ Honest \subseteq Node
  <2>1. bound.live \subseteq Node
    BY LiveNodes DEF IInv
  <2> QED
    BY <2>1 DEF Takes, Honest, Message
<1>2. /\ net \subseteq Node \X Node \X Message /\ net' \subseteq Node \X Node \X Message
      /\ crossed \subseteq Node \X Node \X Message /\ gone \subseteq net
      /\ \A x \in gone : x[2] = n /\ x[3] = m
  <2>1. net \subseteq Node \X Node \X Message /\ net' \subseteq Node \X Node \X Message
    BY DEF IInv, Typed, Message, Version
  <2>2. crossed \subseteq Node \X Node \X Message
    BY DEF FloodInv, FloodTyped
  <2>3. gone \subseteq net /\ \A x \in gone : x[2] = n /\ x[3] = m
    BY DEF Takes
  <2> QED
    BY <2>1, <2>2, <2>3
<1>3. /\ records' \in [Node -> Seq(Record)] /\ records'[n] = new
      /\ \A k \in Node : k # n => records'[k] = records[k]
    BY <1>1 DEF FloodInv, FloodTyped, Takes
<1>4. /\ heard' \in [Node -> SUBSET Message] /\ heard'[n] = heard[n] \cup {m}
      /\ \A k \in Node : k # n => heard'[k] = heard[k]
    BY <1>1 DEF FloodInv, FloodTyped, Takes
<1>5. Honest' = Honest /\ link' = link /\ bound' = bound /\ cut' = cut /\ forgot' = forgot
    BY DEF Takes, Honest
<1>6. \A x \in net' : (x \in net /\ x \notin gone) \/ \E p \in to : x = <<n, p, m>>
    BY DEF Takes
<1>7. \A k \in Node : \A a : Remembers(k, a) => Remembers(k, a)'
  <2> SUFFICES ASSUME NEW k \in Node, NEW a, Remembers(k, a)
               PROVE  a \in Messages(records'[k]) \/ <<k, a>> \in forgot'
    BY DEF Remembers, Messages
  <2>1. Messages(records[k]) \subseteq Messages(records'[k])
    <3>1. CASE k = n
      BY <1>3, <3>1 DEF Takes
    <3>2. CASE k # n
      BY <1>3, <3>2
    <3> QED
      BY <3>1, <3>2
  <2> QED
    BY <1>5, <2>1 DEF Remembers
<1>8. FloodTyped'
  <2>1. crossed' \subseteq Node \X Node \X Message
    BY <1>2 DEF Takes
  <2> QED
    BY <1>3, <1>4, <1>5, <2>1 DEF FloodInv, FloodTyped
<1>9. Fresh'
  <2>1. \A a \in Message : a.from \in Validator /\ a.nonce \in Nat
    BY DEF Message
  <2>2. sent \in [Validator -> Nat] /\ sent' \in [Validator -> Nat]
    BY DEF IInv, Typed
  <2>3. \A a \in Message : a.nonce <= sent[a.from] => a.nonce <= sent'[a.from]
    BY <2>1, <2>2 DEF Takes
  <2>4. ASSUME NEW x \in net' \cup crossed' PROVE x[3].nonce <= sent'[x[3].from]
    <3>1. CASE x[3] = m
      BY <3>1 DEF Takes
    <3>2. CASE x[3] # m
      <4>1. x \in net \cup crossed /\ x[3] \in Message
        BY <1>2, <1>6, <3>2 DEF Takes
      <4>2. x[3].nonce <= sent[x[3].from]
        BY <4>1 DEF FloodInv, Fresh
      <4> QED
        BY <2>3, <4>1, <4>2
    <3> QED
      BY <3>1, <3>2
  <2>5. ASSUME NEW k \in Node, NEW a \in heard'[k] PROVE a.nonce <= sent'[a.from]
    <3>1. CASE a = m
      BY <3>1 DEF Takes
    <3>2. CASE a # m
      <4>1. a \in heard[k] /\ a \in Message
        BY <1>4, <3>2 DEF FloodInv, FloodTyped
      <4> QED
        BY <2>3, <4>1, Zenon DEF FloodInv, Fresh
    <3> QED
      BY <3>1, <3>2
  <2> QED
    BY <2>4, <2>5 DEF Fresh
<1>10. SentByTakers'
  <2>1. ASSUME NEW k \in Node PROVE Messages(records'[k]) \subseteq heard'[k]
    <3>1. Messages(records[k]) \subseteq heard[k]
      BY DEF FloodInv, SentByTakers
    <3>2. CASE k = n
      BY <1>3, <1>4, <3>1, <3>2, Zenon DEF Takes
    <3>3. CASE k # n
      BY <1>3, <1>4, <3>1, <3>3, Zenon
    <3> QED
      BY <3>2, <3>3
  <2>2. ASSUME NEW x \in net', x[1] \in Honest
        PROVE  x[3] \in heard'[x[1]] /\ Remembers(x[1], x[3])'
    <3>1. CASE x \in net
      <4>1. x[3] \in heard[x[1]] /\ Remembers(x[1], x[3]) /\ x[1] \in Node
        BY <1>1, <2>2, <3>1 DEF FloodInv, SentByTakers
      <4>2. Remembers(x[1], x[3])'
        BY <1>7, <4>1
      <4> QED
        BY <1>4, <4>1, <4>2
    <3>2. CASE x \notin net
      <4>1. x[1] = n /\ x[3] = m
        BY <1>6, <3>2
      <4>2. m \in Messages(records'[n])
        BY <1>3 DEF Takes
      <4> QED
        BY <1>4, <4>1, <4>2 DEF Remembers, Messages
    <3> QED
      BY <3>1, <3>2
  <2>3. \A k \in Node : (Messages(records[k]) \subseteq heard[k])'
    BY <2>1 DEF Messages
  <2> QED
    BY <1>5, <2>2, <2>3 DEF SentByTakers
<1>11. BothRemember'
  <2> SUFFICES ASSUME NEW x \in crossed', NEW k \in {x[1], x[2]} \cap Honest
               PROVE  Remembers(k, x[3])' \/ ~InFlight(x[3])'
    BY <1>5 DEF BothRemember
  <2>1. k \in Node
    BY <1>1
  <2>2. CASE x \in gone
    <3>1. CASE k = n
      <4>1. m \in Messages(records'[n])
        BY <1>3 DEF Takes
      <4> QED
        BY <1>2, <2>2, <3>1, <4>1 DEF Remembers, Messages
    <3>2. CASE k # n
      <4>1. x \in net /\ k = x[1]
        BY <1>2, <2>2, <3>2
      <4>2. Remembers(k, x[3])
        BY <4>1 DEF FloodInv, SentByTakers
      <4> QED
        BY <1>7, <2>1, <4>2
    <3> QED
      BY <3>1, <3>2
  <2>3. CASE x \notin gone
    <3>1. x \in crossed
      BY <2>3 DEF Takes
    <3>2. Remembers(k, x[3]) \/ ~InFlight(x[3])
      BY <3>1 DEF FloodInv, BothRemember
    <3>3. CASE Remembers(k, x[3])
      BY <1>7, <2>1, <3>3
    <3>4. CASE ~InFlight(x[3])
      <4>1. x[3] # m
        BY <3>1, <3>4 DEF Takes
      <4>2. \A y \in net' : y[3] = x[3] => y \in net
        BY <1>6, <4>1
      <4> QED
        BY <3>4, <4>2 DEF InFlight
    <3> QED
      BY <3>2, <3>3, <3>4
  <2> QED
    BY <2>2, <2>3
<1>12. Spreads'
  <2> SUFFICES ASSUME NEW e \in link, e[1] \in Honest, e[2] \in Honest, NEW a \in heard'[e[1]] \ cut
               PROVE  a \in heard'[e[2]] \/ OnItsWay(e[2], a)'
    BY <1>5 DEF Spreads
  <2>1. e[1] \in Node /\ e[2] \in Node /\ \A k \in Node : heard[k] \subseteq heard'[k]
    BY <1>1, <1>4
  <2>2. CASE a \in heard[e[1]]
    <3>1. a \in heard[e[2]] \/ OnItsWay(e[2], a)
      BY <2>2 DEF FloodInv, Spreads
    <3>2. CASE a \in heard[e[2]]
      BY <2>1, <3>2
    <3>3. CASE OnItsWay(e[2], a)
      <4>1. PICK x \in net : x[2] = e[2] /\ x[3] = a
        BY <3>3 DEF OnItsWay
      <4>2. CASE x \in gone
        BY <1>2, <1>4, <4>1, <4>2
      <4>3. CASE x \notin gone
        <5>1. x \in net'
          BY <4>3 DEF Takes
        <5> QED
          BY <4>1, <5>1 DEF OnItsWay
      <4> QED
        BY <4>2, <4>3
    <3> QED
      BY <3>1, <3>2, <3>3
  <2>3. CASE a \notin heard[e[1]]
    <3>1. e[1] = n /\ a = m
      BY <1>4, <2>1, <2>3
    <3>2. e[2] \in Peers(n) \cap Honest
      <4>1. e = <<e[1], e[2]>>
        BY UpgradeConstants DEF IInv, Typed, FloodInv, FloodTyped
      <4> QED
        BY <2>1, <3>1, <4>1 DEF Peers
    <3>3. CASE e[2] \in to
      <4>1. <<n, e[2], m>> \in net'
        BY <3>3 DEF Takes
      <4> QED
        BY <3>1, <4>1 DEF OnItsWay
    <3>4. CASE e[2] \notin to
      BY <2>1, <2>3, <3>1, <3>2, <3>4 DEF Takes
    <3> QED
      BY <3>3, <3>4
  <2> QED
    BY <2>2, <2>3
<1> QED
    BY <1>8, <1>9, <1>10, <1>11, <1>12 DEF FloodInv

\* A validator's next announcement is new to everyone.
LEMMA AnnouncementNew ==
    ASSUME IInv, FloodInv, NEW n \in Validator, NEW v \in Version
    PROVE  LET m == Announcement(n, v) IN
           /\ m \in Message /\ m.from = n /\ m.nonce = sent[n] + 1
           /\ \A x \in net \cup crossed : x[3] # m
           /\ \A k \in Node : m \notin heard[k]
<1> DEFINE m == Announcement(n, v)
<1>1. sent[n] \in Nat
    BY DEF IInv, Typed
<1>2. m \in Message /\ m.from = n /\ m.nonce = sent[n] + 1
    BY <1>1 DEF Announcement, Message
<1> HIDE DEF m
<1>3. ~ (m.nonce <= sent[m.from])
    BY <1>1, <1>2
<1>4. \A x \in net \cup crossed : x[3] # m
    BY <1>3 DEF FloodInv, Fresh
<1>5. \A k \in Node : m \notin heard[k]
    BY <1>3 DEF FloodInv, Fresh
<1> QED
    BY <1>2, <1>4, <1>5 DEF m

\* An announcement goes to every peer: no one can have it yet.
LEMMA OnTimerFlood ==
    ASSUME IInv, IInv', FloodInv, NEW n \in Honest, OnTimer(n)
    PROVE  FloodInv'
<1> DEFINE m == Announcement(n, local[n])
           new == Noted(records[n], m, Peers(n))
<1>1. CASE UNCHANGED <<link, records, net, forgot, heard, sent>>
  <2>1. UNCHANGED <<broadcastVars, bound, sent, heard, cut>>
    BY <1>1, Zenon DEF OnTimer, broadcastVars
  <2> QED
    BY <2>1, FloodStays
<1>2. CASE /\ local[n] > 0 /\ n \in Validator /\ Send(n, records[n], m, net)
           /\ heard' = [heard EXCEPT ![n] = @ \cup {m}]
           /\ sent' = [sent EXCEPT ![n] = @ + 1]
  <2>1. n \in Node /\ local[n] \in Version /\ n \in Validator
    <3>1. n \in Node
      BY <1>2, UpgradeConstants, Zenon
    <3>2. local[n] \in 0..MaxVersion
      BY <3>1 DEF IInv, Typed
    <3>3. local[n] > 0 /\ n \in Validator
      BY <1>2, Zenon
    <3> QED
      BY <3>1, <3>2, <3>3 DEF Version
  <2>2. /\ m \in Message /\ m.from = n /\ m.nonce = sent[n] + 1
        /\ \A x \in net \cup crossed : x[3] # m
        /\ \A k \in Node : m \notin heard[k]
    BY <2>1, AnnouncementNew
  <2> HIDE DEF m
  <2>3. records[n] \in Seq(Record) /\ Messages(records[n]) \subseteq heard[n]
    BY <2>1 DEF FloodInv, FloodTyped, SentByTakers
  <2>4. ~IsQueued(records[n], m)
    BY <2>1, <2>2, <2>3, QueuedMessages
  <2>5. Told(records[n], m) = {}
    BY <2>4 DEF Told, IsQueued
  <2>6. Recipients(n, records[n], m) = Peers(n) /\ Peers(n) \subseteq Node
    BY <2>5 DEF Recipients, Peers
  <2>7. /\ records' = [records EXCEPT ![n] = new]
        /\ net' = net \cup {<<n, p, m>> : p \in Peers(n)}
        /\ link' = link /\ forgot' = forgot
    BY <1>2, <2>6 DEF Send
  <2>8. new \in Seq(Record) /\ Messages(new) = Messages(records[n]) \cup {m}
    BY <2>2, <2>3, <2>6, NotedMessages
  <2> HIDE DEF new
  <2>9. crossed' = crossed /\ bound' = bound /\ cut' = cut
    BY Zenon DEF OnTimer
  <2>10. /\ \A v \in Validator : sent[v] <= sent'[v]
         /\ m.nonce <= sent'[m.from]
    <3>1. sent \in [Validator -> Nat]
      BY DEF IInv, Typed
    <3>2. sent' = [sent EXCEPT ![n] = @ + 1]
      BY <1>2, Zenon
    <3>3. m.from = n /\ m.nonce = sent[n] + 1
      BY <2>2, Zenon
    <3> HIDE DEF m
    <3> QED
      BY <2>1, <3>1, <3>2, <3>3
  <2>11. Takes(n, m, {}, Peers(n), new)
    <3>1. net' = (net \ {}) \cup {<<n, p, m>> : p \in Peers(n)} /\ crossed' = crossed \cup {}
      BY <2>7, <2>9
    <3> QED
      BY <1>2, <2>2, <2>7, <2>8, <2>9, <2>10, <3>1, Zenon DEF Takes
  <2> QED
    BY <2>11, TakesInvariant
<1> QED
    BY <1>1, <1>2 DEF OnTimer

\* A copy that arrives is passed on to every peer but the one it came from, or it was
\* taken before.
LEMMA NotifyFlood ==
    ASSUME IInv, IInv', FloodInv, NEW p, NEW n \in Honest, NEW m, OnMethodLedgerUpNotify(p, n, m)
    PROVE  FloodInv'
<1> DEFINE copy == <<p, n, m>>
           rs == Add(records[n], m, p)
           to == Recipients(n, rs, m)
           new == Noted(rs, m, to)
<1>1. /\ copy \in net /\ p \in Node /\ n \in Node /\ m \in Message /\ m.nonce <= sent[m.from]
      /\ (p \in Honest => m \in heard[p])
  <2>1. copy \in net
    BY DEF OnMethodLedgerUpNotify
  <2>2. net \subseteq Node \X Node \X Message
    BY DEF IInv, Typed
  <2>3. copy[1] = p /\ copy[3] = m
    OBVIOUS
  <2> QED
    BY <2>1, <2>2, <2>3, Zenon DEF FloodInv, Fresh, SentByTakers
<1>2. records[n] \in Seq(Record) /\ Messages(records[n]) \subseteq heard[n]
    BY <1>1 DEF FloodInv, FloodTyped, SentByTakers
<1>3. rs \in Seq(Record) /\ Messages(rs) = Messages(records[n]) \cup {m}
    BY <1>1, <1>2, NotedMessages, Zenon DEF Add
<1>4. InFlight(m) /\ {copy} \subseteq {x \in net : x[2] = n /\ x[3] = m}
    BY <1>1 DEF InFlight
<1>5. /\ crossed' = crossed \cup {copy} /\ bound' = bound /\ cut' = cut /\ sent' = sent
      /\ link' = link /\ forgot' = forgot
    BY Zenon DEF OnMethodLedgerUpNotify, Send
<1>6. \A v \in Validator : sent[v] <= sent'[v]
  <2>1. sent \in [Validator -> Nat]
    BY DEF IInv, Typed
  <2> QED
    BY <1>5, <2>1
<1>7. CASE IsQueued(records[n], m)
  <2>1. records' = [records EXCEPT ![n] = rs] /\ net' = net \ {copy} /\ heard' = heard
    BY <1>7 DEF OnMethodLedgerUpNotify
  <2>2. m \in heard[n]
    BY <1>2, <1>7, QueuedMessages
  <2>3. heard' = [heard EXCEPT ![n] = @ \cup {m}]
    <3>1. heard \in [Node -> SUBSET Message]
      BY DEF FloodInv, FloodTyped
    <3> QED
      BY <1>1, <2>1, <2>2, <3>1
  <2>4. net' = (net \ {copy}) \cup {<<n, q, m>> : q \in {}}
    BY <2>1
  <2> HIDE DEF rs, copy
  <2>5. Takes(n, m, {copy}, {}, rs)
    <3>1. {} \subseteq Peers(n) /\ m.nonce <= sent'[m.from]
      BY <1>1, <1>5
    <3> QED
      BY <1>1, <1>3, <1>4, <1>5, <1>6, <2>1, <2>2, <2>3, <2>4, <3>1, Zenon DEF Takes
  <2> QED
    BY <2>5, TakesInvariant
<1>8. CASE ~IsQueued(records[n], m)
  <2>1. /\ records' = [records EXCEPT ![n] = new]
        /\ net' = (net \ {copy}) \cup {<<n, q, m>> : q \in to}
        /\ heard' = [heard EXCEPT ![n] = @ \cup {m}]
    BY <1>8, Zenon DEF OnMethodLedgerUpNotify, Send
  <2>2. Told(rs, m) = {p}
    <3>1. {p} \in SUBSET Node
      BY <1>1
    <3> QED
      BY <1>1, <1>2, <1>8, <3>1, ToldNew, ZenonT(30) DEF Add
  <2>3. to = Peers(n) \ {p} /\ to \subseteq Node
    BY <2>2 DEF Recipients, Peers
  <2>4. new \in Seq(Record) /\ Messages(new) = Messages(records[n]) \cup {m}
    <3>1. to \in SUBSET Node
      BY <2>3, Zenon
    <3>2. new \in Seq(Record) /\ Messages(new) = Messages(rs) \cup {m}
      <4> HIDE DEF rs, to
      <4> QED
        BY <1>1, <1>3, <3>1, NotedMessages, ZenonT(30)
    <3> HIDE DEF rs, to, new
    <3> QED
      BY <1>3, <3>2
  <2>5. \A q \in (Peers(n) \cap Honest) \ to : m \in heard[q]
    BY <1>1, <2>3, Zenon
  <2> HIDE DEF rs, copy, to, new
  <2>6. Takes(n, m, {copy}, to, new)
    BY <1>1, <1>4, <1>5, <1>6, <2>1, <2>3, <2>4, <2>5, Zenon DEF Takes
  <2> QED
    BY <2>6, TakesInvariant
<1> QED
    BY <1>7, <1>8

\* Records are dropped when no copy is under way any more, or early.
LEMMA OnTimerPeersFlood ==
    ASSUME IInv, IInv', FloodInv, NEW n \in Honest, OnTimerPeers(n)
    PROVE  FloodInv'
<1>1. n \in Node /\ Honest \subseteq Node
  <2>1. bound.live \subseteq Node
    BY LiveNodes DEF IInv
  <2> QED
    BY <2>1 DEF Honest
<1> DEFINE rs == records[n]
<1>2. PICK old \in 0..Len(rs) :
        LET left == Len(rs) - old
            drop == old + IF left > MaxRecords THEN MaxRecords \div 2 ELSE 0
        IN  /\ \A i \in 1..old : ~InFlight(rs[i].msg)
            /\ drop > 0
            /\ records' = [records EXCEPT ![n] = SubSeq(@, drop + 1, Len(@))]
            /\ forgot' = forgot \cup {<<n, rs[i].msg>> : i \in (old + 1)..drop}
            /\ UNCHANGED <<link, net, crossed>>
    BY Zenon DEF OnTimerPeers, OnTimerBroadcast
<1>3. /\ UNCHANGED <<link, net, crossed, bound, sent, heard, cut>> /\ Honest' = Honest
    BY DEF OnTimerPeers, OnTimerBroadcast, upgradeVars, Honest
<1>4. rs \in Seq(Record) /\ records \in [Node -> Seq(Record)]
    BY <1>1 DEF FloodInv, FloodTyped
<1> HIDE DEF rs
<1> DEFINE drop == old + IF Len(rs) - old > MaxRecords THEN MaxRecords \div 2 ELSE 0
           rest == SubSeq(rs, drop + 1, Len(rs))
<1>5. drop \in 0..Len(rs)
    BY <1>4, RecordsLimit
<1>6. /\ \A i \in 1..old : ~InFlight(rs[i].msg)
      /\ records' = [records EXCEPT ![n] = rest]
      /\ forgot' = forgot \cup {<<n, rs[i].msg>> : i \in (old + 1)..drop}
    BY <1>2 DEF rs
<1> HIDE DEF drop
<1>7. /\ rest \in Seq(Record) /\ Messages(rest) \subseteq Messages(rs)
      /\ \A m \in Messages(rs) \ Messages(rest) : \E i \in 1..drop : rs[i].msg = m
    BY <1>4, <1>5, DroppedMessages
<1> HIDE DEF rest
<1>8. /\ records' \in [Node -> Seq(Record)] /\ records'[n] = rest
      /\ \A k \in Node : k # n => records'[k] = records[k]
    BY <1>1, <1>4, <1>6, <1>7
<1>9. ASSUME NEW k \in Node, NEW a, Remembers(k, a) PROVE Remembers(k, a)' \/ ~InFlight(a)
  <2> SUFFICES ASSUME a \in Messages(records[k]), InFlight(a), a \notin Messages(records'[k])
               PROVE  <<k, a>> \in forgot'
    BY <1>6, <1>9 DEF Remembers, Messages
  <2>1. k = n /\ a \in Messages(rs) \ Messages(rest)
    BY <1>8 DEF rs
  <2>2. PICK i \in 1..drop : rs[i].msg = a
    BY <1>7, <2>1
  <2>3. i \in (old + 1)..drop
    BY <1>5, <1>6, <2>2
  <2> QED
    BY <1>6, <2>1, <2>2, <2>3
<1>10. FloodTyped' /\ Fresh'
    BY <1>3, <1>8 DEF FloodInv, FloodTyped, Fresh
<1>11. SentByTakers'
  <2>1. \A k \in Node : Messages(records'[k]) \subseteq heard'[k]
    BY <1>1, <1>3, <1>7, <1>8 DEF FloodInv, SentByTakers, rs
  <2>2. ASSUME NEW x \in net', x[1] \in Honest'
        PROVE  (x[3] \in heard[x[1]] /\ Remembers(x[1], x[3]))'
    <3>1. x \in net /\ x[1] \in Honest /\ x[1] \in Node /\ InFlight(x[3])
      BY <1>1, <1>3, <2>2 DEF InFlight
    <3>2. x[3] \in heard[x[1]] /\ Remembers(x[1], x[3])
      BY <3>1 DEF FloodInv, SentByTakers
    <3> QED
      BY <1>3, <1>9, <3>1, <3>2, Zenon
  <2>3. \A k \in Node : (Messages(records[k]) \subseteq heard[k])'
    BY <2>1 DEF Messages
  <2> QED
    BY <2>2, <2>3, Zenon DEF SentByTakers
<1>12. BothRemember'
  <2> SUFFICES ASSUME NEW x \in crossed', NEW k \in ({x[1], x[2]} \cap Honest)'
               PROVE  Remembers(k, x[3])' \/ ~InFlight(x[3])'
    BY DEF BothRemember
  <2>1. x \in crossed /\ k \in {x[1], x[2]} \cap Honest /\ k \in Node
    BY <1>1, <1>3
  <2>2. Remembers(k, x[3]) \/ ~InFlight(x[3])
    BY <2>1 DEF FloodInv, BothRemember
  <2>3. InFlight(x[3])' <=> InFlight(x[3])
    BY <1>3 DEF InFlight
  <2> QED
    BY <1>9, <2>1, <2>2, <2>3
<1>13. Spreads'
    BY <1>3 DEF FloodInv, Spreads, OnItsWay
<1> QED
    BY <1>10, <1>11, <1>12, <1>13 DEF FloodInv

\* A node that ends forgets, and what was announced before counts as cut.
LEMMA RestartFlood ==
    ASSUME IInv, IInv', FloodInv, NEW n \in Honest, NEW v \in Version, Restart(n, v)
    PROVE  FloodInv'
<1> DEFINE without(r) == [r EXCEPT !.peers = @ \ {n}]
           left(q) == [i \in DOMAIN records[q] |-> without(records[q][i])]
<1>1. n \in Node /\ Honest \subseteq Node
  <2>1. bound.live \subseteq Node
    BY LiveNodes DEF IInv
  <2> QED
    BY <2>1 DEF Honest
<1>2. /\ UNCHANGED <<link, crossed, bound, sent, heard>> /\ Honest' = Honest
      /\ cut' = cut \cup UNION {heard[q] : q \in Honest}
    BY DEF Restart, Disconnected, Honest
<1>3. /\ records' = [q \in Node |-> IF q = n THEN <<>> ELSE left(q)]
      /\ net' \subseteq net /\ forgot \subseteq forgot'
      /\ \A i \in DOMAIN records[n] : <<n, records[n][i].msg>> \in forgot'
    BY DEF Restart, Disconnected
<1>4. \A r \in Record : without(r) \in Record /\ without(r).msg = r.msg
    BY DEF Record
<1> HIDE DEF without
<1>5. ASSUME NEW q \in Node PROVE left(q) \in Seq(Record) /\ Messages(left(q)) = Messages(records[q])
  <2>1. records[q] \in Seq(Record)
    BY DEF FloodInv, FloodTyped
  <2>2. /\ left(q) \in Seq(Record) /\ DOMAIN left(q) = DOMAIN records[q]
        /\ \A i \in DOMAIN records[q] : left(q)[i].msg = records[q][i].msg
    BY <1>4, <2>1
  <2> HIDE DEF left
  <2> QED
    BY <2>2 DEF Messages
<1> HIDE DEF left
<1>6. /\ records' \in [Node -> Seq(Record)]
      /\ Messages(records'[n]) = {}
      /\ \A q \in Node : q # n => Messages(records'[q]) = Messages(records[q])
  <2>1. \A q \in Node : (IF q = n THEN <<>> ELSE left(q)) \in Seq(Record)
    BY <1>5
  <2>2. records'[n] = <<>> /\ \A q \in Node : q # n => records'[q] = left(q)
    BY <1>1, <1>3
  <2>3. Messages(<<>>) = {}
    BY DEF Messages
  <2> QED
    BY <1>3, <1>5, <2>1, <2>2, <2>3
<1>7. ASSUME NEW k \in Node, NEW a, Remembers(k, a) PROVE Remembers(k, a)'
  <2>1. a \in Messages(records'[k]) \/ <<k, a>> \in forgot'
    <3>1. CASE k = n
      BY <1>3, <1>7, <3>1 DEF Remembers, Messages
    <3>2. CASE k # n
      BY <1>3, <1>6, <1>7, <3>2 DEF Remembers
    <3> QED
      BY <3>1, <3>2
  <2> QED
    BY <2>1 DEF Remembers, Messages
<1>8. FloodTyped' /\ Fresh'
    BY <1>2, <1>3, <1>6, Zenon DEF FloodInv, FloodTyped, Fresh
<1>9. SentByTakers'
  <2>1. \A k \in Node : Messages(records'[k]) \subseteq heard'[k]
    BY <1>1, <1>2, <1>6, Zenon DEF FloodInv, SentByTakers
  <2>2. ASSUME NEW x \in net', x[1] \in Honest'
        PROVE  (x[3] \in heard[x[1]] /\ Remembers(x[1], x[3]))'
    <3>1. x \in net /\ x[1] \in Honest /\ x[1] \in Node
      BY <1>1, <1>2, <1>3, <2>2
    <3>2. x[3] \in heard[x[1]] /\ Remembers(x[1], x[3])
      BY <3>1 DEF FloodInv, SentByTakers
    <3> QED
      BY <1>2, <1>7, <3>1, <3>2
  <2>3. \A k \in Node : (Messages(records[k]) \subseteq heard[k])'
    BY <2>1 DEF Messages
  <2> QED
    BY <2>2, <2>3 DEF SentByTakers
<1>10. BothRemember'
  <2> SUFFICES ASSUME NEW x \in crossed', NEW k \in ({x[1], x[2]} \cap Honest)'
               PROVE  Remembers(k, x[3])' \/ ~InFlight(x[3])'
    BY DEF BothRemember
  <2>1. x \in crossed /\ k \in {x[1], x[2]} \cap Honest /\ k \in Node
    BY <1>1, <1>2
  <2>2. Remembers(k, x[3]) \/ ~InFlight(x[3])
    BY <2>1 DEF FloodInv, BothRemember
  <2>3. InFlight(x[3])' => InFlight(x[3])
    BY <1>3 DEF InFlight
  <2> QED
    BY <1>7, <2>1, <2>2, <2>3
<1>11. Spreads'
  <2>1. \A k \in Honest : heard'[k] \ cut' = {}
    BY <1>2, Zenon
  <2> QED
    BY <1>2, <2>1, Zenon DEF Spreads
<1> QED
    BY <1>8, <1>9, <1>10, <1>11 DEF FloodInv

\* A faulty validator's announcement is new too, and it is not an honest node's.
LEMMA FaultyAnnounceFlood ==
    ASSUME IInv, IInv', FloodInv, NEW f \in Faulty, FaultyAnnounce(f)
    PROVE  FloodInv'
<1>1. PICK v \in Version, to \in SUBSET Peers(f) :
        net' = net \cup {<<f, p, Announcement(f, v)>> : p \in to}
    BY DEF FaultyAnnounce
<1>2. /\ UNCHANGED <<link, records, crossed, forgot, bound, heard, cut>>
      /\ sent' = [sent EXCEPT ![f] = @ + 1] /\ Honest' = Honest
    BY Zenon DEF FaultyAnnounce, upgradeVars, Honest
<1> DEFINE m == Announcement(f, v)
<1>3. /\ m \in Message /\ m.from = f /\ m.nonce = sent[f] + 1 /\ f \in Validator
      /\ \A x \in net \cup crossed : x[3] # m
    BY UpgradeConstants, AnnouncementNew, Zenon
<1>4. net \subseteq net' /\ \A x \in net' \ net : x[1] = f /\ x[3] = m
    BY <1>1
<1> HIDE DEF m
<1>5. /\ net \subseteq Node \X Node \X Message
      /\ crossed \subseteq Node \X Node \X Message
      /\ heard \in [Node -> SUBSET Message]
    BY DEF IInv, Typed, FloodInv, FloodTyped
<1>6. FloodTyped'
    BY <1>2 DEF FloodInv, FloodTyped
<1>7. Fresh'
  <2>1. \A a \in Message : a.from \in Validator /\ a.nonce \in Nat
    BY DEF Message
  <2>2. sent \in [Validator -> Nat]
    BY DEF IInv, Typed
  <2>3. \A v_1 \in Validator : sent[v_1] \in Nat /\ sent'[v_1] \in Nat /\ sent[v_1] <= sent'[v_1]
    BY <1>2, <2>2
  <2>4. \A a \in Message : a.nonce <= sent[a.from] => a.nonce <= sent'[a.from]
    BY <2>1, <2>3
  <2>5. m.nonce <= sent'[m.from]
    BY <1>2, <1>3, <2>2
  <2>6. ASSUME NEW x \in net' \cup crossed' PROVE x[3].nonce <= sent'[x[3].from]
    <3>1. CASE x[3] = m
      BY <2>5, <3>1
    <3>2. CASE x[3] # m
      <4>1. x \in net \cup crossed /\ x[3] \in Message
        BY <1>2, <1>4, <1>5, <3>2
      <4> QED
        BY <2>4, <4>1 DEF FloodInv, Fresh
    <3> QED
      BY <3>1, <3>2
  <2>7. ASSUME NEW k \in Node, NEW a \in heard'[k] PROVE a.nonce <= sent'[a.from]
    <3>1. a \in heard[k] /\ a \in Message
      BY <1>2, <1>5
    <3> QED
      BY <2>4, <3>1 DEF FloodInv, Fresh
  <2> QED
    BY <2>6, <2>7 DEF Fresh
<1>8. \A k, a : Remembers(k, a)' <=> Remembers(k, a)
    BY <1>2, Zenon DEF Remembers, Messages
<1>9. SentByTakers'
  <2>1. \A k \in Node : (Messages(records[k]) \subseteq heard[k])'
    BY <1>2, Zenon DEF Messages, FloodInv, SentByTakers
  <2>2. ASSUME NEW x \in net', x[1] \in Honest'
        PROVE  (x[3] \in heard[x[1]] /\ Remembers(x[1], x[3]))'
    <3>1. x \in net /\ x[1] \in Honest
      BY <1>2, <1>4, <2>2, Zenon DEF Honest
    <3>2. x[3] \in heard[x[1]] /\ Remembers(x[1], x[3])
      BY <3>1 DEF FloodInv, SentByTakers
    <3> QED
      BY <1>2, <1>8, <3>2
  <2> QED
    BY <2>1, <2>2 DEF SentByTakers
<1>10. BothRemember'
  <2> SUFFICES ASSUME NEW x \in crossed', NEW k \in ({x[1], x[2]} \cap Honest)'
               PROVE  Remembers(k, x[3])' \/ ~InFlight(x[3])'
    BY DEF BothRemember
  <2>1. x \in crossed /\ k \in {x[1], x[2]} \cap Honest
    BY <1>2
  <2>2. Remembers(k, x[3]) \/ ~InFlight(x[3])
    BY <2>1 DEF FloodInv, BothRemember
  <2>3. InFlight(x[3])' => InFlight(x[3])
    BY <1>3, <1>4, <2>1 DEF InFlight
  <2> QED
    BY <1>8, <2>2, <2>3
<1>11. Spreads'
  <2>1. \A p, a : OnItsWay(p, a) => OnItsWay(p, a)'
    BY <1>4 DEF OnItsWay
  <2> QED
    BY <1>2, <2>1, Zenon DEF FloodInv, Spreads
<1> QED
    BY <1>6, <1>7, <1>9, <1>10, <1>11 DEF FloodInv

\* The invariant of the flood, by cases on the step.
LEMMA NextFlood ==
    ASSUME IInv, IInv', FloodInv, [Next]_vars
    PROVE  FloodInv'
<1>1. ASSUME NEW n \in Honest, OnTimer(n) PROVE FloodInv'
    BY <1>1, OnTimerFlood
<1>2. ASSUME NEW n \in Honest, OnTimerPeers(n) PROVE FloodInv'
    BY <1>2, OnTimerPeersFlood
<1>3. ASSUME NEW n \in Honest, NEW x \in net, OnMethodLedgerUpNotify(x[1], n, x[3]) PROVE FloodInv'
    BY <1>3, NotifyFlood
<1>4. ASSUME NEW n \in Honest, StartConsensus(n) PROVE FloodInv'
    BY <1>4, FloodStays DEF StartConsensus
<1>5. ASSUME NEW n \in Honest, CloseLedger(n) PROVE FloodInv'
    BY <1>5, FloodStays DEF CloseLedger
<1>6. ASSUME NEW n \in Honest, LedgerHasUpgrade(n) PROVE FloodInv'
    BY <1>6, FloodStays DEF LedgerHasUpgrade
<1>7. ASSUME NEW n \in Honest, NEW v \in Version, Restart(n, v) PROVE FloodInv'
    BY <1>7, RestartFlood
<1>8. ASSUME Decide PROVE FloodInv'
    BY <1>8, FloodStays DEF Decide
<1>9. ASSUME NEW f \in Faulty \cap bound.live, FaultyAnnounce(f) PROVE FloodInv'
    BY <1>9, FaultyAnnounceFlood
<1>10. ASSUME FaultyPropose PROVE FloodInv'
    BY <1>10, FloodStays DEF FaultyPropose
<1>11. ASSUME UNCHANGED vars PROVE FloodInv'
    BY <1>11, FloodStays DEF vars, upgradeVars
<1> QED
    BY <1>1, <1>2, <1>3, <1>4, <1>5, <1>6, <1>7, <1>8, <1>9, <1>10, <1>11, Zenon DEF Next

\* The invariant of the flood always holds.
LEMMA FloodInvAlways == Spec => []FloodInv
<1>1. IInv /\ IInv' /\ FloodInv /\ [Next]_vars => FloodInv'
    BY NextFlood
<1> QED
    BY <1>1, InitFlood, InvariantAlways, PTL DEF Spec

\* For any honest nodes that are connected without the faulty ones, any limit on the
\* records and however the copies overtake each other: when no copy of an announcement
\* is on its way to an honest node, all of them have taken it, unless one has ended
\* since.
THEOREM FloodReachesAlways == Spec => []FloodReaches
<1>1. ASSUME IInv, FloodInv PROVE FloodReaches
  <2> SUFFICES ASSUME NEW k \in Honest, NEW m \in heard[k] \ cut,
                      \A x \in net : x[3] = m => x[2] \in Faulty
               PROVE  \A n \in Honest : m \in heard[n]
    BY DEF FloodReaches
  <2> DEFINE S == {n \in Honest : m \in heard[n]}
  <2>1. bound \in Scenario /\ link = bound.link
    BY <1>1 DEF IInv, Typed, FloodInv, FloodTyped
  <2>2. k \in S /\ S \in SUBSET (bound.live \ Faulty)
    BY Zenon DEF Honest
  <2>3. ASSUME NEW e \in bound.link, e[1] \in S PROVE e[2] \in S \cup Faulty
    <3> SUFFICES ASSUME e[2] \notin Faulty PROVE e[2] \in S
      OBVIOUS
    <3>1. e[2] \in bound.live
      BY <2>1, UpgradeConstants
    <3>2. e \in link /\ e[1] \in Honest /\ e[2] \in Honest /\ m \in heard[e[1]] \ cut
      BY <2>1, <2>3, <3>1 DEF Honest
    <3>3. m \in heard[e[2]] \/ OnItsWay(e[2], m)
      BY <1>1, <3>2 DEF FloodInv, Spreads
    <3> QED
      BY <3>2, <3>3 DEF OnItsWay, Honest
  <2>4. S = bound.live \ Faulty
    <3> HIDE DEF S
    <3> QED
      BY <2>1, <2>2, <2>3, UpgradeConstants
  <2> QED
    BY <2>4 DEF Honest
<1> QED
    BY <1>1, FloodInvAlways, InvariantAlways, PTL

\* What CrossesOnce says of a step.
CrossesOnceStep ==
    \A c \in net' \ net :
        <<c[1], c[3]>> \in forgot
        \/ (c \notin crossed' /\ <<c[2], c[1], c[3]>> \notin crossed')

\* An announcement that is new to everyone has crossed no connection.
LEMMA NewCrossesOnce ==
    ASSUME IInv, FloodInv, NEW n \in Validator, NEW v \in Version, crossed' = crossed,
           \A x \in net' \ net : x[3] = Announcement(n, v)
    PROVE  CrossesOnceStep
<1> DEFINE m == Announcement(n, v)
<1>1. \A x \in crossed : x[3] # m
    BY AnnouncementNew
<1> HIDE DEF m
<1> SUFFICES ASSUME NEW x \in net' \ net PROVE x \notin crossed' /\ <<x[2], x[1], x[3]>> \notin crossed'
    BY Zenon DEF CrossesOnceStep
<1>2. x[3] = m /\ <<x[2], x[1], x[3]>>[3] = m
    BY DEF m
<1> QED
    BY <1>1, <1>2

\* A node that passes a message on has no record of it, so no copy has crossed one of
\* its connections, unless the node dropped the record early.
LEMMA NotifyCrossesOnce ==
    ASSUME IInv, FloodInv, NEW p, NEW n \in Honest, NEW m, OnMethodLedgerUpNotify(p, n, m)
    PROVE  CrossesOnceStep
<1> DEFINE copy == <<p, n, m>>
           rs == Add(records[n], m, p)
           to == Recipients(n, rs, m)
<1>1. copy \in net /\ p \in Node /\ n \in Node /\ m \in Message /\ crossed' = crossed \cup {copy}
  <2>1. copy \in net /\ crossed' = crossed \cup {copy}
    BY DEF OnMethodLedgerUpNotify
  <2>2. net \subseteq Node \X Node \X Message
    BY DEF IInv, Typed
  <2> QED
    BY <2>1, <2>2
<1>2. CASE IsQueued(records[n], m)
  <2>1. net' = net \ {copy}
    BY <1>2 DEF OnMethodLedgerUpNotify
  <2> QED
    BY <2>1 DEF CrossesOnceStep
<1>3. CASE ~IsQueued(records[n], m)
  <2>1. net' = (net \ {copy}) \cup {<<n, q, m>> : q \in to}
    BY <1>3, Zenon DEF OnMethodLedgerUpNotify, Send
  <2>2. records[n] \in Seq(Record)
    BY <1>1 DEF FloodInv, FloodTyped
  <2>3. Told(rs, m) = {p}
    BY <1>1, <1>3, <2>2, ToldNew DEF Add
  <2>4. p \notin to /\ \A q \in to : <<n, q>> \in link
    BY <2>3 DEF Recipients, Peers
  <2>5. n \notin to
    <3>1. link = bound.link /\ bound \in Scenario
      BY DEF IInv, Typed, FloodInv, FloodTyped
    <3>2. \A e \in link : e[1] # e[2]
      BY <3>1, UpgradeConstants
    <3>3. <<n, n>>[1] = <<n, n>>[2]
      OBVIOUS
    <3>4. <<n, n>> \notin link
      BY <3>2, <3>3
    <3> QED
      BY <2>4, <3>4
  <2> HIDE DEF to, rs
  <2> SUFFICES ASSUME NEW x \in net' \ net, <<x[1], x[3]>> \notin forgot
               PROVE  x \notin crossed' /\ <<x[2], x[1], x[3]>> \notin crossed'
    BY Zenon DEF CrossesOnceStep
  <2>6. PICK q \in to : x = <<n, q, m>>
    BY <2>1
  <2>7. x # copy /\ <<q, n, m>> # copy
    <3>1. x[2] = q /\ copy[2] = n /\ <<q, n, m>>[1] = q /\ copy[1] = p
      BY <2>6
    <3>2. q # n /\ q # p
      BY <2>4, <2>5
    <3> QED
      BY <3>1, <3>2
  <2>8. InFlight(m) /\ ~Remembers(n, m)
    BY <1>1, <1>3, <2>6, QueuedMessages DEF InFlight, Remembers
  <2>9. x \notin crossed /\ <<q, n, m>> \notin crossed
    <3>1. ASSUME NEW y \in crossed, y[3] = m, n \in {y[1], y[2]} PROVE FALSE
      BY <2>8, <3>1 DEF FloodInv, BothRemember
    <3>2. /\ x[3] = m /\ n \in {x[1], x[2]}
          /\ <<q, n, m>>[3] = m /\ n \in {<<q, n, m>>[1], <<q, n, m>>[2]}
      BY <2>6
    <3> QED
      BY <3>1, <3>2
  <2> QED
    BY <1>1, <2>6, <2>7, <2>9
<1> QED
    BY <1>2, <1>3

\* Every step, by cases: only announcing and passing on send copies.
LEMMA NextCrossesOnce ==
    ASSUME IInv, FloodInv, [Next]_vars
    PROVE  CrossesOnceStep
<1>1. ASSUME net' \subseteq net PROVE CrossesOnceStep
    BY <1>1 DEF CrossesOnceStep
<1>2. ASSUME NEW n \in Honest, OnTimer(n) PROVE CrossesOnceStep
  <2>1. CASE net' = net
    BY <1>1, <2>1
  <2>2. CASE local[n] > 0 /\ n \in Validator /\ Send(n, records[n], Announcement(n, local[n]), net)
    <3>1. local[n] \in Version /\ n \in Validator
      <4>1. n \in Node
        BY <2>2, UpgradeConstants, Zenon
      <4>2. local[n] \in 0..MaxVersion
        BY <4>1 DEF IInv, Typed
      <4>3. local[n] > 0 /\ n \in Validator
        BY <2>2, Zenon
      <4> QED
        BY <4>2, <4>3 DEF Version
    <3>2. crossed' = crossed
      BY <1>2, Zenon DEF OnTimer
    <3>3. \A x \in net' \ net : x[3] = Announcement(n, local[n])
      <4> DEFINE ann == Announcement(n, local[n])
                 to == Recipients(n, records[n], ann)
      <4>1. net' = net \cup {<<n, q, ann>> : q \in to}
        BY <2>2, Zenon DEF Send
      <4>2. \A q : <<n, q, ann>>[3] = ann
        OBVIOUS
      <4> HIDE DEF ann, to
      <4>3. \A x \in net' \ net : x[3] = ann
        BY <4>1, <4>2, Zenon
      <4> QED
        BY <4>3 DEF ann
    <3> QED
      BY <3>1, <3>2, <3>3, NewCrossesOnce
  <2> QED
    BY <1>2, <2>1, <2>2, Zenon DEF OnTimer
<1>3. ASSUME NEW f \in Faulty, FaultyAnnounce(f) PROVE CrossesOnceStep
  <2>1. PICK v \in Version, to \in SUBSET Peers(f) :
          net' = net \cup {<<f, p, Announcement(f, v)>> : p \in to}
    BY <1>3 DEF FaultyAnnounce
  <2>2. \A x \in net' \ net : x[3] = Announcement(f, v)
    BY <2>1
  <2>3. crossed' = crossed /\ f \in Validator
    BY <1>3, UpgradeConstants, Zenon DEF FaultyAnnounce
  <2> QED
    BY <2>2, <2>3, NewCrossesOnce
<1>4. ASSUME NEW n \in Honest, NEW x \in net, OnMethodLedgerUpNotify(x[1], n, x[3])
      PROVE  CrossesOnceStep
    BY <1>4, NotifyCrossesOnce
<1>5. ASSUME NEW n \in Honest, NEW v \in Version, Restart(n, v) PROVE net' \subseteq net
    BY <1>5 DEF Restart, Disconnected
<1>6. ASSUME NEW n \in Honest, OnTimerPeers(n) PROVE net' \subseteq net
    BY <1>6, Zenon DEF OnTimerPeers, OnTimerBroadcast
<1>7. ASSUME UNCHANGED broadcastVars PROVE net' \subseteq net
    BY <1>7 DEF broadcastVars
<1>8. ASSUME NEW n \in Honest, StartConsensus(n) PROVE UNCHANGED broadcastVars
    BY <1>8 DEF StartConsensus
<1>9. ASSUME NEW n \in Honest, CloseLedger(n) PROVE UNCHANGED broadcastVars
    BY <1>9 DEF CloseLedger
<1>10. ASSUME NEW n \in Honest, LedgerHasUpgrade(n) PROVE UNCHANGED broadcastVars
    BY <1>10 DEF LedgerHasUpgrade
<1>11. ASSUME Decide PROVE UNCHANGED broadcastVars
    BY <1>11, Zenon DEF Decide
<1>12. ASSUME FaultyPropose PROVE UNCHANGED broadcastVars
    BY <1>12 DEF FaultyPropose
<1>13. ASSUME UNCHANGED vars PROVE UNCHANGED broadcastVars
    BY <1>13 DEF vars
<1> QED
    BY <1>1, <1>2, <1>3, <1>4, <1>5, <1>6, <1>7, <1>8, <1>9, <1>10, <1>11, <1>12, <1>13, Zenon DEF Next

\* For any network and any limit on the records: a node that has not dropped its record
\* of a message early never sends it over a connection that a copy has crossed, in
\* either direction.
THEOREM CrossesOnceAlways == Spec => CrossesOnce
<1>1. IInv /\ FloodInv /\ [Next]_vars => [CrossesOnceStep]_broadcastVars
    BY NextCrossesOnce
<1> QED
    BY <1>1, FloodInvAlways, InvariantAlways, PTL DEF Spec, CrossesOnce, CrossesOnceStep
====

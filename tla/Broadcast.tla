----------------------------- MODULE Broadcast -----------------------------
(***************************************************************************)
(* overlay/broadcast.cpp: how a message floods the peer-to-peer network.   *)
(* Every node remembers the messages it has seen and which peers have them *)
(* already; it sends each on to the others, and forgets the oldest records *)
(* when they expire or become too many.                                    *)
(***************************************************************************)
EXTENDS Naturals, Sequences, FiniteSets

CONSTANTS Node,
          MaxRecords        \* max_size of OnTimer, 1000 * 1000 in the code

ASSUME RecordsLimit == MaxRecords \in Nat

VARIABLES link,             \* the connections that are open, in both directions
          records,          \* records_ of each node, in the order of records_couple_
          net,              \* the copies on their way: <<from, to, message>>
          crossed,          \* ghost: the copies that arrived
          forgot            \* ghost: <<node, message>> for the records dropped early

broadcastVars == <<link, records, net, crossed, forgot>>

Peers(n) == {p \in Node : <<n, p>> \in link}

\* IsQueued.
IsQueued(rs, m) == \E i \in DOMAIN rs : rs[i].msg = m

Told(rs, m) == UNION {rs[i].peers : i \in {j \in DOMAIN rs : rs[j].msg = m}}

\* The record of m, made if there is none, with more peers that have it.
Noted(rs, m, peers) ==
    IF IsQueued(rs, m)
    THEN [i \in DOMAIN rs |-> IF rs[i].msg = m THEN [rs[i] EXCEPT !.peers = @ \cup peers]
                              ELSE rs[i]]
    ELSE Append(rs, [msg |-> m, peers |-> peers])

AddUnknown(rs, m, p) == Noted(rs, m, {})

\* Add, for a message that came from p.
Add(rs, m, p) == Noted(rs, m, {p})

RecipientsIfNew(n, rs, m) == IF IsQueued(rs, m) THEN {} ELSE Peers(n)

\* Send goes to every active peer that is not known to have the message.
Recipients(n, rs, m) == Peers(n) \ Told(rs, m)

\* Send by n, with rs for its records and flying for the copies on their way.
Send(n, rs, m, flying) ==
    LET to == Recipients(n, rs, m)
    IN  /\ records' = [records EXCEPT ![n] = Noted(rs, m, to)]
        /\ net' = flying \cup {<<n, p, m>> : p \in to}
        /\ UNCHANGED <<link, forgot>>

InFlight(m) == \E c \in net : c[3] = m

\* OnTimer drops the records of an hour ago, whose messages have long arrived,
\* and half of the limit when more than the limit are left.
OnTimerBroadcast(n) ==
    \E old \in 0..Len(records[n]) :
        LET left == Len(records[n]) - old
            drop == old + IF left > MaxRecords THEN MaxRecords \div 2 ELSE 0
        IN  /\ \A i \in 1..old : ~InFlight(records[n][i].msg)
            /\ drop > 0
            /\ records' = [records EXCEPT ![n] = SubSeq(@, drop + 1, Len(@))]
            /\ forgot' = forgot \cup {<<n, records[n][i].msg>> : i \in (old + 1)..drop}
            /\ UNCHANGED <<link, net, crossed>>

\* A process that ends takes its records and its connections with it; its peers
\* know it by another id when it is back.
Disconnected(n) ==
    /\ records' = [q \in Node |->
                     IF q = n THEN <<>>
                     ELSE [i \in DOMAIN records[q] |-> [records[q][i] EXCEPT !.peers = @ \ {n}]]]
    /\ net' = {c \in net : n \notin {c[1], c[2]}}
    /\ forgot' = forgot \cup {<<n, records[n][i].msg>> : i \in DOMAIN records[n]}
    /\ UNCHANGED <<link, crossed>>

BroadcastInit(connections) ==
    /\ link = connections
    /\ records = [n \in Node |-> <<>>]
    /\ net = {}
    /\ crossed = {}
    /\ forgot = {}

\* A message crosses a connection once: a node that has not dropped its record of
\* the message early never sends it to a peer that it sent it to, or that it had it
\* from (peers_ of BroadcastRecord).
CrossesOnce ==
    [][\A c \in net' \ net :
         <<c[1], c[3]>> \in forgot
         \/ (c \notin crossed' /\ <<c[2], c[1], c[3]>> \notin crossed')]_broadcastVars
=============================================================================

-------------------------------- MODULE Trie --------------------------------
(***************************************************************************)
(* ledger/trie.cpp and ledger/kv_trie.cpp: the tree whose root hash goes   *)
(* into every ledger header (the accounts) and into every account (its     *)
(* assets and metadata).  Nodes are loaded from the database as they are   *)
(* needed and kept in memory; UpdateHash puts what changed into a batch,   *)
(* which the closing of the ledger writes.  A node that is left with one   *)
(* branch is taken out of the database and of its parent's info, but stays *)
(* where it is in memory.                                                  *)
(*                                                                         *)
(* A location is a sequence of branches: the prefix byte that tells an odd *)
(* from an even number of them is left out.  The hash of a value is the    *)
(* value, that of a node its info, so two hashes are equal iff what they   *)
(* are taken of is.                                                        *)
(***************************************************************************)
EXTENDS Integers, Sequences, FiniteSets, SequencesExt

CONSTANTS Key,          \* the keys, as the locations Key2Location makes
          Value,
          Branch,       \* the branches of a node, 0..15 in the code
          Nil,          \* no node, no value, no hash
          kept,         \* the depth FreeMemory leaves in memory
          loaded        \* the depth Init loads

ASSUME TrieConstants ==
    /\ Key \subseteq Seq(Branch) \ {<<>>}
    /\ Nil \notin Value /\ kept \in Nat /\ loaded \in Nat

VARIABLES mem,          \* Location -> the NodeFrm in memory, or Nil
          root_hash,    \* root_hash_
          db,           \* the database: nodes and leaves by location
          batch,        \* the database as it is once batch_ is written
          content,      \* what the calls of Set and Delete amount to
          stored,       \* the content as of the last write
          phase         \* how far the closing of the ledger is

vars == <<mem, root_hash, db, batch, content, stored, phase>>

Location == UNION {Prefixes(k) : k \in Key}
Root == <<>>
Leaf == 16                          \* children(16) of a node
Slot == Branch \cup {Leaf}

NoChild == [type |-> "NONE", sub |-> Nil, hash |-> Nil]
LeafChild(l, v) == [type |-> "LEAF", sub |-> l, hash |-> v]

CommonPrefix(s, t) == LongestCommonPrefix({s, t})
NextBranch(s, t) == t[Len(s) + 1]

NewNode ==
    [info |-> [x \in Slot |-> NoChild], child |-> [b \in Branch |-> Nil],
     modified |-> TRUE, deleted |-> FALSE, leaf |-> Nil]

\* SetValue: the hash in the info is that of the old value until update_hash.
SetValue(node, l, v) ==
    [node EXCEPT !.modified = TRUE, !.deleted = FALSE, !.leaf = v,
                 !.info[Leaf].type = "LEAF", !.info[Leaf].sub = l]

MarkRemove(node) ==
    [node EXCEPT !.modified = TRUE, !.deleted = TRUE, !.leaf = Nil, !.info[Leaf] = NoChild]

SetChild(node, b, l) ==
    [node EXCEPT !.modified = TRUE, !.child[b] = l, !.info[b].sub = l]

\* The node that info names, as it is loaded: a leaf is part of its parent.
FromDB(info) ==
    IF info.type = "LEAF"
    THEN [NewNode EXCEPT !.modified = FALSE, !.info[Leaf] = info]
    ELSE [NewNode EXCEPT !.modified = FALSE, !.info = db.nodes[info.sub]]

ChildMayFromDB(m, l, b) ==
    LET info == m[l].info[b]
    IN  IF m[l].child[b] # Nil \/ info.type = "NONE" THEN m
        ELSE [m EXCEPT ![l].child[b] = info.sub, ![info.sub] = FromDB(info)]

UnderUnlinked(m, l, b, at, node) == [m EXCEPT ![at] = node]

\* A new node between l and its child on branch b.
Under(m, l, b, at, node) == [m EXCEPT ![l] = SetChild(@, b, at), ![at] = node]

SplitForgetting(m, l, b, key, v) ==
    LET kid == m[l].child[b]
        at == CommonPrefix(key, kid)
        low == SetChild(NewNode, NextBranch(at, kid), kid)
    IN  IF at = key
        THEN Under(m, l, b, at, SetValue(low, at, v))
        ELSE Under([m EXCEPT ![key] = SetValue(NewNode, key, v)], l, b, at,
                   SetChild(low, NextBranch(at, key), key))

\* The child on branch b is not above key: a node at the place where the two
\* part, which is key itself or has a new node for key, takes the child over
\* with what l knew of it.
Split(m, l, b, key, v) ==
    LET kid == m[l].child[b]
        at == CommonPrefix(key, kid)
        b1 == NextBranch(at, kid)
        low == [SetChild(NewNode, b1, kid) EXCEPT !.info[b1] = m[l].info[b]]
    IN  IF at = key
        THEN [Under(m, l, b, at, SetValue(low, at, v)) EXCEPT ![l].info[b].type = "INNER"]
        ELSE Under([m EXCEPT ![key] = SetValue(NewNode, key, v)], l, b, at,
                   SetChild(low, NextBranch(at, key), key))

RECURSIVE SetItem(_, _, _, _)
SetItem(m, l, key, v) ==
    IF l = key THEN [m EXCEPT ![l] = SetValue(@, l, v)]
    ELSE LET b == NextBranch(l, key)
             m1 == ChildMayFromDB([m EXCEPT ![l].modified = TRUE], l, b)
             kid == m1[l].child[b]
         IN  IF kid = Nil
             THEN [Under(m1, l, b, key, SetValue(NewNode, key, v)) EXCEPT
                     ![l].info[b].type = "LEAF"]
             ELSE IF IsPrefix(kid, key) THEN SetItem(m1, kid, key, v)
             ELSE Split(m1, l, b, key, v)

MarkedNever(r, l) == r

\* The nodes above one that DeleteItem found count as modified.
Marked(r, l) == [r EXCEPT !.mem[l].modified = @ \/ r.found]

RECURSIVE DeleteItem(_, _, _)
DeleteItem(m, l, key) ==
    IF l = key THEN [found |-> TRUE, mem |-> [m EXCEPT ![l] = MarkRemove(@)]]
    ELSE LET b == NextBranch(l, key)
             m1 == ChildMayFromDB(m, l, b)
             kid == m1[l].child[b]
         IN  IF kid = Nil \/ ~IsPrefix(kid, key) THEN [found |-> FALSE, mem |-> m1]
             ELSE Marked(DeleteItem(m1, kid, key), l)

\* Exists, with the memory it leaves.
RECURSIVE Exists(_, _, _)
Exists(m, l, key) ==
    IF l = key THEN [found |-> TRUE, mem |-> m]
    ELSE LET b == NextBranch(l, key)
             info == m[l].info[b]
         IN  IF info.type = "NONE" \/ ~IsPrefix(info.sub, key)
             THEN [found |-> FALSE, mem |-> m]
             ELSE LET m1 == ChildMayFromDB(m, l, b)
                  IN  Exists(m1, m1[l].child[b], key)

Answer(key) == IF Exists(mem, Root, key).found THEN db.leaves[key] ELSE Nil

Subs(info, slots, type) == {info[x].sub : x \in {y \in slots : info[y].type = type}}

LeavesOnBranches(info) == Subs(info, Branch, "LEAF")

\* The leaves that a stored node holds: its own and those on its branches.
LeavesOf(info) == Subs(info, Slot, "LEAF")

\* The leaves that the database has at and below a node.
RECURSIVE StorageAssociated(_)
StorageAssociated(l) ==
    LET info == db.nodes[l]
    IN  IF info = Nil THEN {}
        ELSE LeavesOf(info) \cup UNION {StorageAssociated(s) : s \in Subs(info, Branch, "INNER")}

\* GetAllItem for the empty key, the only one it is asked for.
GetAllItem == StorageAssociated(Root)

\* The leaf of a node, in its info and in the batch.
HashLeaf(s, l) ==
    LET node == s.mem[l]
    IN  IF node.deleted
        THEN [s EXCEPT !.mem[l].info[Leaf] = NoChild, !.leaves[l] = Nil]
        ELSE IF node.leaf # Nil
        THEN [s EXCEPT !.mem[l].info[Leaf] = LeafChild(l, node.leaf),
                       !.leaves[l] = node.leaf]
        ELSE s

SaveKeeping(s, l) ==
    LET info == s.mem[l].info
        used == {x \in Slot : info[x].type # "NONE"}
        done == [s EXCEPT !.mem[l].modified = FALSE]
    IN  IF Cardinality(used) > 1 \/ l = Root
        THEN [s |-> [done EXCEPT !.nodes[l] = info],
              child |-> [type |-> "INNER", sub |-> l, hash |-> info]]
        ELSE [s |-> done,
              child |-> IF used = {} THEN NoChild ELSE info[CHOOSE x \in used : TRUE]]

\* A node with one branch is replaced by what is on it, one without by nothing.
Save(s, l) ==
    LET info == s.mem[l].info
        used == {x \in Slot : info[x].type # "NONE"}
        done == [s EXCEPT !.mem[l].modified = FALSE]
    IN  IF Cardinality(used) > 1 \/ l = Root
        THEN [s |-> [done EXCEPT !.nodes[l] = info],
              child |-> [type |-> "INNER", sub |-> l, hash |-> info]]
        ELSE [s |-> [done EXCEPT !.nodes[l] = Nil],
              child |-> IF used = {} THEN NoChild ELSE info[CHOOSE x \in used : TRUE]]

RECURSIVE update_hash(_, _)
update_hash(s, l) ==
    LET Step(t, b) ==
            LET kid == t.mem[l].child[b]
            IN  IF kid = Nil THEN t
                ELSE IF ~t.mem[kid].modified THEN t
                ELSE LET r == update_hash(t, kid)
                     IN  [r.s EXCEPT !.mem[l].info[b] = r.child]
    IN  Save(FoldLeft(Step, HashLeaf(s, l), SetToSeq(Branch)), l)

\* Release: the nodes below the kept depth go.
RECURSIVE Release(_, _, _)
Release(m, l, depth) ==
    LET Step(t, b) ==
            LET kid == t[l].child[b]
            IN  IF kid = Nil THEN t
                ELSE LET t1 == Release(t, kid, depth - 1)
                     IN  IF depth > 0 THEN t1
                         ELSE [t1 EXCEPT ![l].child[b] = Nil, ![kid] = Nil]
    IN  FoldLeft(Step, m, SetToSeq(Branch))

RECURSIVE Load(_, _, _)
Load(m, l, depth) ==
    LET Step(t, b) ==
            LET t1 == ChildMayFromDB(t, l, b)
            IN  IF t1[l].child[b] = Nil THEN t1 ELSE Load(t1, t1[l].child[b], depth - 1)
    IN  IF depth < 0 THEN m ELSE FoldLeft(Step, m, SetToSeq(Branch))

Opened ==
    LET root == [NewNode EXCEPT !.info = IF db.nodes[Root] = Nil THEN @ ELSE db.nodes[Root]]
        m == [l \in Location |-> IF l = Root THEN root ELSE Nil]
    IN  IF db.nodes[Root] = Nil THEN m ELSE Load(m, Root, loaded)

----------------------------------------------------------------------------

\* LedgerFrm::Commit and AccountFrm::UpdateHash set and delete entries.
Set(k, v) ==
    /\ phase = "open"
    /\ mem' = SetItem(mem, Root, k, v)
    /\ content' = [content EXCEPT ![k] = v]
    /\ UNCHANGED <<root_hash, db, batch, stored, phase>>

Delete(k) ==
    /\ phase = "open"
    /\ mem' = DeleteItem(mem, Root, k).mem
    /\ content' = [content EXCEPT ![k] = Nil]
    /\ UNCHANGED <<root_hash, db, batch, stored, phase>>

UpdateHash ==
    /\ phase = "open"
    /\ LET r == update_hash([mem |-> mem, nodes |-> batch.nodes, leaves |-> batch.leaves], Root)
       IN  /\ mem' = r.s.mem
           /\ batch' = [nodes |-> r.s.nodes, leaves |-> r.s.leaves]
           /\ root_hash' = r.child.hash
    /\ phase' = "hashed"
    /\ UNCHANGED <<db, content, stored>>

\* CloseLedger writes the batch and starts a new one ...
WriteBatch ==
    /\ phase = "hashed"
    /\ db' = batch
    /\ stored' = content
    /\ phase' = "written"
    /\ UNCHANGED <<mem, root_hash, batch, content>>

\* ... and frees memory, with tree_mutex_ held.
FreeMemory ==
    /\ phase = "written"
    /\ mem' = Release(mem, Root, kept)
    /\ phase' = "open"
    /\ UNCHANGED <<root_hash, db, batch, content, stored>>

\* A pre-execution, or a query, looks a key up: at any time, since the closing of
\* a ledger holds tree_mutex_ only while it frees memory.
Get(k) ==
    /\ mem' = Exists(mem, Root, k).mem
    /\ UNCHANGED <<root_hash, db, batch, content, stored, phase>>

\* Init: the trie of an account is made anew for every use, that of the accounts
\* after a crash, which loses the batch that was not written.
Reopen ==
    /\ mem' = Opened
    /\ root_hash' = Nil
    /\ batch' = db
    /\ content' = stored
    /\ phase' = "open"
    /\ UNCHANGED <<db, stored>>

Init ==
    /\ db = [nodes |-> [l \in Location |-> Nil], leaves |-> [l \in Location |-> Nil]]
    /\ batch = db
    /\ mem = Opened
    /\ root_hash = Nil
    /\ content = [k \in Key |-> Nil]
    /\ stored = content
    /\ phase = "open"

Next ==
    \/ \E k \in Key : Get(k) \/ Delete(k) \/ \E v \in Value : Set(k, v)
    \/ UpdateHash \/ WriteBatch \/ FreeMemory \/ Reopen

Spec == Init /\ [][Next]_vars

----------------------------------------------------------------------------
(* The tree that a content has: a node wherever two keys part or one ends  *)
(* that others go on from, and the root.                                   *)

Below(c, l) == {k \in Key : c[k] # Nil /\ IsPrefix(l, k)}

RECURSIVE Canonical(_, _)
Canonical(c, l) ==
    LET keys == Below(c, l)
        at == IF l = Root THEN Root ELSE LongestCommonPrefix(keys)
        Kids == [x \in Slot |-> IF x # Leaf THEN Canonical(c, Append(at, x))
                                ELSE IF at \in keys THEN LeafChild(at, c[at]) ELSE NoChild]
    IN  IF l # Root /\ keys = {} THEN NoChild
        ELSE IF l # Root /\ Cardinality(keys) = 1
        THEN LET k == CHOOSE k \in keys : TRUE IN LeafChild(k, c[k])
        ELSE [type |-> "INNER", sub |-> at, hash |-> Kids]

\* Between UpdateHash and the next change, the root hash is that of the content:
\* it depends neither on the order of the calls, nor on what was loaded, freed
\* or read in between, nor on entries that were deleted.  This is what makes
\* the account_tree_hash of every validator the same, and what Initialize
\* compares after a restart.
RootIsCanonical ==
    phase # "open" => root_hash = Canonical(content, Root).hash

Branches(c, l) ==
    Cardinality({b \in Branch : Below(c, Append(l, b)) # {}})
      + (IF l \in Below(c, l) THEN 1 ELSE 0)

\* What UpdateHash hands to the batch is the whole tree and nothing else: no
\* node is missing, which ChildMayFromDB would end the process for, and none is
\* left behind (StorageSaveNode, StorageDeleteNode).
StoreIsCanonical ==
    phase # "open" =>
        \A l \in Location :
            /\ batch.leaves[l] = IF l \in Key THEN content[l] ELSE Nil
            /\ batch.nodes[l] = IF l = Root \/ Branches(content, l) > 1
                                THEN Canonical(content, l).hash ELSE Nil

\* A lookup at any moment of a closing answers with the entry before or after
\* it: a key is never missed because of a node that is being inserted, replaced
\* or left out.
ReadsOldOrNew == \A k \in Key : Answer(k) \in {stored[k], content[k]}

\* A listing of all assets or metadata (GetAll) finds every stored entry, however
\* the tree in the database came about.
ListsStored == GetAllItem = {k \in Key : stored[k] # Nil}

\* The nodes in memory form a tree by location: every one but the root has one
\* parent, whose location it extends by the branch it is on (SetChild).
MemoryIsTree ==
    /\ mem[Root] # Nil
    /\ \A l \in Location : mem[l] # Nil => \A b \in Branch :
          LET kid == mem[l].child[b]
          IN  kid # Nil => mem[kid] # Nil /\ IsPrefix(Append(l, b), kid)
    /\ \A l \in Location \ {Root} :
          mem[l] # Nil =>
            Cardinality({<<p, b>> \in Location \X Branch :
                           mem[p] # Nil /\ mem[p].child[b] = l}) = 1
=============================================================================

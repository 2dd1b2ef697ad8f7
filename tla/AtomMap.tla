------------------------------ MODULE AtomMap ------------------------------
(***************************************************************************)
(* utils/atom_map.h and the nesting of ledger/environment.cpp: a buffer of *)
(* changes over a map of records, the records pointing at shared objects   *)
(* that callers change in place.  frames[1] is the buffer of the           *)
(* environment a LedgerFrm creates, over its own stor; the environment of  *)
(* a transaction that a contract starts (NewStackFrameEnv) has the buffer  *)
(* of the environment around it as its data.                               *)
(***************************************************************************)
EXTENDS Naturals, Sequences

CONSTANTS Key,
          MaxValue,         \* values are 0..MaxValue, changes wrap round
          NoEntry,          \* no value: an absent key
          MaxDepth          \* bound on the environments that are open at once

ASSUME MapConstants == MaxValue \in Nat /\ MaxDepth \in Nat \ {0}
                       /\ NoEntry \notin 0..MaxValue

VARIABLES db,       \* what GetFromDB answers: the last closed ledger
          heap,     \* the objects the shared pointers of each key point at
          stor,     \* stor_ of the outermost environment
          frames    \* buff_ of every open environment, the outermost first

vars == <<db, heap, stor, frames>>

Value == 0..MaxValue
Changed(v) == (v + 1) % (MaxValue + 1)
Ptr == 1..(MaxDepth + 2)
Null == 0

\* A record of a Map; a key without one has type MAX, as Record() is made.
Record == [type : {"MOD", "ADD", "DEL", "MAX"}, ptr : Ptr \cup {Null}]
Unset == [type |-> "MAX", ptr |-> Null]
Deleted == [type |-> "DEL", ptr |-> Null]
Empty == [k \in Key |-> Unset]

Depth == Len(frames)

\* The map that frame f lies on: stor_, or the buffer around it.
Data(f) == IF f = 1 THEN stor ELSE frames[f - 1]

\* The record that frame f has for k, with stor_ as frame 0.
At(f, k) == IF f = 0 THEN stor[k] ELSE frames[f][k]

Pointers(s, fs, k) == {s[k].ptr} \cup {fs[f][k].ptr : f \in DOMAIN fs}

\* make_shared: an object nothing points at.
Fresh(k) == CHOOSE p \in Ptr : p \notin Pointers(stor, frames, k)

\* The objects nothing points at any more are destroyed.
Collected(h, s, fs) ==
    [k \in Key |-> [p \in Ptr |-> IF p \in Pointers(s, fs, k) THEN h[k][p] ELSE 0]]

GetValueShared(k) ==
    LET own == frames[Depth][k]
        below == Data(Depth)[k]
        missing == [found |-> FALSE, rec |-> own, val |-> 0]
    IN  IF own.type \in {"MOD", "ADD"}
        THEN [found |-> TRUE, rec |-> own, val |-> heap[k][own.ptr]]
        ELSE IF own.type # "DEL" /\ below.type \in {"MOD", "ADD"}
        THEN [found |-> TRUE, rec |-> below, val |-> heap[k][below.ptr]]
        ELSE missing

\* GetValue of the top frame: a record of the buffer, else a copy of the one
\* in the data, else an object read from the database.
GetValue(k) ==
    LET own == frames[Depth][k]
        below == Data(Depth)[k]
        missing == [found |-> FALSE, rec |-> own, val |-> 0]
    IN  IF own.type # "MAX"
        THEN IF own.type = "DEL" THEN missing
             ELSE [found |-> TRUE, rec |-> own, val |-> heap[k][own.ptr]]
        ELSE IF below.type # "MAX"
        THEN IF below.type = "DEL" THEN missing
             ELSE [found |-> TRUE, rec |-> [type |-> "MOD", ptr |-> Fresh(k)],
                   val |-> heap[k][below.ptr]]
        ELSE IF db[k] = NoEntry THEN missing
        ELSE [found |-> TRUE, rec |-> [type |-> "ADD", ptr |-> Fresh(k)],
              val |-> db[k]]

\* The top buffer with a record for k, its object holding v.
Put(k, rec, v) ==
    LET fs == [frames EXCEPT ![Depth][k] = rec]
        h == IF rec.ptr = Null THEN heap ELSE [heap EXCEPT ![k][rec.ptr] = v]
    IN  /\ frames' = fs
        /\ heap' = Collected(h, stor, fs)
        /\ UNCHANGED <<db, stor>>

\* A caller that only looks: the entry is copied into the buffer.
GetEntry(k) ==
    LET get == GetValue(k)
    IN  get.found /\ Put(k, get.rec, get.val)

\* A caller that changes the object it was given, as set_balance does.
ChangeEntry(k) ==
    LET get == GetValue(k)
    IN  get.found /\ Put(k, get.rec, Changed(get.val))

\* AddEntry, which its callers reach when GetEntry found nothing.
AddEntry(k) ==
    /\ ~GetValue(k).found
    /\ Put(k, [type |-> "MOD", ptr |-> Fresh(k)], 0)

Del(k) == Put(k, Deleted, 0)

Merged(data, buff) == [k \in Key |-> IF buff[k].type = "MAX" THEN data[k] ELSE buff[k]]

\* The data and the buffers after a commit of the top frame onto data.
CommitWith(data, buff) ==
    LET s == IF Depth = 1 THEN data ELSE stor
        fs == [f \in 1..Depth |-> IF f = Depth THEN buff
                                  ELSE IF f = Depth - 1 THEN data ELSE frames[f]]
    IN  /\ stor' = s
        /\ frames' = fs
        /\ heap' = Collected(heap, s, fs)
        /\ UNCHANGED db

CommitNew ==
    CommitWith([k \in Key |-> IF Data(Depth)[k].type = "MAX" THEN frames[Depth][k]
                              ELSE Data(Depth)[k]], Empty)

\* DirectCommit and CopyCommit: the buffer's records, pointers and all, become
\* the data's, and the buffer is cleared.
Commit == CommitWith(Merged(Data(Depth), frames[Depth]), Empty)

ClearChangeBuf ==
    LET fs == [frames EXCEPT ![Depth] = Empty]
    IN  /\ frames' = fs
        /\ heap' = Collected(heap, stor, fs)
        /\ UNCHANGED <<db, stor>>

\* DoTransaction opens an environment over the current one ...
NewStackFrameEnv ==
    /\ Depth < MaxDepth
    /\ frames' = Append(frames, Empty)
    /\ UNCHANGED <<db, heap, stor>>

DropFrameMerges ==
    /\ Depth > 1
    /\ LET fs == [SubSeq(frames, 1, Depth - 1) EXCEPT
                    ![Depth - 1] = Merged(@, frames[Depth])]
       IN  frames' = fs /\ heap' = Collected(heap, stor, fs)
    /\ UNCHANGED <<db, stor>>

\* ... and drops it when the transaction ends.
DropFrame ==
    /\ Depth > 1
    /\ LET fs == SubSeq(frames, 1, Depth - 1)
       IN  frames' = fs /\ heap' = Collected(heap, stor, fs)
    /\ UNCHANGED <<db, stor>>

Init ==
    /\ db \in [Key -> Value \cup {NoEntry}]
    /\ heap = [k \in Key |-> [p \in Ptr |-> 0]]
    /\ stor = Empty
    /\ frames = <<Empty>>

Next ==
    \/ \E k \in Key : GetEntry(k) \/ ChangeEntry(k) \/ AddEntry(k) \/ Del(k)
    \/ Commit \/ ClearChangeBuf \/ NewStackFrameEnv \/ DropFrame

Spec == Init /\ [][Next]_vars

----------------------------------------------------------------------------

\* The type of every variable; AtomMapProofs shows that it always holds.
TypeOK ==
    /\ db \in [Key -> Value \cup {NoEntry}]
    /\ heap \in [Key -> [Ptr -> Value]]
    /\ stor \in [Key -> Record]
    /\ frames \in Seq([Key -> Record]) /\ Depth \in 1..MaxDepth

\* What a map's record for k stands for, below what lies under it.
Seen(k, rec, under) ==
    CASE rec.type = "MAX" -> under [] rec.type = "DEL" -> NoEntry
      [] OTHER -> heap[k][rec.ptr]

\* No two records share an object, which is what the comment of DirectCommit
\* ("it must be clear, otherwise the later modification to them will aslo
\* directly act on data_") asks of every commit.
NoAlias ==
    \A k \in Key : \A f, g \in 0..Depth :
        f # g /\ At(f, k).ptr = At(g, k).ptr => At(f, k).ptr = Null

\* The records of a map, each with the value it points at.
Held(map, h) ==
    [k \in Key |-> IF map[k].ptr = Null THEN <<map[k].type, 0>> ELSE <<"MOD", h[k][map[k].ptr]>>]

ChangesBelow ==
    \A f \in 0..(Depth - 1) :
        LET map == IF f = 0 THEN stor ELSE frames[f]
            after == IF f = 0 THEN stor' ELSE frames'[f]
        IN  Held(after, heap') # Held(map, heap)
              => f = Depth - 1 /\ Len(frames') = Depth /\ frames'[Depth] = Empty

\* Nothing that lies under the open transaction changes before the transaction
\* commits, and the commit leaves an empty buffer: the changes of a transaction
\* that is cleared or dropped never reach the ledger.
ChangesOnlyAtCommit == [][ChangesBelow]_vars

\* The entries below the outermost frame, and as it shows them.
Base == [k \in Key |-> Seen(k, stor[k], db[k])]
Work == [k \in Key |-> Seen(k, frames[1][k], Base[k])]

\* The environment of a ledger is a transactional map, whatever transactions are
\* nested in it: every step is a step of TransactionalMap, reads being none.
Abstract == INSTANCE TransactionalMap
            WITH base <- Base, work <- Work, open <- Depth, NewValue <- {0}
Transactional == Abstract!MapSpec

\* The entries as the nesting means them: those of frame f over those of every
\* frame around it, over stor_, over the database.
View[f \in 0..Depth] ==
    [k \in Key |-> IF f = 0 THEN Base[k]
                    ELSE Seen(k, frames[f][k], View[f - 1][k])]

\* GetValue answers with the latest entry of the transactions around it.  NOT an
\* invariant: it looks at the buffer just below, and past the ones below that.
ReadsLatest ==
    \A k \in Key : LET get == GetValue(k)
                    IN  (IF get.found THEN get.val ELSE NoEntry) = View[Depth][k]
=============================================================================

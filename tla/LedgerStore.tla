---------------------------- MODULE LedgerStore -----------------------------
(***************************************************************************)
(* How ledger/ledger_manager.cpp keeps the last closed ledger on disk.     *)
(*                                                                         *)
(* CloseLedger writes two databases one after the other: ledger_db (the    *)
(* header, the consensus value, the transactions and KEY_LEDGER_SEQ, one   *)
(* batch) and account_db (the account tree, the validators, the proof and  *)
(* its own KEY_LEDGER_SEQ, another batch).  The process may die at any     *)
(* moment; Initialize starts from what is on disk, after                   *)
(* CheckAndRepairLedgerSeq, which does nothing on Linux.                   *)
(*                                                                         *)
(* Initialize compares hashes.  The hash of the account tree stands for    *)
(* the ledger that made it, since AllocateReward pays a block reward and   *)
(* changes the tree in every ledger; the hash of the validators for the    *)
(* last ledger that changed them, which is all that a header keeps here;   *)
(* a proof for the ledger it proves.  0 is no proof and no ledger.         *)
(***************************************************************************)
EXTENDS Integers, Sequences

CONSTANTS
    OS_LINUX,       \* the platform the program is built for
    MaxLedger,      \* bound: ledgers closed
    MaxCrashes      \* bound: crashes

ASSUME StoreConstants ==
    OS_LINUX \in BOOLEAN /\ MaxLedger \in Nat \ {0} /\ MaxCrashes \in Nat

VARIABLES
    pc,             \* where the process is
    closed,         \* last_closed_ledger_ in memory
    tree,           \* tree_ in memory
    validators,     \* validators_ in memory
    proof,          \* proof_ in memory
    headers,        \* ledger_db: header of every ledger
    ledger_seq,     \* ledger_db: KEY_LEDGER_SEQ
    account_seq,    \* account_db: KEY_LEDGER_SEQ
    account_tree,   \* account_db: the tree
    account_vals,   \* account_db: the sets ValidatorsSet has stored
    last_proof,     \* account_db: LAST_PROOF
    told,           \* highest ledger NotifyLedgerClose has announced
    crashes

memory == <<closed, tree, validators, proof>>
account_db == <<account_seq, account_tree, account_vals, last_proof>>
ledger_db == <<headers, ledger_seq>>
store_vars == <<pc, memory, ledger_db, account_db, told, crashes>>

\* "down": not running; "failed": Initialize returned false; "genesis" and
\* "written": between the two database writes of CreateGenesisAccount and of
\* CloseLedger; "closing": tree and batches made, nothing written.
Pcs == {"down", "failed", "genesis", "up", "closing", "written"}

\* The validators after ledger s, which changes them or not.
NextValidators(s, voted) == IF voted THEN s ELSE validators

-----------------------------------------------------------------------------
(* Initialize.                                                             *)

\* CheckAndRepairLedgerSeq refuses to go on ...
Refused ==
    /\ ~OS_LINUX
    /\ ledger_seq # account_seq
    /\ ledger_seq = 0 \/ account_seq = 0 \/ account_seq # ledger_seq - 1

RepairedNever == ledger_seq

\* ... or puts KEY_LEDGER_SEQ of ledger_db back to that of account_db.
Repaired == IF OS_LINUX THEN ledger_seq ELSE account_seq

InitializeUnchecked(s) ==
    \/ Refused
    \/ account_seq # 0 /\ (s \notin DOMAIN headers \/ headers[s] \notin account_vals)

\* Initialize returns false.
InitializeFails(s) ==
    \/ Refused
    \/ /\ account_seq # 0
       /\ \/ s \notin DOMAIN headers             \* LoadFromDb
          \/ headers[s] \notin account_vals      \* ValidatorsGet
          \/ account_tree # s                    \* account_tree_hash

\* CreateGenesisAccount up to AddToDb: there is no KEY_LEDGER_SEQ in account_db.
CreateGenesisAccount ==
    /\ pc = "down" /\ account_seq = 0 /\ ~Refused
    /\ pc' = "genesis"
    /\ closed' = 1 /\ tree' = 1 /\ validators' = 1 /\ proof' = 0
    /\ headers' = <<1>> /\ ledger_seq' = 1
    /\ UNCHANGED <<account_db, told, crashes>>

\* The rest of CreateGenesisAccount and of Initialize.
GenesisWritten ==
    /\ pc = "genesis"
    /\ pc' = "up"
    /\ account_seq' = 1 /\ account_tree' = 1 /\ account_vals' = account_vals \cup {1}
    /\ told' = IF told = 0 THEN 1 ELSE told
    /\ UNCHANGED <<memory, ledger_db, last_proof, crashes>>

\* Initialize of a node that has ledgers.
Initialize ==
    /\ pc = "down"
    /\ account_seq # 0 \/ Refused
    /\ IF InitializeFails(Repaired)
         THEN pc' = "failed" /\ UNCHANGED <<memory, ledger_db>>
         ELSE /\ pc' = "up"
              /\ ledger_seq' = Repaired /\ headers' = headers
              /\ closed' = Repaired
              /\ tree' = account_tree
              /\ validators' = headers[Repaired]
              /\ proof' = last_proof
    /\ UNCHANGED <<account_db, told, crashes>>

-----------------------------------------------------------------------------
(* CloseLedger.                                                            *)

\* Up to the database writes: executes the block, updates tree_, validators_
\* and proof_.  A ledger that is on disk already is closed again as it was.
CloseLedger(voted) ==
    /\ pc = "up" /\ closed < MaxLedger
    /\ pc' = "closing"
    /\ tree' = closed + 1
    /\ validators' = NextValidators(closed + 1, voted)
    /\ closed + 1 \in DOMAIN headers => validators' = headers[closed + 1]
    /\ proof' = closed + 1
    /\ UNCHANGED <<closed, ledger_db, account_db, told, crashes>>

AddToDbTold ==
    /\ pc = "closing"
    /\ pc' = "written"
    /\ headers' = [s \in 1 .. closed + 1 |-> IF s = closed + 1 THEN validators ELSE headers[s]]
    /\ ledger_seq' = closed + 1 /\ told' = closed + 1
    /\ UNCHANGED <<memory, account_db, crashes>>

\* AddToDb writes ledger_db.
AddToDb ==
    /\ pc = "closing"
    /\ pc' = "written"
    /\ headers' = [s \in 1 .. closed + 1 |-> IF s = closed + 1 THEN validators ELSE headers[s]]
    /\ ledger_seq' = closed + 1
    /\ UNCHANGED <<memory, account_db, told, crashes>>

WriteBatchUnproved ==
    /\ pc = "written"
    /\ pc' = "up"
    /\ account_seq' = closed + 1 /\ account_tree' = tree
    /\ account_vals' = account_vals \cup {validators}
    /\ closed' = closed + 1 /\ told' = closed + 1
    /\ UNCHANGED <<tree, validators, proof, ledger_db, last_proof, crashes>>

WriteBatchUnvoted ==
    /\ pc = "written"
    /\ pc' = "up"
    /\ account_seq' = closed + 1 /\ account_tree' = tree
    /\ last_proof' = proof
    /\ closed' = closed + 1 /\ told' = closed + 1
    /\ UNCHANGED <<tree, validators, proof, ledger_db, account_vals, crashes>>

\* WriteBatch writes account_db; last_closed_ledger_ is updated and announced.
WriteBatch ==
    /\ pc = "written"
    /\ pc' = "up"
    /\ account_seq' = closed + 1 /\ account_tree' = tree
    /\ account_vals' = account_vals \cup {validators}
    /\ last_proof' = proof
    /\ closed' = closed + 1 /\ told' = closed + 1
    /\ UNCHANGED <<tree, validators, proof, ledger_db, crashes>>

\* The process dies, or a write fails and PROCESS_EXIT ends it.
Crash ==
    /\ pc \notin {"down", "failed"} /\ crashes < MaxCrashes
    /\ pc' = "down" /\ crashes' = crashes + 1
    /\ closed' = 0 /\ tree' = 0 /\ validators' = 0 /\ proof' = 0
    /\ UNCHANGED <<ledger_db, account_db, told>>

-----------------------------------------------------------------------------

StoreInit ==
    /\ pc = "down"
    /\ closed = 0 /\ tree = 0 /\ validators = 0 /\ proof = 0
    /\ headers = <<>> /\ ledger_seq = 0
    /\ account_seq = 0 /\ account_tree = 0 /\ account_vals = {} /\ last_proof = 0
    /\ told = 0 /\ crashes = 0

StoreNext ==
    \/ CreateGenesisAccount
    \/ GenesisWritten
    \/ Initialize
    \/ \E voted \in BOOLEAN : CloseLedger(voted)
    \/ AddToDb
    \/ WriteBatch
    \/ Crash

StoreSpec == StoreInit /\ [][StoreNext]_store_vars

-----------------------------------------------------------------------------

StoreTypeOK ==
    /\ pc \in Pcs
    /\ closed \in Nat /\ tree \in Nat /\ validators \in Nat /\ proof \in Nat
    /\ headers \in Seq(Nat) /\ ledger_seq \in Nat
    /\ account_seq \in Nat /\ account_tree \in Nat
    /\ account_vals \in SUBSET Nat /\ last_proof \in Nat
    /\ told \in Nat /\ crashes \in Nat

\* A running node, whatever crashes came before, has both databases at its
\* last closed ledger, and in memory the tree, validators and proof of it.
\* Initialize and CloseLedger each rely on this for the next ledger.
Consistent ==
    pc = "up" =>
        /\ ledger_seq = closed /\ account_seq = closed /\ closed \in DOMAIN headers
        /\ headers[closed] = validators
        /\ tree = closed /\ account_tree = closed /\ validators \in account_vals

\* The proof a running node holds, from which StartConsensus takes the proof
\* of the previous block and which OnRequestLedgers sends, is the one of its
\* last closed ledger (the first ledger has none).
ProofOfLast == pc = "up" => proof = (IF closed = 1 THEN 0 ELSE closed)

\* A node never comes back with fewer ledgers than NotifyLedgerClose announced.
NeverForgets == pc = "up" => closed >= told

\* Once the first ledger is complete, Initialize succeeds after every crash.
RestartsAfterGenesis == pc = "failed" => told = 0
=============================================================================

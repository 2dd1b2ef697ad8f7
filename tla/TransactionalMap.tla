-------------------------- MODULE TransactionalMap --------------------------
(***************************************************************************)
(* What an execution environment promises the transactions of a ledger: a  *)
(* map that each of them changes as a whole or not at all.  work is the    *)
(* map as the running transaction sees it, base the one it started from.   *)
(* While a transaction that a contract started is open (open > 1), the     *)
(* outer one waits, and takes over whatever the inner one hands it.        *)
(***************************************************************************)
EXTENDS Naturals

CONSTANTS Key,
          Value,
          NoEntry,          \* what a key without an entry maps to
          NewValue,         \* the values an entry may be made with
          Changed(_),       \* the value a caller turns a read value into
          MaxDepth          \* how deep transactions nest

VARIABLES base, work, open

mapVars == <<base, work, open>>

Maps == [Key -> Value \cup {NoEntry}]

Write(k, v) ==
    /\ open = 1
    /\ work' = [work EXCEPT ![k] = v]
    /\ UNCHANGED <<base, open>>

ChangeEntry(k) == work[k] # NoEntry /\ Write(k, Changed(work[k]))

AddEntry(k) == work[k] = NoEntry /\ \E v \in NewValue : Write(k, v)

Erase(k) == Write(k, NoEntry)

Submit ==
    /\ open = 1
    /\ base' = work
    /\ UNCHANGED <<work, open>>

Discard ==
    /\ open = 1
    /\ work' = base
    /\ UNCHANGED <<base, open>>

Begin ==
    /\ open < MaxDepth
    /\ open' = open + 1
    /\ UNCHANGED <<base, work>>

End ==
    /\ open > 1
    /\ open' = open - 1
    /\ UNCHANGED <<base, work>>

TakeOver ==
    /\ open > 1
    /\ work' \in Maps
    /\ UNCHANGED <<base, open>>

MapInit == base \in Maps /\ work = base /\ open = 1

MapNext ==
    \/ \E k \in Key : ChangeEntry(k) \/ AddEntry(k) \/ Erase(k)
    \/ Submit \/ Discard \/ Begin \/ End \/ TakeOver

MapSpec == MapInit /\ [][MapNext]_mapVars
=============================================================================

----------------------------- MODULE MCAtomMap -----------------------------
(***************************************************************************)
(* AtomMap for TLC: nothing tells one key from another.                    *)
(***************************************************************************)
EXTENDS AtomMap, TLC

Symmetry == Permutations(Key)
=============================================================================

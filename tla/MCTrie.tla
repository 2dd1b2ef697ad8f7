------------------------------- MODULE MCTrie -------------------------------
(***************************************************************************)
(* Trie with keys of one byte and of two, one of which begins others, that *)
(* part after an even and after an odd number of branches.                 *)
(***************************************************************************)
EXTENDS Trie

TheKeys == {<<0, 0>>, <<0, 1>>, <<0, 0, 1, 0>>, <<0, 0, 1, 1>>}

Symmetry == Permutations(Value)
=============================================================================

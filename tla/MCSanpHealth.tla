---------------------------- MODULE MCSanpHealth ----------------------------
(* Small instances of SanpHealth for TLC. *)
EXTENDS SanpHealth, TLC

Symmetry == Permutations(Workers) \union Permutations(Items)
            \union Permutations(Runs)
=============================================================================

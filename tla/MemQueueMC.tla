----------------------------- MODULE MemQueueMC ------------------------------
(* Small instances of MemQueue. *)
EXTENDS MemQueue, TLC

CONSTANTS p1, p2, c1, c2, m1, m2

Symmetry ==
    Permutations({p1, p2}) \union Permutations({c1, c2})
        \union Permutations({m1, m2})
=============================================================================

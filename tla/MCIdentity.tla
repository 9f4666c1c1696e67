----------------------------- MODULE MCIdentity -----------------------------
(***************************************************************************)
(* Identity on a small instance.                                            *)
(***************************************************************************)
EXTENDS Identity, TLC

CONSTANTS c1, c2, l1, l2, s1, s2

Symmetry ==
  Permutations(Calls) \cup Permutations(Links) \cup Permutations(Sessions)

=============================================================================

--------------------------- MODULE MCInMemoryStores ---------------------------
(***************************************************************************)
(* InMemoryStores on small instances.                                      *)
(***************************************************************************)
EXTENDS InMemoryStores, TLC

CONSTANTS c1, c2, c3

CallSymmetry == Permutations({c1, c2, c3})

=============================================================================

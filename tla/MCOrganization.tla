---------------------------- MODULE MCOrganization --------------------------
(***************************************************************************)
(* Organization on a small instance.                                        *)
(***************************************************************************)
EXTENDS Organization, TLC

CONSTANTS o1, o2, x1, x2, m1, m2, m3, v1, c1, c2

Symmetry ==
  Permutations(Orgs) \cup Permutations(Identities)
    \cup Permutations(Memberships) \cup Permutations(Invitations)
    \cup Permutations(Calls)

=============================================================================

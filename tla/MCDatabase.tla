----------------------------- MODULE MCDatabase -----------------------------
(***************************************************************************)
(* Database on a small instance.                                           *)
(***************************************************************************)
EXTENDS Database

CONSTANTS c1, c2, c3

=============================================================================

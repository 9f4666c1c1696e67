----------------------------- MODULE MCMigration -----------------------------
(* Small instances of Migration: a release, its successor, a fork that edited
   the second migration, one that lost it, and a malformed list. *)
EXTENDS Migration

m(v, s) == [version |-> v, sum |-> s]

MCEntries == [p \in Processes |->
  CASE p = "old"    -> << m(1, "a"), m(2, "b"), m(3, "c") >>
    [] p = "new"    -> << m(1, "a"), m(2, "b"), m(3, "c"), m(4, "d") >>
    [] p = "fork"   -> << m(1, "a"), m(2, "b"), m(3, "x") >>
    [] p = "gap"    -> << m(1, "a"), m(2, "b"), m(4, "d") >>
    [] p = "broken" -> << m(1, "a"), m(3, "c"), m(2, "b") >> ]

MCBaseline == << "a", "b" >>
=============================================================================

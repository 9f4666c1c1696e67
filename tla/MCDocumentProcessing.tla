------------------------ MODULE MCDocumentProcessing ------------------------
(***************************************************************************)
(* DocumentProcessing on small instances.                                  *)
(***************************************************************************)
EXTENDS DocumentProcessing, TLC

CONSTANTS j1, j2, c1, c2, c3

(* The first job may be tried twice, the second once. *)
TwoJobs == {<<j1, 2>>, <<j2, 1>>}

(* One job with one attempt. *)
OneJob == {<<j1, 1>>}

CallSymmetry == Permutations({c1, c2, c3})

=============================================================================

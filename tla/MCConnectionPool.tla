-------------------------- MODULE MCConnectionPool --------------------------
(***************************************************************************)
(* ConnectionPool for TLC.  Borrowers are interchangeable in the runs that *)
(* check only safety.                                                      *)
(***************************************************************************)
EXTENDS ConnectionPool

AnyOrder == Permutations(Borrowers)

=============================================================================

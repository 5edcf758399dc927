------------------------------ MODULE MCAuth ------------------------------
(***************************************************************************)
(* TLC instances of Auth.                                                  *)
(***************************************************************************)
EXTENDS Auth, TLC

\* Handlers and accounts are interchangeable.
Symmetry == Permutations(Request) \cup Permutations(Account)
=============================================================================

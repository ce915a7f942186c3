--------------------------- MODULE MCIdentityCloud ---------------------------
(* A small instance of IdentityCloud: every kind of call, and two calls that *)
(* configure.                                                                *)
EXTENDS IdentityCloud, TLC

\* The calls that configure differ only in their names.
Symmetry == Permutations(Configures)
=============================================================================

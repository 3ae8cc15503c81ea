------------------------------ MODULE MCStdio ------------------------------
(***************************************************************************)
(* Instances of StdioHost for TLC.                                         *)
(***************************************************************************)
EXTENDS StdioHost, TLC

\* The requests are interchangeable: no definition tells one from another.
Symmetry == Permutations(Reqs)
=============================================================================

------------------------------ MODULE MCReload ------------------------------
(***************************************************************************)
(* Two requests against a stream whose fragments are parts and whose       *)
(* segments are two parts.                                                 *)
(***************************************************************************)
EXTENDS BlockingReload, TLC

Symmetry == Permutations(Requests)

=============================================================================

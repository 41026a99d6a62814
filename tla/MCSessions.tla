----------------------------- MODULE MCSessions -----------------------------
(***************************************************************************)
(* Two gRPC handlers that create, destroy and use sessions under a few     *)
(* ids, more often than there are ids: every id may be used again while    *)
(* its last session is in its grace period.                                *)
(***************************************************************************)
EXTENDS Sessions, TLC

Symmetry == Permutations(Ids) \cup Permutations(Callers)

=============================================================================

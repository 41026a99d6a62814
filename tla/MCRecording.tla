---------------------------- MODULE MCRecording ----------------------------
(***************************************************************************)
(* Two sessions after each other in one directory: parts of 3 to 5 ms,     *)
(* made of one or two fragments, that count 2 to 5, and segments of one or *)
(* two parts, of which memory lists one; a write may fail, and either      *)
(* session may stop at any step.                                           *)
(***************************************************************************)
EXTENDS Recording

=============================================================================

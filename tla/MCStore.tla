------------------------------ MODULE MCStore ------------------------------
(***************************************************************************)
(* A store with PART-TARGET 4 ms, segments of 5 ms and two listed          *)
(* segments, fed fragments of 1.5 and 4 ms: a part is one to three of      *)
(* them, a segment two parts.  A sum of 4 ms is just the target and a      *)
(* whole number of milliseconds: it may stay open, or be closed as 3 ms.   *)
(***************************************************************************)
EXTENDS StoreLive

=============================================================================

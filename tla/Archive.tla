------------------------------ MODULE Archive ------------------------------
(***************************************************************************)
(* What the recording of a session promises whoever opens its playlist     *)
(* file: it names a first stretch of the stream, made of whole segments,   *)
(* that never gets shorter from one version of the file to the next; the   *)
(* file may be found half written, and may stay so; and once it says that  *)
(* the recording has ended, it names the whole stream and is final.  The   *)
(* next session in the same directory starts from nothing.                 *)
(***************************************************************************)
EXTENDS Naturals

VARIABLES
    taken,  \* how many fragments the session took in
    cut,    \* how many of them are in segments that were written
    file    \* what the playlist file is, and how many fragments it names

vars == <<taken, cut, file>>

Absent == [state |-> "absent", upto |-> 0]

Init == taken = 0 /\ cut = 0 /\ file = Absent

Take ==
    /\ file.state # "sealed"
    /\ taken' = taken + 1
    /\ UNCHANGED <<cut, file>>

Cut ==
    /\ file.state # "sealed"
    /\ cut' \in (cut + 1) .. taken
    /\ UNCHANGED <<taken, file>>

Open ==
    /\ file.state # "sealed"
    /\ file' = [state |-> "torn", upto |-> 0]
    /\ UNCHANGED <<taken, cut>>

Publish ==
    /\ file.state = "torn"
    /\ file' = [state |-> "growing", upto |-> cut]
    /\ UNCHANGED <<taken, cut>>

Seal ==
    /\ file.state = "torn" /\ cut = taken
    /\ file' = [state |-> "sealed", upto |-> cut]
    /\ UNCHANGED <<taken, cut>>

StartOver == taken' = 0 /\ cut' = 0 /\ file' = Absent

Next == Take \/ Cut \/ Open \/ Publish \/ Seal \/ StartOver

Spec == Init /\ [][Next]_vars

=============================================================================

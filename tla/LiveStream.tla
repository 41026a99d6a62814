----------------------------- MODULE LiveStream -----------------------------
(***************************************************************************)
(* What a session's media store promises its clients, with nothing of how  *)
(* it decides when to cut: the fragments taken in appear, in order and     *)
(* once each, as the parts of numbered segments; the newest segment is     *)
(* open and only grows at its end; sealed segments are listed until they   *)
(* are the oldest of more than Window; and when the stream is over, all    *)
(* that was taken in is in sealed segments.                                *)
(***************************************************************************)
EXTENDS Naturals, Sequences

CONSTANT Window     \* how many sealed segments stay listed

VARIABLES
    taken,      \* how many fragments were taken in
    published,  \* how many of them are in parts
    window,     \* the listed sealed segments: each a sequence of parts
    open,       \* the parts of the segment being assembled
    sealed,     \* how many segments were ever sealed: the open one's number
    over        \* the stream has ended

vars == <<taken, published, window, open, sealed, over>>

\* Fragments lo+1 .. hi, as one part.
Piece(lo, hi) == [i \in 1 .. (hi - lo) |-> lo + i]

Listed(segs) == IF Len(segs) > Window THEN Tail(segs) ELSE segs

Seal(parts) ==
    /\ window' = Listed(Append(window, parts))
    /\ sealed' = sealed + 1
    /\ open' = <<>>

Init ==
    /\ taken = 0 /\ published = 0
    /\ window = <<>> /\ open = <<>> /\ sealed = 0
    /\ over = FALSE

\* A fragment is taken in and held back.
Hold ==
    /\ ~over
    /\ taken' = taken + 1
    /\ UNCHANGED <<published, window, open, sealed, over>>

\* A fragment is taken in, and all that was held back becomes a part, which
\* may be the last one of its segment.
Publish ==
    /\ ~over
    /\ taken' = taken + 1
    /\ published' = taken'
    /\ LET parts == Append(open, Piece(published, taken'))
       IN  \/ Seal(parts)
           \/ open' = parts /\ UNCHANGED <<window, sealed>>
    /\ UNCHANGED over

End ==
    /\ ~over
    /\ over' = TRUE
    /\ published' = taken
    /\ LET rest == IF taken > published THEN <<Piece(published, taken)>> ELSE <<>>
       IN  IF open \o rest # <<>>
           THEN Seal(open \o rest)
           ELSE UNCHANGED <<window, open, sealed>>
    /\ UNCHANGED taken

Next == Hold \/ Publish \/ End

Spec == Init /\ [][Next]_vars

=============================================================================

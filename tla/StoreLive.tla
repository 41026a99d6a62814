----------------------------- MODULE StoreLive -----------------------------
(***************************************************************************)
(* The store as a live stream: the refinement mapping from its fields to   *)
(* the abstract stream.                                                    *)
(***************************************************************************)
EXTENDS Store

PartsData(seg) == [j \in DOMAIN seg.parts |-> seg.parts[j].data]

Live == INSTANCE LiveStream WITH
    Window    <- PlaylistWindow - 1,
    taken     <- Len(fragments),
    published <- Len(fragments) - Len(store.currentPart.data),
    window    <- [i \in DOMAIN store.segments |-> PartsData(store.segments[i])],
    open      <- PartsData(store.currentSeg),
    sealed    <- GetCurrentMSN(store),
    over      <- store.ended

(***************************************************************************)
(* The store implements the abstract live stream (given fragments longer   *)
(* than a millisecond): whatever the durations, its cuts never reorder,   *)
(* drop or repeat media, and ending seals everything.                      *)
(***************************************************************************)
ImplementsLiveStream == Live!Spec

=============================================================================

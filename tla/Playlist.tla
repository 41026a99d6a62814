------------------------------ MODULE Playlist ------------------------------
(***************************************************************************)
(* The live playlist made from a snapshot of the store                     *)
(* (internal/hls/playlist/generator.go), and the answers to requests for   *)
(* what it lists (serveSegment and servePart in                            *)
(* internal/httpserver/server.go).                                         *)
(*                                                                         *)
(* Snapshot copies the store under one RLock, so a playlist is a function  *)
(* of a store record.  An entry carries, beside what its tags say, the     *)
(* media its URI stands for.                                               *)
(***************************************************************************)
EXTENDS Store

Millis == 1000      \* milliseconds of a second

\* int(segmentDuration): whole seconds, and here back in milliseconds.
TargetDuration == (SegmentDurationMs \div Millis) * Millis

\* CAN-SKIP-UNTIL: what is advertised, and the lesser of it and the window.
SkipUntil == 6 * TargetDuration

CappedSkipUntil(s) ==
    LET held == Len(s.segments) * SegmentDurationMs
    IN  IF held < SkipUntil THEN held ELSE SkipUntil

SegsToKeep_RoundedDown(s) == CappedSkipUntil(s) \div SegmentDurationMs

\* (The float64 quotient may come out above a whole number, and the ceiling be
\* one more, only where the cap applies and nothing is skipped anyway.)
SegsToKeep(s) ==
    (CappedSkipUntil(s) + SegmentDurationMs - 1) \div SegmentDurationMs

SkippedCount(s, skip) ==
    IF skip /\ Len(s.segments) > SegsToKeep(s) THEN Len(s.segments) - SegsToKeep(s) ELSE 0

\* EXT-X-MEDIA-SEQUENCE is that of the window, before any skip.
MediaSequence_NeverMoves(s, skip) == 0

MediaSequence_AfterSkip(s, skip) ==
    IF s.segments # <<>> THEN s.segments[SkippedCount(s, skip) + 1].msn
    ELSE IF s.currentSeg # NoSegment THEN s.currentSeg.msn
    ELSE 0

MediaSequence(s, skip) ==
    IF s.segments # <<>> THEN s.segments[1].msn
    ELSE IF s.currentSeg # NoSegment THEN s.currentSeg.msn
    ELSE 0

PartTag(part) ==
    [msn |-> part.msn, idx |-> part.idx, dur |-> part.dur,
     independent |-> part.independent, media |-> part.data]

PartTags(seg) == [j \in DOMAIN seg.parts |-> PartTag(seg.parts[j])]

SegmentTag(seg) == [msn |-> seg.msn, dur |-> seg.dur, media |-> seg.data]

\* EXT-X-PRELOAD-HINT, if the playlist has one.
NoHint == <<-1, -1>>
Hint_OnePartAhead(s) ==
    IF s.ended \/ s.currentSeg = NoSegment THEN NoHint
    ELSE <<s.currentSeg.msn, Len(s.currentSeg.parts) + 1>>

Hint(s) ==
    IF s.ended \/ s.currentSeg = NoSegment THEN NoHint
    ELSE <<s.currentSeg.msn, Len(s.currentSeg.parts)>>

\* Parts are listed for the last completed segment and for the open one.
Generate(s, skip) ==
    LET skipped == SkippedCount(s, skip)
        segs == s.segments
    IN  [sequence |-> MediaSequence(s, skip),
         skipped  |-> skipped,
         segments |-> [i \in 1 .. Len(segs) - skipped |-> SegmentTag(segs[i + skipped])],
         parts    |-> (IF segs = <<>> THEN <<>> ELSE PartTags(LastOf(segs)))
                          \o (IF s.ended THEN <<>> ELSE PartTags(s.currentSeg)),
         hint     |-> Hint(s),
         ended    |-> s.ended]

-----------------------------------------------------------------------------
(* The answers: the media served with 200, or none with 404.               *)

NotFound == [status |-> 404, media |-> <<>>]
Ok(media) == [status |-> 200, media |-> media]

ServeSegment_ByPosition(s, msn) ==
    LET at == (msn % PlaylistWindow) + 1
    IN  IF at \in DOMAIN s.segments THEN Ok(s.segments[at].data) ELSE NotFound

ServeSegment(s, msn) ==
    IF \E i \in DOMAIN s.segments : s.segments[i].msn = msn
    THEN LET i == CHOOSE i \in DOMAIN s.segments : s.segments[i].msn = msn
         IN  IF s.segments[i].completed THEN Ok(s.segments[i].data) ELSE NotFound
    ELSE NotFound

\* servePart, for a part that HasPart finds.
ServePart(s, msn, part) ==
    LET segs == {s.currentSeg} \cup {s.segments[i] : i \in DOMAIN s.segments}
        seg == CHOOSE seg \in segs : seg.msn = msn
    IN  Ok(seg.parts[part + 1].data)

=============================================================================

---------------------------- MODULE MCDelivery ----------------------------
(***************************************************************************)
(* Segments of 1.75 s, which are advertised as 1 s, in a window of five:   *)
(* an update may skip 6 s, so it keeps four.  A fragment fills a segment,  *)
(* or half of one, or is unreadable and of 33 ms; each is written in       *)
(* several forms, as muxers do with and without defaults, and damaged.     *)
(* The library's clock is of 90 kHz, or counts frames, 30 in a second: the *)
(* two seconds of a fragment are then read as 60 ticks.                    *)
(***************************************************************************)
EXTENDS Delivery

Track(tfhd, trun, version, runs) ==
    [tfhd |-> tfhd, trun |-> trun, version |-> version, runs |-> runs]

Media4s(clock, before, tracks) ==
    [boxes  |-> before \o <<Moof(tracks), Box("mdat", TRUE, <<>>)>>,
     tracks |-> tracks, clock |-> clock]

Damaged(boxes) == [boxes |-> boxes, tracks |-> <<>>, clock |-> 90000]

Key == Sample(78760, TRUE)
Delta == Sample(78760, FALSE)
Short == Sample(40505, FALSE)
Frames == <<Sample(30, TRUE), Sample(30, FALSE)>>
Silence == <<<<Sample(1024, TRUE)>>>>

Audio == Track({"duration"}, {"offset", "size"}, 0, Silence)
Strange == Box("free", TRUE, <<>>)
Misfit == Box("moof", FALSE, <<>>)

MCEmitted ==
  <<\* A segment: defaults in tfhd, the keyframe in first-sample-flags.
    Media4s(90000, <<>>, <<Track({"base", "duration", "size", "flags"}, {"offset", "first"}, 0,
                          <<<<Key, Delta>>>>), Audio>>),
    \* The same with a field for everything, after boxes of other types.
    Media4s(90000, <<Box("styp", TRUE, <<>>), Strange>>,
            <<Track({"desc", "flags"}, {"offset", "first", "duration", "size", "cts"}, 0,
                    <<<<Key, Delta>>>>)>>),
    \* Half a segment: no keyframe, two runs, composition offsets of version 1.
    Media4s(90000, <<>>, <<Track({"duration", "flags"}, {"offset", "size", "cts"}, 1,
                          <<<<Short>>, <<Short>>>>), Audio>>),
    Media4s(90000, <<>>, <<Track({"base", "size", "flags"}, {"duration", "size"}, 0,
                          <<<<Short, Short>>>>)>>),
    \* In frames: a duration in tfhd and one keyframe.
    Media4s(30, <<>>, <<Track({"duration", "flags"}, {"offset", "first", "size"}, 0,
                              <<Frames>>), Audio>>),
    \* No duration anywhere, and a moof that does not fit.
    Damaged(<<Box("moof", TRUE, <<Box("traf", TRUE, <<>>)>>)>>),
    Damaged(<<Misfit, Moof(<<Audio>>)>>)>>

\* The durations that the parser finds in them.
MCFragmentDurations ==
    {LET read == ParseMoofFromBytes(MCEmitted[f].boxes, 0)
     IN  read.dur * (Timescale \div read.units) : f \in DOMAIN MCEmitted}

=============================================================================

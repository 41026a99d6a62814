----------------------------- MODULE Segmenter -----------------------------
(***************************************************************************)
(* How the duration and the keyframe flag of an fMP4 fragment are read     *)
(* (internal/hls/segmenter/fragment_parser.go), and, as a reference, how a *)
(* muxer writes them (ISO/IEC 14496-12, 8.8).                              *)
(*                                                                         *)
(* Abstractions: bytes that hold boxes are a sequence of boxes, each with  *)
(* its type, whether the size it declares is at least a header and fits in *)
(* what is left, and its body; the body of tfhd and trun is a set of flags *)
(* and the 32-bit words after them, so a body is cut short by whole words. *)
(***************************************************************************)
EXTENDS Integers, Sequences, FiniteSets, FiniteSetsExt

Box(type, fits, body) == [type |-> type, fits |-> fits, body |-> body]

IsSequence(boxes) == Len(boxes) \in Nat /\ DOMAIN boxes = 1 .. Len(boxes)

(***************************************************************************)
(* The walk over boxes stops at the first whose size does not fit, and a   *)
(* box behind it is never seen.                                            *)
(***************************************************************************)
Seen(boxes, type) ==
    {i \in DOMAIN boxes : boxes[i].type = type /\ \A j \in 1 .. i : boxes[j].fits}

\* findChildBox, for a box that is there.
FirstSeen(boxes, type) == boxes[CHOOSE i \in Seen(boxes, type) :
                                   \A j \in Seen(boxes, type) : i <= j].body

\* What parseMoof takes for a timescale of 0.
Timescale == 90000

\* A number of units of time and a keyframe flag; and, when the units are told
\* (how many make a second), a duration in seconds.
Read(dur, key) == [dur |-> dur, key |-> key]
InSeconds(read, units) == [dur |-> read.dur, units |-> units, key |-> read.key]

\* 0.033 s, keyframe assumed.
Fallback == InSeconds(Read(33, TRUE), 1000)

-----------------------------------------------------------------------------
(* trun, traf, moof, fragment.                                             *)

One(flags, flag) == IF flag \in flags THEN 1 ELSE 0

\* sample_is_non_sync_sample is clear.
IsSync(flagsWord) == (flagsWord \div 65536) % 2 = 0

\* The words of a sample's entry: a version 1 composition offset counts two.
EntrySize_WithoutSizes(trun) ==
    One(trun.flags, "duration") + One(trun.flags, "flags")
        + (IF trun.version = 1 THEN 2 ELSE 1) * One(trun.flags, "cts")

EntrySize(trun) ==
    One(trun.flags, "duration") + One(trun.flags, "size") + One(trun.flags, "flags")
        + (IF trun.version = 1 THEN 2 ELSE 1) * One(trun.flags, "cts")

\* The sum of a sequence of durations.
Added(durs) ==
    LET upto[n \in 0 .. Len(durs)] == IF n = 0 THEN 0 ELSE upto[n - 1] + durs[n]
    IN  upto[Len(durs)]

\* An entry that is cut off before its duration is not read, nor is any after it.
ParseTrun(trun, defaults) ==
    LET words == trun.words
        first == 2 + One(trun.flags, "offset")
        start == first + One(trun.flags, "first")
        at(i) == start + (i - 1) * EntrySize(trun)
    IN  IF words = <<>> \/ words[1] = 0 \/ ("first" \in trun.flags /\ first > Len(words))
        THEN Read(0, TRUE)
        ELSE Read(IF "duration" \in trun.flags
                  THEN Added([i \in 1 .. words[1] |->
                                  IF at(i) <= Len(words) THEN words[at(i)] ELSE 0])
                  ELSE defaults.dur * words[1],
                  IsSync(IF "first" \in trun.flags THEN words[first] ELSE defaults.flags))

\* tfhd: default_sample_duration and default_sample_flags, 0 if not there.
Defaults(traf) ==
    IF Seen(traf, "tfhd") = {} THEN [dur |-> 0, flags |-> 0]
    ELSE LET tfhd == FirstSeen(traf, "tfhd")
             at == 1 + 2 * One(tfhd.flags, "base") + One(tfhd.flags, "desc")
             hasDur == "duration" \in tfhd.flags /\ at <= Len(tfhd.words)
             next == at + (IF hasDur THEN 1 ELSE 0) + One(tfhd.flags, "size")
             hasFlags == "flags" \in tfhd.flags /\ next <= Len(tfhd.words)
         IN  [dur   |-> IF hasDur THEN tfhd.words[at] ELSE 0,
              flags |-> IF hasFlags THEN tfhd.words[next] ELSE 0]

\* The durations of all truns; the flag of the last that has any.
ParseTraf(traf) ==
    LET run == [i \in DOMAIN traf |-> IF i \in Seen(traf, "trun")
                                      THEN ParseTrun(traf[i].body, Defaults(traf))
                                      ELSE Read(0, TRUE)]
        timed == {i \in DOMAIN traf : run[i].dur > 0}
    IN  Read(Added([i \in DOMAIN traf |-> run[i].dur]),
             IF timed = {} THEN TRUE ELSE run[Max(timed)].key)

\* The first track that has a duration, in units of the timescale given.
ParseMoof(moof, timescale) ==
    LET timed == {i \in Seen(moof, "traf") : ParseTraf(moof[i].body).dur > 0}
        units == IF timescale = 0 THEN Timescale ELSE timescale
    IN  IF timed = {} THEN Fallback
        ELSE InSeconds(ParseTraf(moof[Min(timed)].body), units)

ParseMoofFromBytes(data, timescale) ==
    IF Seen(data, "moof") = {} THEN Fallback
    ELSE ParseMoof(FirstSeen(data, "moof"), timescale)

-----------------------------------------------------------------------------
(* What a muxer writes.  A track's samples come in runs; tfhd and trun say *)
(* which fields the muxer puts there.                                      *)

Sample(dur, sync) == [dur |-> dur, sync |-> sync]

Tracks == [tfhd : SUBSET {"base", "desc", "duration", "size", "flags"},
           trun : SUBSET {"offset", "first", "duration", "size", "flags", "cts"},
           version : {0, 1},
           runs : Seq(Seq([dur : Nat, sync : BOOLEAN]))]

\* sample_depends_on and sample_is_non_sync_sample.
FlagsWord(sample) == IF sample.sync THEN 33554432 ELSE 16842752

SizeWord == 5000
OffsetWord == 96
CompositionWord == 1500

If(present, words) == IF present THEN words ELSE <<>>

Entry(track, sample) ==
    If("duration" \in track.trun, <<sample.dur>>)
        \o If("size" \in track.trun, <<SizeWord>>)
        \o If("flags" \in track.trun, <<FlagsWord(sample)>>)
        \o If("cts" \in track.trun, <<CompositionWord>>)

\* The entries of the samples of a run, in order.
Entries(track, run) ==
    LET upto[n \in 0 .. Len(run)] ==
            IF n = 0 THEN <<>> ELSE upto[n - 1] \o Entry(track, run[n])
    IN  upto[Len(run)]

Trun(track, run) ==
    Box("trun", TRUE,
        [version |-> track.version, flags |-> track.trun,
         words |-> <<Len(run)>> \o If("offset" \in track.trun, <<OffsetWord>>)
                       \o If("first" \in track.trun, <<FlagsWord(run[1])>>)
                       \o Entries(track, run)])

\* The defaults are those of the last sample.
Typical(track) ==
    LET run == track.runs[Len(track.runs)]
    IN  run[Len(run)]

Tfhd(track) ==
    LET typical == Typical(track)
    IN  Box("tfhd", TRUE,
            [flags |-> track.tfhd,
             words |-> If("base" \in track.tfhd, <<0, OffsetWord>>)
                           \o If("desc" \in track.tfhd, <<1>>)
                           \o If("duration" \in track.tfhd, <<typical.dur>>)
                           \o If("size" \in track.tfhd, <<SizeWord>>)
                           \o If("flags" \in track.tfhd, <<FlagsWord(typical)>>)])

\* What trun does not say of each sample, or of the first, all of them have in
\* common; that is the default, whether it is in tfhd or elsewhere.
Conforms(track) ==
    /\ track \in Tracks /\ track.runs # <<>>
    /\ \A r \in DOMAIN track.runs :
          LET run == track.runs[r]
          IN  /\ run # <<>>
              /\ "duration" \notin track.trun =>
                    \A i \in DOMAIN run : run[i].dur = Typical(track).dur
              /\ "flags" \notin track.trun =>
                    \A i \in DOMAIN run : \/ run[i].sync = Typical(track).sync
                                          \/ i = 1 /\ "first" \in track.trun

Traf(track) ==
    Box("traf", TRUE,
        <<Tfhd(track), Box("tfdt", TRUE, <<>>)>>
            \o [i \in DOMAIN track.runs |-> Trun(track, track.runs[i])])

Moof(tracks) ==
    Box("moof", TRUE,
        <<Box("mfhd", TRUE, <<>>)>> \o [i \in DOMAIN tracks |-> Traf(tracks[i])])

\* Samples, or other things that have a duration, one after the other.
Lasts(run) == Added([i \in DOMAIN run |-> run[i].dur])

\* What a fragment of these tracks, the video first, lasts and starts with, in
\* units of the video's own timescale (that in the moov of init.mp4).
Written(tracks) ==
    LET runs == tracks[1].runs
    IN  Read(Added([r \in DOMAIN runs |-> Lasts(runs[r])]), runs[1][1].sync)

=============================================================================

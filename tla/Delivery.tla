------------------------------ MODULE Delivery ------------------------------
(***************************************************************************)
(* From the muxer to a player: the files the native library hands to the   *)
(* callback of RegisterSession (internal/httpserver/server.go), the parser *)
(* that dates them, the store, the playlists it gives out, and a player    *)
(* that reloads them, whole or as a delta update, and fetches what they    *)
(* list.                                                                   *)
(*                                                                         *)
(* The library and the player are external.  The library emits init.mp4,   *)
(* then media files and its own playlists; its durations are in units of   *)
(* the timescale of its video track, and the store's ticks are of the      *)
(* 90 kHz clock the parser assumes when it is not told that timescale.     *)
(* The player asks for a delta update only while its playlist is no older, *)
(* in media time as the store counts it, than half the advertised          *)
(* CAN-SKIP-UNTIL, and fills in the skipped segments from it.  Blocking    *)
(* requests are the subject of module BlockingReload.                      *)
(***************************************************************************)
EXTENDS Playlist, Segmenter

CONSTANT Emitted    \* the media files the library may emit

(***************************************************************************)
(* A file: its boxes, the tracks the library wrote in it (<<>> for one     *)
(* that has none, or is damaged), and the units of its clock in a second,  *)
(* which init.mp4 tells and the file does not.  Before their moof are only *)
(* boxes that fit and are no moof; and in a file of no tracks no trun can  *)
(* be reached.                                                             *)
(***************************************************************************)
HoldsItsTracks(boxes, tracks) ==
    /\ IsSequence(boxes)
    /\ IF tracks = <<>>
       THEN \A i \in Seen(boxes, "moof") :
                LET moof == boxes[i].body
                IN  \A t \in Seen(moof, "traf") :
                        IsSequence(moof[t].body) /\ Seen(moof[t].body, "trun") = {}
       ELSE \E i \in DOMAIN boxes :
                /\ boxes[i] = Moof(tracks)
                /\ \A j \in 1 .. i - 1 : boxes[j].fits /\ boxes[j].type # "moof"

Second == TicksPerMs * Millis

ASSUME DeliveryAssumption ==
    /\ 1 \in DOMAIN Emitted
    /\ Second = Timescale

\* The files as fragments, the way the callback dates them, which gives 0 for
\* the timescale (a tick divides both units that it may then get).
Parsed ==
    [f \in DOMAIN Emitted |->
        LET read == ParseMoofFromBytes(Emitted[f].boxes, 0)
        IN  [ticks |-> read.dur * (Second \div read.units), key |-> read.key]]

ASSUME EmittedAssumption ==
    \A f \in DOMAIN Emitted :
        /\ Parsed[f] \in Fragment
        /\ Emitted[f].tracks \in Seq(Tracks)
        /\ Emitted[f].clock \in Nat \ {0}
        /\ \A t \in DOMAIN Emitted[f].tracks : Conforms(Emitted[f].tracks[t])
        /\ HoldsItsTracks(Emitted[f].boxes, Emitted[f].tracks)

\* Config.Validate: a segment has at least a second.
ASSUME SecondAssumption == SegmentDurationMs >= Millis

VARIABLES
    last,   \* what the library emitted last: "-", "init.mp4", "m3u8" or "m4s"
    file,   \* the media it emitted last, of Emitted
    held    \* the player's playlist, and the ticks of media that came after it

deliveryVars == <<vars, last, file, held>>

-----------------------------------------------------------------------------
DeliveryInit ==
    /\ Init
    /\ last = "-" /\ file = 1
    /\ held = [age |-> 0, list |-> Generate(NewStore, FALSE)]

\* The callback, by the name of the file.
EmitInit ==
    /\ SetInit
    /\ last' = "init.mp4"
    /\ UNCHANGED <<file, held>>

EmitPlaylist ==
    /\ store.init /\ ~store.ended /\ owed = Nothing
    /\ last' = "m3u8"
    /\ UNCHANGED <<vars, file, held>>

\* A stream has one init.mp4, and so one clock.
EmitMedia(f) ==
    /\ fragments # <<>> => Emitted[f].clock = Emitted[file].clock
    /\ \E lost \in SUBSET Uses : AddFragment(Parsed[f], lost)
    /\ last' = "m4s" /\ file' = f
    /\ held' = [held EXCEPT !.age = @ + Parsed[f].ticks]

UnregisterSession ==
    /\ Finalize
    /\ UNCHANGED <<last, file, held>>

Notify ==
    /\ Broadcast \/ BroadcastEnded
    /\ UNCHANGED <<last, file, held>>

\* The player's playlist with the segments that the delta update skips, as
\* far as it has them, before those the update lists.  It knows them by their
\* place: the first of a playlist has the number EXT-X-MEDIA-SEQUENCE.
Rebuilt(list, delta) ==
    LET gone == delta.sequence - list.sequence
        upto == gone + delta.skipped
        skipped == SubSeq(list.segments, gone + 1,
                          IF upto <= Len(list.segments) THEN upto ELSE Len(list.segments))
    IN  [delta EXCEPT !.segments = skipped \o @, !.skipped = 0]

\* servePlaylist without _HLS_msn, with or without _HLS_skip=YES.
Reload(skip) ==
    /\ skip => 2 * held.age <= SkipUntil * TicksPerMs
    /\ held' = [age  |-> 0,
                list |-> IF skip THEN Rebuilt(held.list, Generate(store, TRUE))
                                 ELSE Generate(store, FALSE)]
    /\ UNCHANGED <<vars, last, file>>

DeliveryNext ==
    \/ EmitInit
    \/ EmitPlaylist
    \/ \E f \in DOMAIN Emitted : EmitMedia(f)
    \/ UnregisterSession
    \/ Notify
    \/ \E skip \in BOOLEAN : Reload(skip)

DeliverySpec == DeliveryInit /\ [][DeliveryNext]_deliveryVars

-----------------------------------------------------------------------------
(* Properties.                                                             *)

\* Every variable has its type; a playlist a player put together skips
\* nothing and starts at its media sequence number.
DeliveryTypeOK ==
    /\ TypeOK
    /\ last \in {"-", "init.mp4", "m3u8", "m4s"} /\ file \in DOMAIN Emitted
    /\ held.age \in Nat
    /\ held.list.skipped = 0 /\ held.list.sequence \in Nat
    /\ held.list.segments # <<>> => held.list.segments[1].msn = held.list.sequence

(***************************************************************************)
(* The forms of fragment the parser reads as they were written: it counts  *)
(* two words for a composition offset of version 1, where there is one; it *)
(* looks for durations in trun and tfhd, not for the defaults of moov, and *)
(* takes a video without any for no video; it looks for the first sample's *)
(* flags in the first-sample-flags field and in tfhd, not among the        *)
(* samples' own; and it takes the flag of the last run for that of the     *)
(* first.                                                                  *)
(***************************************************************************)
Readable(tracks) ==
    /\ tracks # <<>>
    /\ LET video == tracks[1]
       IN  /\ ~({"duration", "cts"} \subseteq video.trun /\ video.version = 1)
           /\ "duration" \in video.trun \cup video.tfhd /\ Written(tracks).dur > 0
           /\ "first" \notin video.trun =>
                 "flags" \notin video.trun /\ "flags" \in video.tfhd
           /\ \A r \in DOMAIN video.runs : video.runs[r][1].sync = video.runs[1][1].sync

\* So many units last as long, at so many a second, as others at theirs.
SameTime(dur, units, dur2, units2) ==
    IF units = units2 THEN dur = dur2 ELSE dur * units2 = dur2 * units

(***************************************************************************)
(* The keyframe flag and the number of units of time by which the store    *)
(* cuts parts are those the library wrote, whichever fields it put them    *)
(* in, whatever else is in the file, and with the video of several tracks; *)
(* and a file that has none counts as a keyframe of 33 ms.  In seconds,    *)
(* though, that number is the true duration just when the track's clock is *)
(* the 90 kHz one: the callback gives the parser 0 for a timescale that    *)
(* "must equal the H.264 encoder's FPS value" (fragment_parser.go), and    *)
(* the store then counts that many units for as many ticks.                *)
(***************************************************************************)
ParsedAsWritten ==
    last = "m4s" =>
        LET taken == LastOf(fragments)
            tracks == Emitted[file].tracks
            true == Written(tracks)
            clock == Emitted[file].clock
        IN  /\ tracks = <<>> => taken = [ticks |-> 33 * TicksPerMs, key |-> TRUE]
            /\ Readable(tracks) =>
                  /\ taken = [ticks |-> true.dur, key |-> true.key]
                  /\ SameTime(taken.ticks, Second, true.dur, clock) <=> clock = Second

(***************************************************************************)
(* However the player reloads, by any mix of full playlists and delta      *)
(* updates in a row, what it then has is the whole window: the segments    *)
(* skipped were all in the playlist it had, and EXT-X-MEDIA-SEQUENCE plus  *)
(* SKIPPED-SEGMENTS is the number of the first one listed.                 *)
(***************************************************************************)
ReloadShowsTheWindow ==
    [][\A skip \in BOOLEAN : Reload(skip) => held'.list = Generate(store, FALSE)]_deliveryVars

(***************************************************************************)
(* A live delta update skips nothing that is nearer to the end of the      *)
(* playlist than the advertised CAN-SKIP-UNTIL, though what is skipped     *)
(* is computed from another value, in segments of nominal length.          *)
(***************************************************************************)
SkipsOnlyPastTheBoundary ==
    LET delta == Generate(store, TRUE)
    IN  delta.skipped > 0 /\ ~store.ended => Lasts(delta.segments) >= SkipUntil

\* How many segments were completed since the player's playlist was made.
Since == GetCurrentMSN(store) - (held.list.sequence + Len(held.list.segments))

(***************************************************************************)
(* What a playlist lists can be fetched, with the media it stood for, not  *)
(* only while the playlist is current: its n-th segment until n more were  *)
(* completed after the window was full.                                    *)
(***************************************************************************)
ListedStaysServed ==
    LET list == held.list
        room == PlaylistWindow - 1 - Len(list.segments)
    IN  /\ \A i \in DOMAIN list.segments :
              Since < i + room =>
                  ServeSegment(store, list.segments[i].msn) = Ok(list.segments[i].media)
        /\ \A j \in DOMAIN list.parts :
              LET tag == list.parts[j]
              IN  Since < room + Len(list.segments) =>
                  /\ HasPart(store, tag.msn, tag.idx)
                  /\ ServePart(store, tag.msn, tag.idx) = Ok(tag.media)

\* The last fragment a playlist lists, in a segment or in a part.
LastListed(list) ==
    IF list.parts # <<>> THEN LastOf(LastOf(list.parts).media) ELSE 0

(***************************************************************************)
(* A player requests the preload hint's URI before the part exists: when   *)
(* it does exist, however much later, the URI names just the media that    *)
(* follows all that its playlist listed (if it listed any: with a window   *)
(* of 1 it lists no completed segment).                                    *)
(***************************************************************************)
HintIsTheNextPart ==
    LET list == held.list
        msn == list.hint[1]
        idx == list.hint[2]
    IN  (list.hint # NoHint /\ HasPart(store, msn, idx)
            /\ (list.parts = <<>> => list.sequence = 0)) =>
        ServePart(store, msn, idx).media[1] = LastListed(list) + 1

=============================================================================

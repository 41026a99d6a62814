------------------------------- MODULE Store -------------------------------
(***************************************************************************)
(* The in-memory media store of one session (internal/hls/store/store.go)  *)
(* and the record its Notifier keeps of the newest part or segment         *)
(* (internal/hls/store/notifier.go).                                       *)
(*                                                                         *)
(* The muxer thread of the native library delivers fMP4 fragments; the     *)
(* store collects them into parts, the parts into segments, and keeps a    *)
(* sliding window of completed segments.  Every operation of the store     *)
(* runs under s.mu, so each is one action; what it owes the notifier is    *)
(* broadcast after s.mu is released, by an action of its own.              *)
(*                                                                         *)
(* Abstractions: fragment bytes are the fragment's number in the order of  *)
(* delivery, so []byte is a sequence of numbers; wall-clock fields are     *)
(* left out.  The store modelled here has no disk writer (diskWriter ==    *)
(* nil).                                                                   *)
(*                                                                         *)
(* Seconds are ticks, of which TicksPerMs make a millisecond.  The code    *)
(* adds seconds in float64, compares the sum with PartDuration and         *)
(* truncates a thousand times it to milliseconds.  What float64 loses on   *)
(* the way is far less than a tick, so it tells only where the true sum    *)
(* is the very number the code asks for: a sum of PartDuration may compare *)
(* as below it, and one of whole milliseconds may truncate to a            *)
(* millisecond less (90450 ticks of a 90 kHz clock, 1.005 s, to 1004 ms).  *)
(* Either happens or not, as it likes; and a sum for which it does is read *)
(* for that use as if it were a tick shorter.                              *)
(***************************************************************************)
EXTENDS Integers, Sequences

CONSTANTS
    PartDuration,       \* cfg.PartDuration, in ticks
    SegmentDurationMs,  \* SegmentDurationD.Milliseconds()
    TicksPerMs,         \* resolution of a fragment's duration
    PlaylistWindow,     \* cfg.PlaylistWindow
    FragmentDurations,  \* durations the muxer's fragments may have, in ticks
    KeyFlags,           \* whether a fragment may, or may not, start with a keyframe
    MaxFragments        \* bound: how many fragments the muxer delivers

(***************************************************************************)
(* Config.Validate wants a segment duration of at least a second and a     *)
(* PlaylistWindow of at least 1, and does not look at PartDuration.  A     *)
(* fragment's duration is positive: the parser returns one only when it    *)
(* is, and 0.033 s otherwise.  Nothing ties the three durations together.  *)
(***************************************************************************)
ASSUME StoreAssumption ==
    /\ PartDuration \in Int
    /\ SegmentDurationMs \in Nat \ {0}
    /\ TicksPerMs \in Nat \ {0}
    /\ PlaylistWindow \in Nat \ {0}
    /\ FragmentDurations \subseteq Nat \ {0}
    /\ KeyFlags \subseteq BOOLEAN
    /\ MaxFragments \in Nat

VARIABLES
    fragments,  \* what the muxer has delivered so far, in order
    store,      \* the fields of Store that its mutex guards
    owed,       \* the broadcast still to be made after s.mu was released
    notifier    \* lastMSN, lastPart and ended of the Notifier

vars == <<fragments, store, owed, notifier>>

-----------------------------------------------------------------------------
(* Data.                                                                   *)

Fragment == [ticks : FragmentDurations, key : KeyFlags]

Part == [idx : Nat, msn : Int, dur : Nat, data : Seq(Nat), independent : BOOLEAN]

Segment == [msn : Int, dur : Nat, parts : Seq(Part), data : Seq(Nat),
            completed : BOOLEAN]

\* The uses of a float64 sum of seconds, and so where one may have lost.
Uses == {"target", "ms"}

PartAccumulator == [data : Seq(Nat), ticks : Nat, lost : SUBSET Uses,
                    independent : BOOLEAN]

StoreRecord == [segments : Seq(Segment), currentSeg : Segment,
                currentPart : PartAccumulator, nextMSN : Nat,
                init : BOOLEAN, ended : BOOLEAN]

NewSegment(msn) ==
    [msn |-> msn, dur |-> 0, parts |-> <<>>, data |-> <<>>, completed |-> FALSE]

NewPart_AlwaysKey(key) == [data |-> <<>>, ticks |-> 0, lost |-> {}, independent |-> TRUE]
NewPart(key) == [data |-> <<>>, ticks |-> 0, lost |-> {}, independent |-> key]

\* A nil *Segment and a nil *partAccumulator.
NoSegment == NewSegment(-1)
NoPart == NewPart(FALSE)

\* A broadcast: of part `part` of segment `msn` (part -1: the segment is
\* complete), of the end of the stream, or none.
News == [kind : {"media", "ended", "none"}, msn : Int, part : Int]

Media(msn, part) == [kind |-> "media", msn |-> msn, part |-> part]
TheEnd == [kind |-> "ended", msn |-> -1, part |-> -1]
Nothing == [kind |-> "none", msn |-> -1, part |-> -1]

-----------------------------------------------------------------------------
(* The internal operations, on a store record with s.mu held.  A definition *)
(* named after another one, as AppendPart_KeepsAccumulator is, is a         *)
(* plausible slip in it: a mutant that the properties have to notice.       *)

\* The uses for which a sum of so many ticks is just the number asked for.
Boundary(ticks) ==
    {use \in Uses : \/ use = "target" /\ ticks = PartDuration
                    \/ use = "ms" /\ ticks % TicksPerMs = 0}

\* Lazy creation of the current segment and part, then accumulation; lost are
\* the uses that read the new sum too short, if it is on their boundary.
Accumulate(s, id, frag, lost) ==
    LET seg == IF s.currentSeg = NoSegment THEN NewSegment(s.nextMSN)
                                           ELSE s.currentSeg
        acc == IF s.currentPart = NoPart THEN NewPart(frag.key)
                                         ELSE s.currentPart
        sum == acc.ticks + frag.ticks
    IN  [s EXCEPT
           !.currentSeg = seg,
           !.nextMSN = IF s.currentSeg = NoSegment THEN @ + 1 ELSE @,
           !.currentPart = [acc EXCEPT !.data = Append(@, id),
                                       !.ticks = sum,
                                       !.lost = lost \cap Boundary(sum)]]

\* The sum of an accumulator as one of its uses reads it.
SumRead(acc, use) ==
    IF use \in acc.lost /\ acc.ticks > 0 THEN acc.ticks - 1 ELSE acc.ticks

\* duration >= PartDuration
ReachesTarget(acc) == SumRead(acc, "target") >= PartDuration

\* int64(duration * 1000) truncates.
Milliseconds_RoundedUp(acc) == (SumRead(acc, "ms") + TicksPerMs - 1) \div TicksPerMs
Milliseconds(acc) == SumRead(acc, "ms") \div TicksPerMs

NextIndex_OfLastPart(seg) == Len(seg.parts) - 1
NextIndex(seg) == Len(seg.parts)

\* The part that the accumulator becomes.
ClosedPart(s) ==
    [idx         |-> NextIndex(s.currentSeg),
     msn         |-> s.currentSeg.msn,
     dur         |-> Milliseconds(s.currentPart),
     data        |-> s.currentPart.data,
     independent |-> s.currentPart.independent]

Extended(seg, part) ==
    [seg EXCEPT !.parts = Append(@, part),
                !.dur = @ + part.dur,
                !.data = @ \o part.data]

AppendPart_KeepsAccumulator(s) ==
    [s EXCEPT !.currentSeg = Extended(@, ClosedPart(s))]

AppendPart(s) ==
    [s EXCEPT !.currentSeg = Extended(@, ClosedPart(s)), !.currentPart = NoPart]

TrimWindow_KeepsOneMore(segs) ==
    IF Len(segs) > PlaylistWindow THEN Tail(segs) ELSE segs

TrimWindow_DropsNewest(segs) ==
    IF Len(segs) >= PlaylistWindow THEN SubSeq(segs, 1, Len(segs) - 1) ELSE segs

TrimWindow(segs) == IF Len(segs) >= PlaylistWindow THEN Tail(segs) ELSE segs

FinalizeSegment_ReusesMSN(s) ==
    [s EXCEPT
       !.segments = TrimWindow(Append(@, [s.currentSeg EXCEPT !.completed = TRUE])),
       !.currentSeg = NewSegment(s.nextMSN)]

FinalizeSegment(s) ==
    [s EXCEPT
       !.segments = TrimWindow(Append(@, [s.currentSeg EXCEPT !.completed = TRUE])),
       !.currentSeg = NewSegment(s.nextMSN),
       !.nextMSN = @ + 1]

IsFull_PastTarget(seg) == seg.dur > SegmentDurationMs
IsFull(seg) == seg.dur >= SegmentDurationMs

\* The broadcast finalizePart returns for seg, just grown by a part: when seg
\* is full and gets completed, that supersedes the news of the part.
PartNews_NeverSegment(seg) == Media(seg.msn, Len(seg.parts) - 1)
PartNews_NextMSN(seg) ==
    IF IsFull(seg) THEN Media(seg.msn + 1, -1) ELSE Media(seg.msn, Len(seg.parts) - 1)
PartNews(seg) ==
    IF IsFull(seg) THEN Media(seg.msn, -1) ELSE Media(seg.msn, Len(seg.parts) - 1)

\* The store after finalizePart, and the broadcast it returns.
FinalizePart(s) ==
    LET grown == AppendPart(s)
    IN  [store |-> IF IsFull(grown.currentSeg) THEN FinalizeSegment(grown) ELSE grown,
         news  |-> PartNews(grown.currentSeg)]

\* Finalize's first and second step, as a store and the broadcast so far.
FlushPart(s) ==
    IF s.currentPart # NoPart THEN FinalizePart(s)
                              ELSE [store |-> s, news |-> TheEnd]

FlushSegment_Skipped(flushed) == flushed
FlushSegment(flushed) ==
    LET seg == flushed.store.currentSeg
    IN  IF seg.dur > 0
        THEN [store |-> FinalizeSegment(flushed.store), news |-> Media(seg.msn, -1)]
        ELSE flushed

-----------------------------------------------------------------------------
(* The readers, each under one RLock.                                      *)

GetCurrentMSN(s) ==
    IF s.currentSeg = NoSegment THEN s.nextMSN ELSE s.currentSeg.msn

HasSegment(s, msn) ==
    \E i \in DOMAIN s.segments : s.segments[i].msn = msn /\ s.segments[i].completed

\* Only asked with part >= 0.
HasPart(s, msn, part) ==
    \/ \E i \in DOMAIN s.segments :
          s.segments[i].msn = msn /\ part < Len(s.segments[i].parts)
    \/ /\ s.currentSeg # NoSegment
       /\ s.currentSeg.msn = msn
       /\ part < Len(s.currentSeg.parts)

HasPartOrSegment(s, msn, part) ==
    IF part < 0 THEN HasSegment(s, msn) ELSE HasPart(s, msn, part)

\* What releases WaitFor: the end, or news at or past the target.
Reached(n, msn, part) ==
    \/ n.ended
    \/ n.lastMSN > msn
    \/ n.lastMSN = msn /\ (n.lastPart < 0 \/ (part >= 0 /\ n.lastPart >= part))

-----------------------------------------------------------------------------
NewStore ==
    [segments |-> <<>>, currentSeg |-> NoSegment, currentPart |-> NoPart,
     nextMSN |-> 0, init |-> FALSE, ended |-> FALSE]

NewNotifier == [lastMSN |-> -1, lastPart |-> -1, ended |-> FALSE]

Init ==
    /\ fragments = <<>>
    /\ store = NewStore
    /\ owed = Nothing
    /\ notifier = NewNotifier

\* The library emits init.mp4 before the first fragment.
SetInit ==
    /\ ~store.init /\ ~store.ended
    /\ store' = [store EXCEPT !.init = TRUE]
    /\ UNCHANGED <<fragments, owed, notifier>>

(***************************************************************************)
(* The muxer is one thread: it delivers the next fragment only after the   *)
(* previous AddFragment returned, which is after its broadcast.            *)
(***************************************************************************)
AddFragment(frag, lost) ==
    /\ store.init /\ ~store.ended
    /\ owed = Nothing
    /\ Len(fragments) < MaxFragments
    /\ fragments' = Append(fragments, frag)
    /\ LET fed == Accumulate(store, Len(fragments'), frag, lost)
           closed == FinalizePart(fed)
       IN  IF ReachesTarget(fed.currentPart)
           THEN store' = closed.store /\ owed' = closed.news
           ELSE store' = fed /\ owed' = Nothing
    /\ UNCHANGED notifier

(***************************************************************************)
(* Called once, "after the encoding pipeline has been fully flushed": the  *)
(* muxer thread is gone and has nothing left to broadcast.                 *)
(***************************************************************************)
Finalize ==
    /\ ~store.ended
    /\ owed = Nothing
    /\ LET flushed == FlushSegment(FlushPart(store))
       IN  /\ store' = [flushed.store EXCEPT !.ended = TRUE]
           /\ owed' = flushed.news
    /\ UNCHANGED <<fragments, notifier>>

Broadcast ==
    /\ owed.kind = "media"
    /\ notifier' = [notifier EXCEPT !.lastMSN = owed.msn, !.lastPart = owed.part]
    /\ owed' = Nothing
    /\ UNCHANGED <<fragments, store>>

BroadcastEnded ==
    /\ owed.kind = "ended"
    /\ notifier' = [notifier EXCEPT !.ended = TRUE]
    /\ owed' = Nothing
    /\ UNCHANGED <<fragments, store>>

Next ==
    \/ SetInit
    \/ \E frag \in Fragment, lost \in SUBSET Uses : AddFragment(frag, lost)
    \/ Finalize
    \/ Broadcast
    \/ BroadcastEnded

Spec == Init /\ [][Next]_vars

-----------------------------------------------------------------------------
(* Properties.                                                             *)

\* Every variable has its type, and every sequence its kind of elements.
TypeOK ==
    /\ fragments \in Seq(Fragment)
    /\ Len(fragments) <= MaxFragments
    /\ store \in StoreRecord
    /\ owed \in News
    /\ notifier \in [lastMSN : Int, lastPart : Int, ended : BOOLEAN]

\* d is the run of consecutive fragments that ends with fragment e.
RunTo(d, e) == \A i \in DOMAIN d : d[i] = e - Len(d) + i

LastOf(seq) == seq[Len(seq)]

\* The parts of a segment carry its number, are numbered from 0, and tile its
\* bytes: none is empty, each continues the one before it, the first starts
\* where the segment starts and the last ends where it ends.
PartsTile(seg) ==
    /\ seg.parts = <<>> <=> seg.data = <<>>
    /\ \A i \in DOMAIN seg.parts :
          /\ seg.parts[i].msn = seg.msn
          /\ seg.parts[i].idx = i - 1
          /\ seg.parts[i].data # <<>>
          /\ RunTo(seg.parts[i].data,
                   IF i = Len(seg.parts) THEN LastOf(seg.data)
                                         ELSE seg.parts[i + 1].data[1] - 1)
    /\ seg.parts # <<>> => seg.parts[1].data[1] = seg.data[1]

(***************************************************************************)
(* A player may fetch a segment whole (Segment.Data, "concatenation of all *)
(* Part.Data") or part by part (Segment.Parts): both must be the same      *)
(* bytes, in the segments of the window and in the one being assembled.    *)
(***************************************************************************)
Tiled(s) ==
    /\ PartsTile(s.currentSeg)
    /\ \A i \in DOMAIN s.segments : PartsTile(s.segments[i])

SegmentIsItsParts == Tiled(store)

(***************************************************************************)
(* "Number of segments to keep in playlist" (config.example.yaml): once    *)
(* that many segments were completed, the playlist lists as many.          *)
(***************************************************************************)
KeepsPlaylistWindow ==
    GetCurrentMSN(store) >= PlaylistWindow => Len(store.segments) = PlaylistWindow

(***************************************************************************)
(* Across finalizePart, finalizeSegment and the trimming of the window no  *)
(* fragment is lost, repeated or reordered: read backwards from the last   *)
(* of the n delivered, the accumulator, the current segment and the        *)
(* segments of the window are one run of consecutive fragments, and it     *)
(* goes back to the first fragment until the first segment is evicted.     *)
(***************************************************************************)
Unbroken(s, n) ==
    LET cut == n - Len(s.currentPart.data)
        sealed == cut - Len(s.currentSeg.data)
    IN  /\ RunTo(s.currentPart.data, n)
        /\ RunTo(s.currentSeg.data, cut)
        /\ \A i \in DOMAIN s.segments :
              RunTo(s.segments[i].data,
                    IF i = Len(s.segments) THEN sealed
                                           ELSE s.segments[i + 1].data[1] - 1)
        /\ s.currentSeg.msn <= 0 => sealed = 0
        /\ s.segments # <<>> /\ s.segments[1].msn = 0 => s.segments[1].data[1] = 1

StreamUnbroken == Unbroken(store, Len(fragments))

(***************************************************************************)
(* Media sequence numbers are handed out once each, in order: the window   *)
(* is a row of consecutive completed segments that ends just before the    *)
(* one being assembled, and it is as long as the trimming in               *)
(* finalizeSegment lets it be (one less than cfg.PlaylistWindow).          *)
(***************************************************************************)
Windowed(s) ==
    LET cur == s.currentSeg
        len == Len(s.segments)
    IN  /\ \A i \in 1 .. len :
              /\ s.segments[i].completed
              /\ s.segments[i].parts # <<>>
              /\ s.segments[i].msn = cur.msn - len + i - 1
              /\ s.segments[i].msn >= 0
        /\ len < PlaylistWindow
        /\ len < PlaylistWindow - 1 => len = cur.msn \/ cur = NoSegment
        /\ ~cur.completed
        /\ s.nextMSN = cur.msn + 1
        /\ cur.msn >= -1
        /\ cur.msn = -1 => cur = NoSegment /\ s.currentPart = NoPart /\ s.segments = <<>>

WindowIsConsecutive == Windowed(store)

\* What the store last made available, as the notifier would name it.
LatestMSN(s) == IF s.currentSeg.parts = <<>> /\ s.currentSeg.msn >= 0
                THEN s.currentSeg.msn - 1 ELSE s.currentSeg.msn

LatestPart(s) == Len(s.currentSeg.parts) - 1

(***************************************************************************)
(* The notifier names exactly the newest part or segment of the store,     *)
(* except while the broadcast owed after an unlock is still to come, and   *)
(* then that broadcast names it.  Were it behind, a client would sleep on  *)
(* media that is there; were it ahead, a woken client would find none.     *)
(***************************************************************************)
NotifierIsCurrent ==
    LET told == IF owed.kind = "media" THEN <<owed.msn, owed.part>>
                                       ELSE <<notifier.lastMSN, notifier.lastPart>>
    IN  told = <<LatestMSN(store), LatestPart(store)>>

(***************************************************************************)
(* "Actual duration can exceed SegmentDuration by up to one part"          *)
(* (playlist/generator.go): without its last part a segment is shorter     *)
(* than the target, so it was closed at the first part that reached it;    *)
(* and only the end of the stream may close a segment short of the target. *)
(***************************************************************************)
OvershootAtMostOnePart ==
    /\ store.currentSeg.dur < SegmentDurationMs
    /\ \A i \in DOMAIN store.segments :
          LET seg == store.segments[i]
          IN  /\ seg.dur - LastOf(seg.parts).dur < SegmentDurationMs
              /\ ~store.ended => seg.dur >= SegmentDurationMs

(***************************************************************************)
(* INDEPENDENT=YES is told of exactly the parts whose first fragment       *)
(* starts with a keyframe, whatever fragments were merged after it         *)
(* (Part.Independent, "true if first sample is a keyframe").               *)
(***************************************************************************)
IndependentIsTrue ==
    LET truthful(p) == p.independent = fragments[p.data[1]].key
    IN  /\ store.currentPart # NoPart => truthful(store.currentPart)
        /\ \A seg \in {store.currentSeg} \cup {store.segments[i] : i \in DOMAIN store.segments} :
              \A j \in DOMAIN seg.parts : truthful(seg.parts[j])

(***************************************************************************)
(* Finalize "forces any in-progress part and segment to be closed": once   *)
(* the stream has ended, every fragment is in a completed segment, at      *)
(* least when every fragment is longer than a millisecond.                 *)
(***************************************************************************)
EndedMeansSealed ==
    (store.ended /\ \A d \in FragmentDurations : d > TicksPerMs) =>
        store.currentPart = NoPart /\ store.currentSeg.parts = <<>>

(***************************************************************************)
(* EXTINF and EXT-X-PART durations: a part reports its true duration       *)
(* truncated to a millisecond, or, as float64 has it, a millisecond less   *)
(* where that is a whole number of them; a segment reports the sum of its  *)
(* parts.  So neither is ever reported longer than its media, and neither  *)
(* falls short of it by more than a millisecond per part.  upto[n] is the  *)
(* media time of the first n fragments; data is a run of fragments         *)
(* (StreamUnbroken), so its first and last one tell how long it plays.     *)
(***************************************************************************)
Span(upto, data) ==
    IF data = <<>> THEN 0 ELSE upto[LastOf(data)] - upto[data[1] - 1]

Reports(seg, upto) ==
    /\ \A j \in DOMAIN seg.parts :
          LET part == seg.parts[j]
          IN  Span(upto, part.data) - part.dur * TicksPerMs \in 0 .. TicksPerMs
    /\ seg.dur * TicksPerMs <= Span(upto, seg.data)
    /\ Span(upto, seg.data) - seg.dur * TicksPerMs <= TicksPerMs * Len(seg.parts)

ReportedDurationsDrift ==
    LET upto[n \in 0 .. Len(fragments)] ==
            IF n = 0 THEN 0 ELSE upto[n - 1] + fragments[n].ticks
    IN  /\ Reports(store.currentSeg, upto)
        /\ \A i \in DOMAIN store.segments : Reports(store.segments[i], upto)

\* The parts a client can fetch from s, and what each one is.
Published(s) ==
    UNION {{<<seg.msn, seg.parts[j]>> : j \in DOMAIN seg.parts} :
              seg \in {s.currentSeg} \cup {s.segments[i] : i \in DOMAIN s.segments}}

OldestMSN(s) == IF s.segments = <<>> THEN GetCurrentMSN(s) ELSE s.segments[1].msn

(***************************************************************************)
(* A live playlist may only gain parts at its end and lose the oldest      *)
(* segments: no step changes a part that was announced, none drops a part  *)
(* while its segment is still listed, and the window never slides back or  *)
(* by more than one segment.                                               *)
(***************************************************************************)
PlaylistOnlySlides ==
    [][/\ OldestMSN(store') - OldestMSN(store) \in {0, 1}
       /\ \A p \in Published(store) :
             p[1] >= OldestMSN(store') => p \in Published(store')
       /\ \A p \in Published(store') \ Published(store) :
             p[1] = GetCurrentMSN(store)]_vars

\* x names later media than y: a completed segment (part -1) comes after all
\* of its parts.
Later(x, y) ==
    \/ x.msn > y.msn
    \/ x.msn = y.msn /\ y.part >= 0 /\ (x.part < 0 \/ x.part > y.part)

(***************************************************************************)
(* What the notifier announces only advances, and its ended flag is never  *)
(* taken back: a waiter released by one broadcast is not overtaken by an   *)
(* older one.                                                              *)
(***************************************************************************)
NotifierOnlyAdvances ==
    [][/\ notifier.ended => notifier'.ended
       /\ \/ notifier'.lastMSN = notifier.lastMSN /\ notifier'.lastPart = notifier.lastPart
          \/ Later(Media(notifier'.lastMSN, notifier'.lastPart),
                   Media(notifier.lastMSN, notifier.lastPart))]_vars

=============================================================================

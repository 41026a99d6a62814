--------------------------- MODULE DeliveryProofs ---------------------------
(***************************************************************************)
(* What a player is given, for every window, every duration and every file *)
(* the library may emit: reloading by delta updates shows the whole        *)
(* window and skips only what it may, what a playlist lists stays served   *)
(* while it has promised to, and the hint names the media that comes next. *)
(*                                                                         *)
(* All of it follows from one invariant, that says how an old playlist     *)
(* relates to a newer store (Follows), and how many segments may have been *)
(* completed since, by the ticks of media that came after it (Paced).      *)
(***************************************************************************)
EXTENDS Delivery, ContentProofs, ParserProofs

-----------------------------------------------------------------------------
(* Arithmetic of durations.                                                *)

LEMMA Truncated ==
    ASSUME NEW a \in Nat, NEW b \in Nat \ {0}
    PROVE  a \div b \in Nat /\ b * (a \div b) <= a /\ a < b * (a \div b) + b
  OBVIOUS

LEMMA TimesGrows ==
    ASSUME NEW b \in Nat, NEW i \in Int, NEW j \in Int, i <= j
    PROVE  b * i <= b * j
  OBVIOUS

LEMMA DivAtLeast ==
    ASSUME NEW a \in Nat, NEW b \in Nat \ {0}, NEW c \in Nat, a >= b * c
    PROVE  a \div b >= c
  <1> DEFINE q == a \div b
  <1>1. q \in Nat /\ a < b * q + b
    BY Truncated
  <1> HIDE DEF q
  <1>2. CASE q + 1 <= c
    <2>1. b * (q + 1) <= b * c
      BY <1>1, <1>2, TimesGrows
    <2>2. b * (q + 1) = b * q + b
      BY <1>1
    <2>3. b * q \in Int /\ b * c \in Int
      BY <1>1
    <2> QED BY <1>1, <2>1, <2>2, <2>3
  <1> QED BY <1>1, <1>2 DEF q

\* Whole seconds are more than half of any duration of a second or more.
LEMMA TargetIs ==
    /\ SegmentDurationMs \in Nat \ {0} /\ TargetDuration \in Nat
    /\ TargetDuration <= SegmentDurationMs
    /\ 2 * TargetDuration > SegmentDurationMs
  <1>1. SegmentDurationMs \in Nat \ {0} /\ SegmentDurationMs >= 1000
    BY StoreAssumption, SecondAssumption DEF StoreAssumption, SecondAssumption, Millis
  <1> DEFINE q == SegmentDurationMs \div 1000
  <1>2. q \in Nat /\ 1000 * q <= SegmentDurationMs /\ SegmentDurationMs < 1000 * q + 1000
    BY <1>1, Truncated
  <1>3. TargetDuration = q * 1000
    BY DEF TargetDuration, Millis
  <1> HIDE DEF q
  <1>4. q >= 1
    BY <1>1, <1>2
  <1> QED BY <1>1, <1>2, <1>3, <1>4

-----------------------------------------------------------------------------
(* What is in a playlist.                                                  *)

SegTag == [msn : Int, dur : Nat, media : Seq(Nat)]

\* How many segments a delta update may skip, and how many it then lists.
LEMMA SkippedIs ==
    ASSUME NEW s, Sound(s), NEW skip \in BOOLEAN
    PROVE  /\ SkippedCount(s, skip) \in 0 .. Len(s.segments)
           /\ ~skip => SkippedCount(s, skip) = 0
           /\ SkippedCount(s, skip) # 0 => Len(s.segments) - SkippedCount(s, skip) >= 4
  <1> DEFINE len == Len(s.segments)
             keep == SegsToKeep(s)
             dur == SegmentDurationMs
  <1>1. len \in Nat
    BY CurrentIs
  <1>2. /\ dur \in Nat \ {0} /\ TargetDuration \in Nat /\ TargetDuration <= dur
        /\ 2 * TargetDuration > dur
    BY TargetIs
  <1>3. len * dur \in Nat /\ SkipUntil \in Nat
    BY <1>1, <1>2 DEF SkipUntil
  <1> HIDE DEF len, dur
  <1>4. /\ CappedSkipUntil(s) \in Nat
        /\ CappedSkipUntil(s) = len * dur \/ CappedSkipUntil(s) = SkipUntil
    BY <1>3 DEF CappedSkipUntil, len, dur
  <1> DEFINE up == CappedSkipUntil(s) + dur - 1
  <1>5. keep = up \div dur /\ up \in Nat
    BY <1>2, <1>4 DEF SegsToKeep, dur
  <1>6. keep \in Nat
    BY <1>2, <1>5, Truncated
  <1>7. CASE CappedSkipUntil(s) = len * dur
    <2>1. up >= dur * len
      BY <1>1, <1>2, <1>5, <1>7
    <2> HIDE DEF keep, up
    <2>2. keep >= len
      BY <1>1, <1>2, <1>5, <2>1, DivAtLeast
    <2>3. ~(len > keep)
      BY <1>1, <1>6, <2>2
    <2> QED BY <1>1, <2>3 DEF SkippedCount, keep, len
  <1>8. CASE CappedSkipUntil(s) = SkipUntil
    <2>1. up >= dur * 4
      <3>1. SkipUntil = 6 * TargetDuration
        BY DEF SkipUntil
      <3> QED BY <1>2, <1>8, <3>1
    <2> HIDE DEF keep, up
    <2>2. keep >= 4
      BY <1>2, <1>5, <2>1, DivAtLeast
    <2>3. SkippedCount(s, skip) = IF skip /\ len > keep THEN len - keep ELSE 0
      BY DEF SkippedCount, keep, len
    <2>4. SkippedCount(s, skip) \in 0 .. len
      BY <1>1, <1>6, <2>3
    <2>5. SkippedCount(s, skip) # 0 => len - SkippedCount(s, skip) = keep
      BY <1>1, <1>6, <2>3
    <2> QED BY <1>6, <2>2, <2>3, <2>4, <2>5 DEF len
  <1> QED BY <1>4, <1>7, <1>8

LEMMA SequenceIs ==
    ASSUME NEW s, Sound(s), NEW skip \in BOOLEAN
    PROVE  MediaSequence(s, skip) = OldestMSN(s) /\ OldestMSN(s) \in Nat
  <1>1. OldestMSN(s) = GetCurrentMSN(s) - Len(s.segments) /\ OldestMSN(s) \in Int
    BY OldestByLength, OldestIsNumber
  <1>2. CASE s.segments # <<>>
    <2>1. s.segments \in Seq(Segment)
      BY StoreFields DEF Sound
    <2>2. 1 \in 1 .. Len(s.segments)
      BY <1>2, <2>1, EmptySeq
    <2>3. s.segments[1].msn >= 0
      BY <2>2 DEF Sound, Windowed
    <2> QED BY <1>1, <1>2, <2>3 DEF MediaSequence, OldestMSN
  <1>3. CASE s.segments = <<>>
    <2>1. OldestMSN(s) = GetCurrentMSN(s)
      BY <1>3 DEF OldestMSN
    <2>2. /\ s.currentSeg.msn \in Int /\ s.currentSeg.msn >= -1
          /\ s.currentSeg = NoSegment <=> s.currentSeg.msn = -1
          /\ GetCurrentMSN(s) = IF s.currentSeg.msn = -1 THEN 0 ELSE s.currentSeg.msn
      BY CurrentIs
    <2>3. MediaSequence(s, skip) = IF s.currentSeg # NoSegment THEN s.currentSeg.msn ELSE 0
      BY <1>3 DEF MediaSequence
    <2> QED BY <2>1, <2>2, <2>3
  <1> QED BY <1>2, <1>3

LEMMA TagType ==
    ASSUME NEW seg \in Segment
    PROVE  SegmentTag(seg) \in SegTag
  BY DEF SegmentTag, SegTag, Segment

LEMMA ListedSegments ==
    ASSUME NEW s, Sound(s), NEW skip \in BOOLEAN
    PROVE  LET list == Generate(s, skip)
               k == SkippedCount(s, skip)
           IN  /\ list.segments \in Seq(SegTag)
               /\ Len(list.segments) = Len(s.segments) - k
               /\ \A i \in 1 .. Len(s.segments) - k :
                     /\ i + k \in 1 .. Len(s.segments)
                     /\ list.segments[i] = SegmentTag(s.segments[i + k])
  <1> DEFINE k == SkippedCount(s, skip)
             n == Len(s.segments) - k
             tags == [i \in 1 .. n |-> SegmentTag(s.segments[i + k])]
  <1>1. Generate(s, skip).segments = tags
    BY DEF Generate
  <1>2. /\ Len(s.segments) \in Nat /\ k \in 0 .. Len(s.segments) /\ n \in Nat
        /\ s.segments \in Seq(Segment)
    BY SkippedIs, CurrentIs, StoreFields DEF Sound
  <1> HIDE DEF k
  <1>3. ASSUME NEW i \in 1 .. n
        PROVE  i + k \in 1 .. Len(s.segments) /\ SegmentTag(s.segments[i + k]) \in SegTag
    <2>1. i + k \in 1 .. Len(s.segments)
      BY <1>2
    <2>2. s.segments[i + k] \in Segment
      BY <1>2, <2>1, ElementOfSeq
    <2> QED BY <2>1, <2>2, TagType
  <1>4. tags \in Seq(SegTag) /\ Len(tags) = n
    <2>1. tags \in [1 .. n -> SegTag]
      BY <1>3
    <2> HIDE DEF tags, n
    <2> QED BY <1>2, <2>1
  <1> QED BY <1>1, <1>3, <1>4 DEF k

\* A playlist and a delta update differ in their segments only.
LEMMA SameBut ==
    ASSUME NEW s, Sound(s)
    PROVE  /\ Generate(s, FALSE).sequence = OldestMSN(s)
           /\ Generate(s, FALSE).skipped = 0
           /\ Generate(s, TRUE).sequence = OldestMSN(s)
           /\ Generate(s, TRUE).skipped = SkippedCount(s, TRUE)
           /\ Generate(s, FALSE) =
                 [Generate(s, TRUE) EXCEPT !.segments = Generate(s, FALSE).segments,
                                           !.skipped = 0]
  <1>1. /\ MediaSequence(s, FALSE) = OldestMSN(s) /\ MediaSequence(s, TRUE) = OldestMSN(s)
        /\ SkippedCount(s, FALSE) = 0
    BY SequenceIs, SkippedIs
  <1> DEFINE tags(skip) == [i \in 1 .. Len(s.segments) - SkippedCount(s, skip) |->
                               SegmentTag(s.segments[i + SkippedCount(s, skip)])]
             parts == (IF s.segments = <<>> THEN <<>> ELSE PartTags(LastOf(s.segments)))
                         \o (IF s.ended THEN <<>> ELSE PartTags(s.currentSeg))
             list(skip) == [sequence |-> MediaSequence(s, skip),
                            skipped  |-> SkippedCount(s, skip),
                            segments |-> tags(skip), parts |-> parts,
                            hint |-> Hint(s), ended |-> s.ended]
  <1>2. Generate(s, FALSE) = list(FALSE) /\ Generate(s, TRUE) = list(TRUE)
    BY DEF Generate
  <1>3. \A skip \in BOOLEAN : /\ list(skip).sequence = MediaSequence(s, skip)
                              /\ list(skip).skipped = SkippedCount(s, skip)
                              /\ list(skip).segments = tags(skip)
    OBVIOUS
  <1>4. [list(TRUE) EXCEPT !.segments = tags(FALSE), !.skipped = 0] = list(FALSE)
    <2> DEFINE all == tags(FALSE)
               some == tags(TRUE)
               old == OldestMSN(s)
               k == SkippedCount(s, TRUE)
               hint == Hint(s)
               ended == s.ended
    <2>1. /\ list(TRUE) = [sequence |-> old, skipped |-> k, segments |-> some,
                           parts |-> parts, hint |-> hint, ended |-> ended]
          /\ list(FALSE) = [sequence |-> old, skipped |-> 0, segments |-> all,
                            parts |-> parts, hint |-> hint, ended |-> ended]
      BY <1>1
    <2> HIDE DEF all, some, old, k, hint, ended, parts
    <2>2. [[sequence |-> old, skipped |-> k, segments |-> some,
            parts |-> parts, hint |-> hint, ended |-> ended]
              EXCEPT !.segments = all, !.skipped = 0] =
          [sequence |-> old, skipped |-> 0, segments |-> all,
           parts |-> parts, hint |-> hint, ended |-> ended]
      <3> DEFINE delta == [sequence |-> old, skipped |-> k, segments |-> some,
                           parts |-> parts, hint |-> hint, ended |-> ended]
                 filled == [delta EXCEPT !.segments = all, !.skipped = 0]
                 full == [sequence |-> old, skipped |-> 0, segments |-> all,
                          parts |-> parts, hint |-> hint, ended |-> ended]
                 Either == [sequence : {old}, skipped : {k, 0}, segments : {some, all},
                            parts : {parts}, hint : {hint}, ended : {ended}]
      <3>1. filled \in Either /\ full \in Either
        OBVIOUS
      <3>2. /\ filled.segments = all /\ filled.skipped = 0
            /\ full.segments = all /\ full.skipped = 0
        OBVIOUS
      <3> HIDE DEF filled, full
      <3>3. filled = full
        BY <3>1, <3>2
      <3> QED BY <3>3 DEF filled, full
    <2> HIDE DEF list
    <2> QED BY <2>1, <2>2 DEF all
  <1> HIDE DEF tags, parts, list
  <1> QED BY <1>1, <1>2, <1>3, <1>4

-----------------------------------------------------------------------------
(* A delta update and the playlist before it make the whole window.        *)

\* The number after that of the last segment listed.
End(list) == list.sequence + Len(list.segments)

\* A playlist without a gap.
Listing(list) ==
    /\ list.skipped = 0 /\ list.sequence \in Nat
    /\ list.segments \in Seq(SegTag)
    /\ \A i \in 1 .. Len(list.segments) : list.segments[i].msn = list.sequence + i - 1

\* The segments it lists are those of the window, where that still has them.
SegmentsStand(list, s) ==
    \A i \in 1 .. Len(list.segments) : \A j \in 1 .. Len(s.segments) :
        s.segments[j].msn = list.segments[i].msn =>
            list.segments[i] = SegmentTag(s.segments[j])

LEMMA WindowNumbers ==
    ASSUME NEW s, Sound(s), NEW i \in 1 .. Len(s.segments)
    PROVE  /\ s.segments[i] \in Segment /\ s.segments[i].completed
           /\ s.segments[i].msn = OldestMSN(s) + i - 1
           /\ s.segments[i].msn >= 0 /\ s.segments[i].parts # <<>>
           /\ s.currentSeg.msn = OldestMSN(s) + Len(s.segments)
  <1> DEFINE len == Len(s.segments)
             cur == s.currentSeg.msn
  <1>1. /\ s.segments \in Seq(Segment) /\ len \in Nat /\ cur \in Int
        /\ GetCurrentMSN(s) = IF cur = -1 THEN 0 ELSE cur
    BY CurrentIs, StoreFields DEF Sound
  <1>2. /\ s.segments[i].completed /\ s.segments[i].parts # <<>>
        /\ s.segments[i].msn = cur - len + i - 1 /\ s.segments[i].msn >= 0
        /\ cur = -1 => s.segments = <<>>
    BY DEF Sound, Windowed
  <1>3. cur # -1
    BY <1>1, <1>2
  <1>4. OldestMSN(s) = cur - len
    BY <1>1, <1>3, OldestByLength
  <1>5. s.segments[i] \in Segment
    BY <1>1, ElementOfSeq
  <1> HIDE DEF len, cur
  <1>6. i \in Nat /\ OldestMSN(s) + i - 1 = cur - len + i - 1 /\ OldestMSN(s) + len = cur
    BY <1>1, <1>4
  <1> QED BY <1>2, <1>5, <1>6 DEF len, cur

LEMMA RebuiltWhole ==
    ASSUME NEW s, Sound(s), NEW list, Listing(list), SegmentsStand(list, s),
           list.sequence <= OldestMSN(s), GetCurrentMSN(s) - End(list) <= 4
    PROVE  Rebuilt(list, Generate(s, TRUE)) = Generate(s, FALSE)
  <1> DEFINE delta == Generate(s, TRUE)
             full == Generate(s, FALSE)
             k == SkippedCount(s, TRUE)
             n == Len(s.segments)
             has == Len(list.segments)
             gone == OldestMSN(s) - list.sequence
             upto == IF gone + k <= has THEN gone + k ELSE has
             skipped == SubSeq(list.segments, gone + 1, upto)
  <1>1. /\ n \in Nat /\ k \in 0 .. n /\ (k # 0 => n - k >= 4)
        /\ GetCurrentMSN(s) = OldestMSN(s) + n /\ OldestMSN(s) \in Nat
    <2>1. k \in 0 .. n /\ (k # 0 => n - k >= 4)
      BY SkippedIs
    <2>2. n \in Nat /\ GetCurrentMSN(s) \in Int
      BY CurrentIs
    <2>3. OldestMSN(s) = GetCurrentMSN(s) - n
      BY OldestByLength
    <2>4. MediaSequence(s, TRUE) = OldestMSN(s) /\ OldestMSN(s) \in Nat
      BY SequenceIs
    <2> HIDE DEF k, n
    <2> QED BY <2>1, <2>2, <2>3, <2>4
  <1> HIDE DEF k, n
  <1>2. list.sequence \in Nat /\ has \in Nat /\ gone \in Nat
    BY <1>1, LenProperties DEF Listing
  <1>3. /\ upto \in Int /\ upto <= has
        /\ IF k = 0 THEN upto <= gone ELSE upto = gone + k
    <2>1. CASE k = 0
      BY <1>1, <1>2, <2>1
    <2>2. CASE k # 0
      <3>1. GetCurrentMSN(s) - (list.sequence + has) <= 4
        BY DEF End
      <3> HIDE DEF has
      <3>2. gone + k <= has
        BY <1>1, <1>2, <2>2, <3>1
      <3> QED BY <1>1, <1>2, <2>2, <3>2
    <2> QED BY <2>1, <2>2
  <1>4. /\ skipped \in Seq(SegTag) /\ Len(skipped) = k
        /\ \A i \in 1 .. k : gone + i \in 1 .. has /\ skipped[i] = list.segments[gone + i]
    <2> HIDE DEF k, n, has, gone, upto
    <2>1. \A i \in gone + 1 .. upto : list.segments[i] \in SegTag
      <3> TAKE i \in gone + 1 .. upto
      <3>1. i \in 1 .. has
        BY <1>2, <1>3
      <3> QED BY <3>1, ElementOfSeq DEF Listing, has
    <2>2. /\ skipped \in Seq(SegTag)
          /\ Len(skipped) = IF gone + 1 <= upto THEN upto - (gone + 1) + 1 ELSE 0
          /\ \A i \in 1 .. upto - (gone + 1) + 1 :
                skipped[i] = list.segments[(gone + 1) + i - 1]
      <3>1. gone + 1 \in Int /\ upto \in Int
        BY <1>2, <1>3
      <3> QED BY <2>1, <3>1, SubSeqProperties
    <2> HIDE DEF skipped
    <2>3. CASE k = 0
      BY <1>2, <1>3, <2>2, <2>3
    <2>4. CASE k # 0
      <3>1. upto - (gone + 1) + 1 = k /\ gone + 1 <= upto
        BY <1>1, <1>2, <1>3, <2>4
      <3>2. \A i \in 1 .. k : gone + i \in 1 .. has /\ (gone + 1) + i - 1 = gone + i
        BY <1>1, <1>2, <1>3, <2>4
      <3> QED BY <2>2, <3>1, <3>2
    <2> QED BY <2>3, <2>4
  <1>5. ASSUME NEW i \in 1 .. k PROVE skipped[i] = SegmentTag(s.segments[i])
    <2>1. i \in 1 .. Len(s.segments)
      BY <1>1 DEF n
    <2>2. s.segments[i].msn = OldestMSN(s) + i - 1
      BY <2>1, WindowNumbers
    <2>3. gone + i \in 1 .. has /\ skipped[i] = list.segments[gone + i]
      BY <1>4
    <2>4. list.segments[gone + i].msn = list.sequence + (gone + i) - 1
      BY <2>3 DEF Listing
    <2>5. list.sequence + (gone + i) - 1 = OldestMSN(s) + i - 1
      BY <1>1, <1>2
    <2> QED BY <2>1, <2>2, <2>3, <2>4, <2>5 DEF SegmentsStand
  <1>6. /\ delta.segments \in Seq(SegTag) /\ Len(delta.segments) = n - k
        /\ \A i \in 1 .. n - k : delta.segments[i] = SegmentTag(s.segments[i + k])
        /\ full.segments \in Seq(SegTag) /\ Len(full.segments) = n
        /\ \A i \in 1 .. n : full.segments[i] = SegmentTag(s.segments[i])
    <2> USE DEF k, n
    <2>1. SkippedCount(s, FALSE) = 0
      BY SkippedIs
    <2>2. /\ full.segments \in Seq(SegTag) /\ Len(full.segments) = n - 0
          /\ \A i \in 1 .. n - 0 : full.segments[i] = SegmentTag(s.segments[i + 0])
      BY <2>1, ListedSegments
    <2> HIDE DEF k, n
    <2>3. n - 0 = n /\ \A i \in 1 .. n : i + 0 = i
      BY <1>1
    <2>4. \A i \in 1 .. n : full.segments[i] = SegmentTag(s.segments[i])
      BY <2>2, <2>3
    <2>5. /\ delta.segments \in Seq(SegTag) /\ Len(delta.segments) = n - k
          /\ \A i \in 1 .. n - k : delta.segments[i] = SegmentTag(s.segments[i + k])
      BY ListedSegments DEF k, n
    <2> HIDE DEF full, delta
    <2> QED BY <2>2, <2>3, <2>4, <2>5
  <1> DEFINE joined == skipped \o delta.segments
  <1> HIDE DEF skipped, delta, full
  <1>7. joined = full.segments
    <2>1. /\ joined \in Seq(SegTag) /\ Len(joined) = k + (n - k)
          /\ \A i \in 1 .. k + (n - k) :
                joined[i] = IF i <= k THEN skipped[i] ELSE delta.segments[i - k]
      <3> DEFINE rest == delta.segments
      <3>1. rest \in Seq(SegTag) /\ Len(rest) = n - k
        BY <1>6
      <3> HIDE DEF rest
      <3>2. /\ skipped \o rest \in Seq(SegTag)
            /\ Len(skipped \o rest) = Len(skipped) + Len(rest)
            /\ \A i \in 1 .. Len(skipped) + Len(rest) :
                  (skipped \o rest)[i] =
                      IF i <= Len(skipped) THEN skipped[i] ELSE rest[i - Len(skipped)]
        BY <1>4, <3>1, ConcatProperties
      <3>3. Len(skipped) = k
        BY <1>4
      <3> QED BY <3>1, <3>2, <3>3 DEF rest
    <2> HIDE DEF joined
    <2>2. Len(joined) = n /\ k + (n - k) = n
      BY <1>1, <2>1
    <2>3. ASSUME NEW i \in 1 .. n PROVE joined[i] = full.segments[i]
      <3>1. CASE i <= k
        <4>1. i \in 1 .. k
          BY <1>1, <3>1
        <4> QED BY <1>5, <1>6, <2>1, <2>2, <3>1, <4>1
      <3>2. CASE ~(i <= k)
        <4>1. i - k \in 1 .. n - k /\ (i - k) + k = i
          BY <1>1, <3>2
        <4>2. delta.segments[i - k] = SegmentTag(s.segments[i])
          BY <1>6, <4>1
        <4> QED BY <1>6, <2>1, <2>2, <3>2, <4>2
      <3> QED BY <3>1, <3>2
    <2> QED BY <1>6, <2>1, <2>2, <2>3, SeqEqual
  <1>8. /\ delta.sequence = OldestMSN(s) /\ delta.skipped = k
        /\ full = [delta EXCEPT !.segments = full.segments, !.skipped = 0]
    BY SameBut DEF k, delta, full
  <1>9. Rebuilt(list, delta) = [delta EXCEPT !.segments = joined, !.skipped = 0]
    BY <1>8 DEF Rebuilt, skipped
  <1> HIDE DEF joined
  <1> QED BY <1>7, <1>8, <1>9 DEF delta, full

-----------------------------------------------------------------------------
(* The parts a store can serve are those that it published.                *)

SegmentsOf(s) == {s.currentSeg} \cup {s.segments[i] : i \in DOMAIN s.segments}

LEMMA OneByNumber ==
    ASSUME NEW s, Sound(s), NEW x \in SegmentsOf(s), NEW y \in SegmentsOf(s), x.msn = y.msn
    PROVE  x = y
  <1>1. /\ DOMAIN s.segments = 1 .. Len(s.segments) /\ Len(s.segments) \in Nat
        /\ OldestMSN(s) \in Int
    BY CurrentIs, OldestIsNumber
  <1>2. ASSUME NEW i \in DOMAIN s.segments PROVE s.segments[i].msn # s.currentSeg.msn
    <2>1. /\ s.segments[i].msn = OldestMSN(s) + i - 1
          /\ s.currentSeg.msn = OldestMSN(s) + Len(s.segments)
          /\ i \in 1 .. Len(s.segments)
      BY <1>1, WindowNumbers
    <2> QED BY <1>1, <2>1
  <1>3. ASSUME NEW i \in DOMAIN s.segments, NEW j \in DOMAIN s.segments,
               s.segments[i].msn = s.segments[j].msn
        PROVE  i = j
    <2>1. /\ s.segments[i].msn = OldestMSN(s) + i - 1
          /\ s.segments[j].msn = OldestMSN(s) + j - 1
          /\ i \in 1 .. Len(s.segments) /\ j \in 1 .. Len(s.segments)
      BY <1>1, WindowNumbers
    <2>2. OldestMSN(s) + i - 1 = OldestMSN(s) + j - 1
      BY <1>3, <2>1
    <2> QED BY <1>1, <2>1, <2>2
  <1> QED BY <1>2, <1>3 DEF SegmentsOf

LEMMA SegmentsTile ==
    ASSUME NEW s, Sound(s), Tiled(s), NEW seg \in SegmentsOf(s)
    PROVE  seg \in Segment /\ PartsTile(seg)
  <1>1. /\ DOMAIN s.segments = 1 .. Len(s.segments)
        /\ s.currentSeg \in Segment /\ s.segments \in Seq(Segment)
    BY CurrentIs, StoreFields DEF Sound
  <1>2. \A i \in DOMAIN s.segments : s.segments[i] \in Segment
    BY <1>1, ElementOfSeq
  <1> QED BY <1>1, <1>2 DEF SegmentsOf, Tiled

LEMMA PublishedIn ==
    ASSUME NEW s, NEW p
    PROVE  p \in Published(s) <=> \E seg \in SegmentsOf(s) : Shows(seg, p)
  BY PublishedBy DEF SegmentsOf

LEMMA PartFound ==
    ASSUME NEW s, Sound(s), Tiled(s), NEW p \in Published(s)
    PROVE  /\ HasPart(s, p[1], p[2].idx)
           /\ ServePart(s, p[1], p[2].idx) = Ok(p[2].data)
           /\ p[1] \in Nat /\ p[2] \in Part /\ p[2].msn = p[1]
  <1>1. PICK seg \in SegmentsOf(s) : Shows(seg, p)
    BY PublishedIn
  <1>2. PICK j \in DOMAIN seg.parts : p = <<seg.msn, seg.parts[j]>>
    BY <1>1 DEF Shows
  <1>3. seg \in Segment /\ PartsTile(seg)
    BY SegmentsTile
  <1>4. /\ seg.parts \in Seq(Part) /\ DOMAIN seg.parts = 1 .. Len(seg.parts)
        /\ Len(seg.parts) \in Nat /\ seg.parts[j] \in Part /\ seg.msn \in Int
    BY <1>3, LenProperties, ElementOfSeq DEF Segment
  <1>5. /\ p[1] = seg.msn /\ p[2] = seg.parts[j] /\ p[2].idx = j - 1
        /\ p[2].msn = seg.msn
    BY <1>2, <1>3 DEF PartsTile
  <1>6. seg # NoSegment /\ seg.parts # <<>>
    BY <1>2 DEF NoSegment, NewSegment
  <1>7. HasPart(s, seg.msn, j - 1)
    <2>1. j - 1 < Len(seg.parts)
      BY <1>4
    <2> QED BY <1>6, <2>1 DEF HasPart, SegmentsOf
  <1>8. ServePart(s, seg.msn, j - 1) = Ok(seg.parts[j].data)
    <2> DEFINE found == CHOOSE x \in SegmentsOf(s) : x.msn = seg.msn
    <2>1. found \in SegmentsOf(s) /\ found.msn = seg.msn
      OBVIOUS
    <2> HIDE DEF found
    <2>2. found = seg
      BY <2>1, OneByNumber
    <2>3. (j - 1) + 1 = j
      BY <1>4
    <2>4. ServePart(s, seg.msn, j - 1) = Ok(found.parts[(j - 1) + 1].data)
      BY DEF ServePart, found, SegmentsOf
    <2> QED BY <2>2, <2>3, <2>4
  <1>9. seg.msn >= 0
    <2>1. CASE seg = s.currentSeg
      <3>1. s.currentSeg.msn >= -1 /\ (s.currentSeg = NoSegment <=> s.currentSeg.msn = -1)
        BY CurrentIs
      <3> QED BY <1>4, <1>6, <2>1, <3>1
    <2>2. ASSUME NEW i \in DOMAIN s.segments, seg = s.segments[i] PROVE seg.msn >= 0
      <3>1. i \in 1 .. Len(s.segments)
        BY CurrentIs
      <3> QED BY <2>2, <3>1, WindowNumbers
    <2> QED BY <2>1, <2>2 DEF SegmentsOf
  <1> QED BY <1>4, <1>5, <1>7, <1>8, <1>9

LEMMA PartIsPublished ==
    ASSUME NEW s, Sound(s), Tiled(s), NEW msn, NEW idx \in Nat, HasPart(s, msn, idx)
    PROVE  \E p \in Published(s) : p[1] = msn /\ p[2].idx = idx
  <1>1. PICK seg \in SegmentsOf(s) : seg.msn = msn /\ idx < Len(seg.parts)
    BY DEF HasPart, SegmentsOf
  <1>2. seg \in Segment /\ PartsTile(seg)
    BY SegmentsTile
  <1>3. DOMAIN seg.parts = 1 .. Len(seg.parts) /\ Len(seg.parts) \in Nat
    BY <1>2, LenProperties DEF Segment
  <1>4. idx + 1 \in DOMAIN seg.parts
    BY <1>1, <1>3
  <1>5. seg.parts[idx + 1].idx = idx
    BY <1>2, <1>4 DEF PartsTile
  <1> DEFINE p == <<seg.msn, seg.parts[idx + 1]>>
  <1>6. p[1] = msn /\ p[2].idx = idx
    BY <1>1, <1>5
  <1>7. p \in Published(s)
    BY <1>4, PublishedIn DEF Shows
  <1> QED BY <1>6, <1>7

-----------------------------------------------------------------------------
(* How an old playlist relates to a newer store.                           *)

\* A part it lists is still published, unless its segment left the window.
StillThere(tag, s) ==
    tag.msn >= OldestMSN(s) =>
        \E p \in Published(s) : p[1] = tag.msn /\ PartTag(p[2]) = tag

PartsStand(list, s) ==
    \A j \in DOMAIN list.parts :
        LET tag == list.parts[j]
        IN  /\ tag.msn \in Nat /\ tag.msn \in {End(list) - 1, End(list)}
            /\ StillThere(tag, s)

\* The part h names is one that comes right after fragment e, when it comes.
Awaits(h, e, s, n) ==
    /\ h[1] \in Nat /\ h[2] \in Nat /\ h[1] <= s.currentSeg.msn
    /\ h[1] = s.currentSeg.msn =>
          /\ h[2] <= Len(s.currentSeg.parts)
          /\ h[2] = Len(s.currentSeg.parts) => Cut(s, n) = e
    /\ \A p \in Published(s) : p[1] = h[1] /\ p[2].idx = h[2] => p[2].data[1] = e + 1

\* Whether the playlist tells the player which media its hint comes after.
Hints(list) == list.hint # NoHint /\ (list.parts = <<>> => list.sequence = 0)

Follows(list, s, n) ==
    /\ list.sequence <= OldestMSN(s) /\ End(list) <= GetCurrentMSN(s)
    /\ SegmentsStand(list, s)
    /\ PartsStand(list, s)
    /\ Hints(list) => Awaits(list.hint, LastListed(list), s, n)

\* A store whose content is whole.
Kept(s, n) == Sound(s) /\ Whole(s, n) /\ Tiled(s)

\* The window t has only segments of s, or later ones.
Moves(s, t) ==
    /\ GetCurrentMSN(t) >= GetCurrentMSN(s)
    /\ \A j \in 1 .. Len(t.segments) :
          \/ \E i \in 1 .. Len(s.segments) : t.segments[j] = s.segments[i]
          \/ t.segments[j].msn >= GetCurrentMSN(s)

LEMMA StillFollows ==
    ASSUME NEW s, Sound(s), NEW t, Sound(t), Slides(s, t), Moves(s, t),
           NEW list, Listing(list), NEW n, Follows(list, s, n), NEW m,
           Hints(list) => Awaits(list.hint, LastListed(list), t, m)
    PROVE  Follows(list, t, m)
  <1>1. /\ OldestMSN(s) \in Int /\ OldestMSN(t) \in Int /\ OldestMSN(t) >= OldestMSN(s)
        /\ GetCurrentMSN(s) \in Int /\ GetCurrentMSN(t) \in Int
        /\ list.sequence \in Nat /\ Len(list.segments) \in Nat /\ End(list) \in Nat
    <2>1. OldestMSN(s) \in Int /\ OldestMSN(t) \in Int
      BY OldestIsNumber
    <2>2. GetCurrentMSN(s) \in Int /\ GetCurrentMSN(t) \in Int
      BY CurrentIs
    <2>3. list.sequence \in Nat /\ Len(list.segments) \in Nat
      BY LenProperties DEF Listing
    <2> QED BY <2>1, <2>2, <2>3 DEF Slides, End
  <1>2. list.sequence <= OldestMSN(t) /\ End(list) <= GetCurrentMSN(t)
    BY <1>1 DEF Follows, Moves
  <1>3. SegmentsStand(list, t)
    <2> SUFFICES ASSUME NEW i \in 1 .. Len(list.segments), NEW j \in 1 .. Len(t.segments),
                        t.segments[j].msn = list.segments[i].msn
                 PROVE  list.segments[i] = SegmentTag(t.segments[j])
      BY DEF SegmentsStand
    <2>1. list.segments[i].msn = list.sequence + i - 1
      BY DEF Listing
    <2>2. ~(t.segments[j].msn >= GetCurrentMSN(s))
      BY <1>1, <2>1 DEF End, Follows
    <2>3. PICK k \in 1 .. Len(s.segments) : t.segments[j] = s.segments[k]
      BY <2>2 DEF Moves
    <2> QED BY <2>3 DEF Follows, SegmentsStand
  <1>4. PartsStand(list, t)
    <2> SUFFICES ASSUME NEW j \in DOMAIN list.parts, list.parts[j].msn >= OldestMSN(t)
                 PROVE  \E p \in Published(t) : /\ p[1] = list.parts[j].msn
                                                /\ PartTag(p[2]) = list.parts[j]
      BY DEF Follows, PartsStand, StillThere
    <2>1. list.parts[j].msn \in Nat /\ StillThere(list.parts[j], s)
      BY DEF Follows, PartsStand
    <2>2. list.parts[j].msn >= OldestMSN(s)
      BY <1>1, <2>1
    <2>3. PICK p \in Published(s) : p[1] = list.parts[j].msn /\ PartTag(p[2]) = list.parts[j]
      BY <2>1, <2>2 DEF StillThere
    <2>4. p \in Published(t)
      BY <2>3 DEF Slides
    <2> QED BY <2>3, <2>4
  <1> QED BY <1>2, <1>3, <1>4 DEF Follows

-----------------------------------------------------------------------------
(* Every operation of the store leaves it so.                              *)

LEMMA FeedingFollows ==
    ASSUME NEW s, NEW n \in Nat, Kept(s, n),
           NEW frag \in Fragment, NEW lost \in SUBSET Uses,
           NEW list, Listing(list), Follows(list, s, n)
    PROVE  LET fed == Accumulate(s, n + 1, frag, lost)
           IN  Kept(fed, n + 1) /\ Follows(list, fed, n + 1)
  <1> DEFINE fed == Accumulate(s, n + 1, frag, lost)
             acc == IF s.currentPart = NoPart THEN NewPart(frag.key) ELSE s.currentPart
  <1>1. Sound(s) /\ Whole(s, n) /\ Tiled(s) /\ s \in StoreRecord /\ n + 1 \in Nat
    BY DEF Kept, Sound
  <1>2. Filled(fed) /\ Sound(fed) /\ Kept(fed, n + 1)
    BY <1>1, AccumulateSound, AccumulateWhole, AccumulateTiled DEF Filled, Kept
  <1>3. /\ Slides(s, fed) /\ Published(fed) = Published(s)
        /\ GetCurrentMSN(fed) = GetCurrentMSN(s)
    BY <1>1, AccumulateGrows, GrowsSlides
  <1>4. /\ fed.segments = s.segments /\ acc.data = s.currentPart.data
        /\ fed.currentSeg = IF s.currentSeg = NoSegment
                            THEN NewSegment(s.nextMSN) ELSE s.currentSeg
        /\ fed.currentPart.data = Append(acc.data, n + 1)
    <2>1. frag.key \in BOOLEAN
      BY StoreAssumption DEF StoreAssumption, Fragment
    <2> QED BY <1>1, <2>1, AccumulateFields, NilData
  <1> HIDE DEF fed, acc
  <1>5. Cut(fed, n + 1) = Cut(s, n)
    <2>1. s.currentPart.data \in Seq(Nat) /\ Len(s.currentPart.data) \in Nat
      BY <1>1, WholeTypes
    <2>2. Len(fed.currentPart.data) = Len(s.currentPart.data) + 1
      BY <1>1, <1>4, <2>1, AppendProperties
    <2> QED BY <2>1, <2>2 DEF Cut
  <1>6. Moves(s, fed)
    BY <1>1, <1>3, <1>4, CurrentIs DEF Moves
  <1>7. ASSUME Hints(list) PROVE Awaits(list.hint, LastListed(list), fed, n + 1)
    <2>1. Awaits(list.hint, LastListed(list), s, n)
      BY <1>7 DEF Follows
    <2>2. s.currentSeg # NoSegment
      BY <2>1, NilData DEF Awaits
    <2>3. fed.currentSeg = s.currentSeg
      BY <1>4, <2>2
    <2> QED BY <1>3, <1>5, <2>1, <2>3 DEF Awaits
  <1>8. Follows(list, fed, n + 1)
    BY <1>1, <1>2, <1>3, <1>6, <1>7, StillFollows
  <1> QED BY <1>2, <1>8 DEF fed

LEMMA ClosingFollows ==
    ASSUME NEW s, NEW n \in Nat, Kept(s, n), Filled(s), s.currentPart # NoPart,
           NEW list, Listing(list), Follows(list, s, n)
    PROVE  Kept(AppendPart(s), n) /\ Follows(list, AppendPart(s), n)
  <1> DEFINE grown == AppendPart(s)
             part == ClosedPart(s)
             parts == s.currentSeg.parts
  <1>1. Sound(s) /\ Whole(s, n) /\ Tiled(s) /\ s \in StoreRecord
    BY DEF Kept, Sound
  <1>2. Sealable(grown) /\ Sound(grown) /\ Kept(grown, n)
    BY <1>1, AppendPartSound, AppendPartWhole, AppendPartTiled DEF Sealable, Filled, Kept
  <1>3. Grows(s, grown) /\ Slides(s, grown)
    BY <1>1, AppendPartGrows, GrowsSlides
  <1>4. /\ grown.segments = s.segments /\ grown.currentSeg.msn = s.currentSeg.msn
        /\ Len(grown.currentSeg.parts) = Len(parts) + 1
        /\ part.data = s.currentPart.data /\ part.idx = Len(parts)
    BY <1>1, AppendPartFields, AppendPartSound DEF ClosedPart, NextIndex
  <1>5. /\ s.currentSeg.msn \in Int /\ s.currentSeg.msn >= 0 /\ Len(parts) \in Nat
        /\ GetCurrentMSN(grown) = GetCurrentMSN(s) /\ GetCurrentMSN(s) \in Int
    <2>1. parts \in Seq(Part)
      BY <1>1, WholeTypes
    <2>2. s.currentSeg.msn \in Int /\ s.currentSeg.msn >= 0
      BY <1>1, CurrentIs DEF Filled
    <2>3. GetCurrentMSN(s) = s.currentSeg.msn /\ GetCurrentMSN(grown) = grown.currentSeg.msn
      BY <1>1, <1>2, <1>4, <2>2, CurrentIs
    <2> QED BY <1>4, <2>1, <2>2, <2>3, LenProperties
  <1>6. part.data[1] = Cut(s, n) + 1
    <2> DEFINE d == s.currentPart.data
    <2>1. d \in Seq(Nat) /\ RunTo(d, n) /\ d # <<>> /\ n \in Int /\ Cut(s, n) \in Int
      BY <1>1, WholeTypes DEF Whole
    <2>2. Cut(s, n) = n - Len(d)
      BY DEF Cut
    <2>3. d[1] \in Nat
      <3> HIDE DEF d
      <3>1. 1 \in 1 .. Len(d)
        BY <2>1, EmptySeq
      <3> QED BY <2>1, <3>1, ElementOfSeq
    <2>4. d[1] - 1 = n - Len(d)
      <3> HIDE DEF d
      <3> QED BY <2>1, RunFirst
    <2> HIDE DEF d
    <2>5. d[1] = Cut(s, n) + 1
      BY <2>1, <2>2, <2>3, <2>4
    <2> QED BY <1>4, <2>5 DEF d
  <1>7. \A p \in Published(grown) : p \in Published(s) \/ p = <<s.currentSeg.msn, part>>
    BY GainsOnePart
  <1> HIDE DEF grown, part, parts
  <1>8. Moves(s, grown)
    BY <1>4, <1>5 DEF Moves
  <1>9. ASSUME Hints(list) PROVE Awaits(list.hint, LastListed(list), grown, n)
    <2> DEFINE h == list.hint
               e == LastListed(list)
    <2>1. Awaits(h, e, s, n)
      BY <1>9 DEF Follows
    <2> HIDE DEF h, e
    <2>2. ASSUME NEW p \in Published(grown), p[1] = h[1], p[2].idx = h[2]
          PROVE  p[2].data[1] = e + 1
      <3>1. CASE p \in Published(s)
        BY <2>1, <2>2, <3>1 DEF Awaits
      <3>2. CASE p = <<s.currentSeg.msn, part>>
        <4>1. p[1] = s.currentSeg.msn /\ p[2] = part
          BY <3>2
        <4>2. h[1] = s.currentSeg.msn /\ h[2] = Len(parts)
          BY <1>4, <2>2, <4>1
        <4>3. Cut(s, n) = e
          BY <2>1, <4>2 DEF Awaits, parts
        <4> QED BY <1>6, <4>1, <4>3
      <3> QED BY <1>7, <3>1, <3>2
    <2>3. h[1] = grown.currentSeg.msn =>
              h[2] <= Len(parts) /\ h[2] < Len(grown.currentSeg.parts)
      BY <1>4, <1>5, <2>1 DEF Awaits, parts
    <2>4. h[1] = grown.currentSeg.msn =>
              /\ h[2] <= Len(grown.currentSeg.parts)
              /\ h[2] # Len(grown.currentSeg.parts)
      BY <1>4, <1>5, <2>1, <2>3 DEF Awaits
    <2>5. h[1] \in Nat /\ h[2] \in Nat /\ h[1] <= grown.currentSeg.msn
      BY <1>4, <2>1 DEF Awaits
    <2>6. Awaits(h, e, grown, n)
      BY <2>2, <2>4, <2>5 DEF Awaits
    <2> QED BY <2>6 DEF h, e
  <1>10. Follows(list, grown, n)
    BY <1>1, <1>2, <1>3, <1>8, <1>9, StillFollows
  <1> QED BY <1>2, <1>10 DEF grown

LEMMA SealingFollows ==
    ASSUME NEW s, NEW n \in Nat, Kept(s, n), Sealable(s), s.currentPart = NoPart,
           NEW list, Listing(list), Follows(list, s, n)
    PROVE  Kept(FinalizeSegment(s), n) /\ Follows(list, FinalizeSegment(s), n)
  <1> DEFINE next == FinalizeSegment(s)
             done == Done(s.currentSeg)
             cur == s.currentSeg.msn
  <1>1. /\ Sound(s) /\ Whole(s, n) /\ Tiled(s) /\ s \in StoreRecord
        /\ s.segments \in Seq(Segment) /\ s.currentSeg \in Segment /\ cur >= 0 /\ cur \in Int
    BY StoreFields, CurrentIs DEF Kept, Sound, Sealable, Filled
  <1>2. Filled(next) /\ Sound(next) /\ Kept(next, n) /\ next.currentSeg = NewSegment(cur + 1)
    BY <1>1, FinalizeSegmentSound, FinalizeSegmentWhole, FinalizeSegmentTiled
       DEF Filled, Kept
  <1>3. Trims(s, next) /\ Slides(s, next)
    BY FinalizeSegmentTrims DEF Trims, Slides
  <1>4. next.currentSeg.msn = cur + 1 /\ next.segments = TrimWindow(Append(s.segments, done))
    <2>1. next.segments = TrimWindow(Append(s.segments, done))
      BY <1>1, FinalizeSegmentFields
    <2>2. NewSegment(cur + 1).msn = cur + 1
      BY DEF NewSegment
    <2> HIDE DEF next
    <2> QED BY <1>2, <2>1, <2>2
  <1>5. GetCurrentMSN(s) = cur /\ GetCurrentMSN(next) = cur + 1
    BY <1>1, <1>2, <1>4, CurrentIs
  <1>6. done \in Segment /\ done.msn = cur
    BY <1>1, DoneFields
  <1> HIDE DEF next, done, cur
  <1>7. Moves(s, next)
    <2>1. PICK k \in {0, 1} :
              /\ Len(next.segments) = Len(s.segments) + 1 - k
              /\ \A i \in 1 .. Len(next.segments) :
                 /\ i + k \in 1 .. Len(s.segments) + 1
                 /\ next.segments[i] = IF i + k = Len(s.segments) + 1
                                       THEN done ELSE s.segments[i + k]
      <3> DEFINE segs == s.segments
                 after == next.segments
      <3>1. /\ segs \in Seq(Segment) /\ done \in Segment
            /\ after = TrimWindow(Append(segs, done))
        BY <1>1, <1>4, <1>6
      <3> HIDE DEF segs, after
      <3>2. \E k \in {0, 1} :
              /\ Len(after) = Len(segs) + 1 - k
              /\ \A i \in 1 .. Len(after) :
                 /\ i + k \in 1 .. Len(segs) + 1
                 /\ after[i] = IF i + k = Len(segs) + 1 THEN done ELSE segs[i + k]
        BY <3>1, WindowMoves
      <3> QED BY <3>2 DEF segs, after
    <2>2. ASSUME NEW j \in 1 .. Len(next.segments)
          PROVE  \/ \E i \in 1 .. Len(s.segments) : next.segments[j] = s.segments[i]
                 \/ next.segments[j].msn >= GetCurrentMSN(s)
      <3>1. CASE j + k = Len(s.segments) + 1
        <4>1. next.segments[j] = done
          BY <2>1, <3>1
        <4> QED BY <1>1, <1>5, <1>6, <4>1
      <3>2. CASE j + k # Len(s.segments) + 1
        <4>1. Len(s.segments) \in Nat
          BY <1>1, LenProperties
        <4>2. j + k \in 1 .. Len(s.segments)
          BY <2>1, <3>2, <4>1
        <4>3. next.segments[j] = s.segments[j + k]
          BY <2>1, <3>2
        <4> QED BY <4>2, <4>3
      <3> QED BY <3>1, <3>2
    <2> QED BY <1>1, <1>5, <2>2 DEF Moves
  <1>8. ASSUME Hints(list) PROVE Awaits(list.hint, LastListed(list), next, n)
    <2>1. Awaits(list.hint, LastListed(list), s, n)
      BY <1>8 DEF Follows
    <2>2. list.hint[1] \in Nat /\ list.hint[1] <= cur
      BY <2>1 DEF Awaits, cur
    <2>3. list.hint[1] <= next.currentSeg.msn /\ list.hint[1] # next.currentSeg.msn
      BY <1>1, <1>4, <2>2
    <2> QED BY <1>3, <2>1, <2>3 DEF Awaits, Trims
  <1>9. Follows(list, next, n)
    BY <1>1, <1>2, <1>3, <1>7, <1>8, StillFollows
  <1> QED BY <1>2, <1>9 DEF next

LEMMA FinalizePartFollows ==
    ASSUME NEW s, NEW n \in Nat, Kept(s, n), Filled(s), s.currentPart # NoPart,
           NEW list, Listing(list), Follows(list, s, n)
    PROVE  LET closed == FinalizePart(s).store
           IN  /\ Kept(closed, n) /\ Follows(list, closed, n)
               /\ closed.currentPart = NoPart
  <1> DEFINE grown == AppendPart(s)
             closed == FinalizePart(s).store
  <1>1. /\ Kept(grown, n) /\ Follows(list, grown, n) /\ Sealable(grown)
        /\ grown.currentPart = NoPart /\ grown \in StoreRecord
    BY ClosingFollows, AppendPartSound, AppendPartFields, AppendPartType
       DEF Filled, Sound
  <1>2. closed = IF IsFull(grown.currentSeg) THEN FinalizeSegment(grown) ELSE grown
    BY DEF FinalizePart
  <1> HIDE DEF grown, closed
  <1>3. /\ Kept(FinalizeSegment(grown), n) /\ Follows(list, FinalizeSegment(grown), n)
        /\ FinalizeSegment(grown).currentPart = NoPart
    BY <1>1, SealingFollows, FinalizeSegmentFields
  <1> QED BY <1>1, <1>2, <1>3 DEF closed

LEMMA FlushFollows ==
    ASSUME NEW s, NEW n \in Nat, Kept(s, n),
           NEW list, Listing(list), Follows(list, s, n)
    PROVE  LET flushed == FlushSegment(FlushPart(s)).store
           IN  Kept(flushed, n) /\ Follows(list, flushed, n)
  <1> DEFINE f == FlushPart(s)
  <1>1. Kept(f.store, n) /\ Follows(list, f.store, n) /\ f.store.currentPart = NoPart
    <2>1. CASE s.currentPart = NoPart
      BY <2>1 DEF FlushPart
    <2>2. CASE s.currentPart # NoPart
      <3>1. Filled(s)
        BY <2>2, LatestTypes DEF Kept, Sound, Windowed, Filled
      <3>2. f = FinalizePart(s)
        BY <2>2 DEF FlushPart
      <3> QED BY <2>2, <3>1, <3>2, FinalizePartFollows
    <2> QED BY <2>1, <2>2
  <1> HIDE DEF f
  <1>2. CASE f.store.currentSeg.dur > 0
    <2>1. Sealable(f.store)
      BY <1>1, <1>2, HasDuration DEF Kept
    <2> QED BY <1>1, <1>2, <2>1, SealingFollows DEF FlushSegment, f
  <1>3. CASE ~(f.store.currentSeg.dur > 0)
    BY <1>1, <1>3 DEF FlushSegment, f
  <1> QED BY <1>2, <1>3

\* Only these fields matter.
LEMMA SameFollows ==
    ASSUME NEW s, NEW t, NEW list, NEW n, Follows(list, s, n),
           t.segments = s.segments, t.currentSeg = s.currentSeg,
           t.currentPart = s.currentPart, t.nextMSN = s.nextMSN
    PROVE  Follows(list, t, n)
  <1>1. /\ OldestMSN(t) = OldestMSN(s) /\ Published(t) = Published(s)
        /\ GetCurrentMSN(t) = GetCurrentMSN(s) /\ Cut(t, n) = Cut(s, n)
    BY SameView DEF GetCurrentMSN, Cut
  <1>2. SegmentsStand(list, t) /\ PartsStand(list, t)
    BY <1>1 DEF Follows, SegmentsStand, PartsStand, StillThere
  <1>3. Hints(list) => Awaits(list.hint, LastListed(list), t, n)
    BY <1>1 DEF Follows, Awaits
  <1> QED BY <1>1, <1>2, <1>3 DEF Follows

-----------------------------------------------------------------------------
(* A playlist just made follows its store.                                 *)

Tags == {PartTag(p) : p \in Part}

LEMMA TagsOf ==
    ASSUME NEW seg \in Segment
    PROVE  /\ PartTags(seg) \in Seq(Tags)
           /\ Len(PartTags(seg)) = Len(seg.parts)
           /\ \A j \in 1 .. Len(seg.parts) : PartTags(seg)[j] = PartTag(seg.parts[j])
  <1>1. /\ seg.parts \in Seq(Part) /\ Len(seg.parts) \in Nat
        /\ DOMAIN seg.parts = 1 .. Len(seg.parts)
    BY LenProperties DEF Segment
  <1>2. \A j \in 1 .. Len(seg.parts) : PartTag(seg.parts[j]) \in Tags
    BY <1>1, ElementOfSeq DEF Tags
  <1>3. PartTags(seg) \in [1 .. Len(seg.parts) -> Tags]
    BY <1>1, <1>2 DEF PartTags
  <1> HIDE DEF Tags
  <1>4. PartTags(seg) \in Seq(Tags) /\ Len(PartTags(seg)) = Len(seg.parts)
    BY <1>1, <1>3
  <1> QED BY <1>1, <1>4 DEF PartTags

LEMMA LastOfConcat ==
    ASSUME NEW S, NEW a \in Seq(S), NEW b \in Seq(S)
    PROVE  /\ b # <<>> => a \o b # <<>> /\ LastOf(a \o b) = LastOf(b)
           /\ b = <<>> => a \o b = a
  <1>1. /\ a \o b \in Seq(S) /\ Len(a \o b) = Len(a) + Len(b)
        /\ \A i \in 1 .. Len(a) + Len(b) :
              (a \o b)[i] = IF i <= Len(a) THEN a[i] ELSE b[i - Len(a)]
        /\ Len(a) \in Nat /\ Len(b) \in Nat
    BY ConcatProperties, LenProperties
  <1>2. ASSUME b # <<>> PROVE a \o b # <<>> /\ LastOf(a \o b) = LastOf(b)
    <2>1. Len(b) \in Nat \ {0}
      BY <1>2, EmptySeq
    <2>2. /\ Len(a) + Len(b) \in 1 .. Len(a) + Len(b)
          /\ ~(Len(a) + Len(b) <= Len(a)) /\ Len(a) + Len(b) - Len(a) = Len(b)
      BY <1>1, <2>1
    <2>3. (a \o b)[Len(a) + Len(b)] = b[Len(b)]
      BY <1>1, <2>2
    <2>4. a \o b # <<>>
      BY <1>2, ConcatEqualIffEmpty
    <2> QED BY <1>1, <2>3, <2>4 DEF LastOf
  <1> QED BY <1>2, ConcatEmptySeq

\* The parts listed are those of the last completed segment, then those of the
\* open one, unless the stream has ended.
LEMMA ListedParts ==
    ASSUME NEW s, Sound(s)
    PROVE  LET parts == Generate(s, FALSE).parts
               cur == s.currentSeg
               prev == s.segments[Len(s.segments)]
           IN  /\ \A j \in DOMAIN parts :
                     \/ \E i \in 1 .. Len(cur.parts) : parts[j] = PartTag(cur.parts[i])
                     \/ /\ s.segments # <<>>
                        /\ \E i \in 1 .. Len(prev.parts) : parts[j] = PartTag(prev.parts[i])
               /\ ~s.ended /\ cur.parts # <<>> =>
                     parts # <<>> /\ LastOf(parts) = PartTag(LastOf(cur.parts))
               /\ ~s.ended /\ cur.parts = <<>> /\ s.segments # <<>> /\ prev.parts # <<>> =>
                     parts # <<>> /\ LastOf(parts) = PartTag(LastOf(prev.parts))
               /\ ~s.ended /\ cur.parts = <<>> /\ s.segments = <<>> => parts = <<>>
  <1> DEFINE parts == Generate(s, FALSE).parts
             cur == s.currentSeg
             prev == s.segments[Len(s.segments)]
             a == IF s.segments = <<>> THEN <<>> ELSE PartTags(prev)
             b == IF s.ended THEN <<>> ELSE PartTags(cur)
  <1>1. parts = a \o b
    BY DEF Generate, LastOf
  <1>2. cur \in Segment /\ (s.segments # <<>> => prev \in Segment)
    <2>1. cur \in Segment /\ s.segments \in Seq(Segment)
      BY StoreFields DEF Sound
    <2>2. s.segments # <<>> => Len(s.segments) \in 1 .. Len(s.segments)
      BY <2>1, EmptySeq
    <2> QED BY <2>1, <2>2, ElementOfSeq
  <1>3. a \in Seq(Tags) /\ b \in Seq(Tags)
    BY <1>2, TagsOf, EmptySeq
  <1>4. /\ \A i \in 1 .. Len(a) : s.segments # <<>> /\ i \in 1 .. Len(prev.parts)
                                  /\ a[i] = PartTag(prev.parts[i])
        /\ \A i \in 1 .. Len(b) : i \in 1 .. Len(cur.parts) /\ b[i] = PartTag(cur.parts[i])
    BY <1>2, TagsOf, EmptySeq
  <1>5. /\ ~s.ended /\ cur.parts # <<>> => b # <<>> /\ LastOf(b) = PartTag(LastOf(cur.parts))
        /\ ~s.ended /\ cur.parts = <<>> => b = <<>>
        /\ s.segments # <<>> /\ prev.parts # <<>> =>
              a # <<>> /\ LastOf(a) = PartTag(LastOf(prev.parts))
        /\ s.segments = <<>> => a = <<>>
    <2>1. ASSUME NEW seg \in Segment
          PROVE  /\ seg.parts # <<>> => /\ PartTags(seg) # <<>>
                                        /\ LastOf(PartTags(seg)) = PartTag(LastOf(seg.parts))
                 /\ seg.parts = <<>> => PartTags(seg) = <<>>
      <3>1. seg.parts \in Seq(Part) /\ PartTags(seg) \in Seq(Tags)
            /\ Len(PartTags(seg)) = Len(seg.parts)
        BY TagsOf DEF Segment
      <3>2. seg.parts # <<>> => Len(seg.parts) \in 1 .. Len(seg.parts)
        BY <3>1, EmptySeq
      <3>3. ASSUME seg.parts # <<>>
            PROVE  PartTags(seg)[Len(seg.parts)] = PartTag(seg.parts[Len(seg.parts)])
        BY <3>2, <3>3, TagsOf
      <3>4. PartTags(seg) = <<>> <=> Len(PartTags(seg)) = 0
        BY <3>1, EmptySeq
      <3>5. seg.parts = <<>> <=> Len(seg.parts) = 0
        BY <3>1, EmptySeq
      <3> QED BY <3>1, <3>3, <3>4, <3>5 DEF LastOf
    <2> HIDE DEF cur, prev
    <2> QED BY <1>2, <2>1
  <1> HIDE DEF parts, cur, prev, a, b
  <1>6. ASSUME NEW j \in DOMAIN parts
        PROVE  \/ \E i \in 1 .. Len(cur.parts) : parts[j] = PartTag(cur.parts[i])
               \/ /\ s.segments # <<>>
                  /\ \E i \in 1 .. Len(prev.parts) : parts[j] = PartTag(prev.parts[i])
    <2>1. /\ j \in 1 .. Len(a) + Len(b) /\ Len(a) \in Nat /\ Len(b) \in Nat
          /\ parts[j] = IF j <= Len(a) THEN a[j] ELSE b[j - Len(a)]
      BY <1>1, <1>3, ConcatProperties, LenProperties
    <2>2. CASE j <= Len(a)
      <3>1. j \in 1 .. Len(a) /\ parts[j] = a[j]
        BY <2>1, <2>2
      <3> QED BY <1>4, <3>1
    <2>3. CASE ~(j <= Len(a))
      <3>1. j - Len(a) \in 1 .. Len(b) /\ parts[j] = b[j - Len(a)]
        BY <2>1, <2>3
      <3> QED BY <1>4, <3>1
    <2> QED BY <2>2, <2>3
  <1>7. /\ b # <<>> => parts # <<>> /\ LastOf(parts) = LastOf(b)
        /\ b = <<>> => parts = a
    BY <1>1, <1>3, LastOfConcat
  <1> QED BY <1>5, <1>6, <1>7 DEF parts, cur, prev

LEMMA MadeLists ==
    ASSUME NEW s, Sound(s)
    PROVE  LET list == Generate(s, FALSE)
           IN  /\ Listing(list) /\ SegmentsStand(list, s)
               /\ list.sequence = OldestMSN(s) /\ End(list) = GetCurrentMSN(s)
  <1> DEFINE list == Generate(s, FALSE)
             len == Len(s.segments)
  <1>1. /\ len \in Nat /\ OldestMSN(s) \in Nat /\ GetCurrentMSN(s) \in Int
        /\ OldestMSN(s) = GetCurrentMSN(s) - len
    <2>1. len \in Nat /\ GetCurrentMSN(s) \in Int
      BY CurrentIs
    <2>2. MediaSequence(s, TRUE) = OldestMSN(s) /\ OldestMSN(s) \in Nat
      BY SequenceIs
    <2> QED BY <2>1, <2>2, OldestByLength
  <1>2. list.sequence = OldestMSN(s) /\ list.skipped = 0
    BY SameBut
  <1>3. /\ list.segments \in Seq(SegTag) /\ Len(list.segments) = len
        /\ \A i \in 1 .. len : list.segments[i] = SegmentTag(s.segments[i])
    <2>1. SkippedCount(s, FALSE) = 0
      BY SkippedIs
    <2>2. /\ list.segments \in Seq(SegTag) /\ Len(list.segments) = len - 0
          /\ \A i \in 1 .. len - 0 : list.segments[i] = SegmentTag(s.segments[i + 0])
      BY <2>1, ListedSegments
    <2> HIDE DEF list, len
    <2>3. len - 0 = len /\ \A i \in 1 .. len : i + 0 = i
      BY <1>1
    <2>4. \A i \in 1 .. len : list.segments[i] = SegmentTag(s.segments[i])
      BY <2>2, <2>3
    <2> QED BY <2>2, <2>3, <2>4
  <1>0. \A seg : SegmentTag(seg).msn = seg.msn
    BY DEF SegmentTag
  <1> HIDE DEF list
  <1>4. End(list) = GetCurrentMSN(s)
    BY <1>1, <1>2, <1>3 DEF End
  <1>5. ASSUME NEW i \in 1 .. len PROVE list.segments[i].msn = list.sequence + i - 1
    <2>1. s.segments[i].msn = OldestMSN(s) + i - 1
      BY WindowNumbers
    <2>2. list.segments[i].msn = s.segments[i].msn
      BY <1>0, <1>3
    <2> QED BY <1>2, <2>1, <2>2
  <1>6. ASSUME NEW i \in 1 .. len, NEW j \in 1 .. len,
               s.segments[j].msn = list.segments[i].msn
        PROVE  list.segments[i] = SegmentTag(s.segments[j])
    <2>1. DOMAIN s.segments = 1 .. len
      BY CurrentIs
    <2>2. s.segments[i] \in SegmentsOf(s) /\ s.segments[j] \in SegmentsOf(s)
      BY <2>1 DEF SegmentsOf
    <2>3. s.segments[i].msn = s.segments[j].msn
      BY <1>0, <1>3, <1>6
    <2>4. s.segments[i] = s.segments[j]
      BY <2>2, <2>3, OneByNumber
    <2> QED BY <1>3, <2>4
  <1>7. Listing(list)
    BY <1>1, <1>2, <1>3, <1>5 DEF Listing
  <1>8. SegmentsStand(list, s)
    BY <1>3, <1>6 DEF SegmentsStand
  <1> QED BY <1>2, <1>4, <1>7, <1>8 DEF list

\* The last part of a segment ends with its last fragment.
LEMMA PartsEnd ==
    ASSUME NEW seg \in Segment, PartsTile(seg), seg.parts # <<>>
    PROVE  LastOf(LastOf(seg.parts).data) = LastOf(seg.data)
  <1> DEFINE len == Len(seg.parts)
             p == seg.parts[len]
  <1>1. /\ seg.parts \in Seq(Part) /\ len \in 1 .. len /\ DOMAIN seg.parts = 1 .. len
        /\ seg.data \in Seq(Nat) /\ seg.data # <<>>
    BY EmptySeq, LenProperties DEF Segment, PartsTile
  <1>2. p \in Part /\ p.data # <<>> /\ RunTo(p.data, LastOf(seg.data))
    BY <1>1, ElementOfSeq DEF PartsTile
  <1>3. LastOf(seg.data) \in Int
    <2>1. Len(seg.data) \in 1 .. Len(seg.data)
      BY <1>1, EmptySeq
    <2>2. seg.data[Len(seg.data)] \in Nat
      BY <1>1, <2>1, ElementOfSeq
    <2> QED BY <2>2 DEF LastOf
  <1>4. p.data \in Seq(Nat)
    BY <1>2 DEF Part
  <1> HIDE DEF p
  <1>5. LastOf(p.data) = LastOf(seg.data)
    BY <1>2, <1>3, <1>4, RunLast
  <1> QED BY <1>5 DEF LastOf, p

LEMMA MadePartsStand ==
    ASSUME NEW s, Sound(s), Tiled(s)
    PROVE  PartsStand(Generate(s, FALSE), s)
  <1> DEFINE list == Generate(s, FALSE)
             cur == s.currentSeg
             prev == s.segments[Len(s.segments)]
  <1>1. End(list) = GetCurrentMSN(s) /\ GetCurrentMSN(s) \in Int
    <2>1. End(list) = GetCurrentMSN(s)
      BY MadeLists
    <2>2. GetCurrentMSN(s) \in Int
      BY CurrentIs
    <2> HIDE DEF list
    <2> QED BY <2>1, <2>2
  <1>2. ASSUME NEW seg \in SegmentsOf(s), NEW i \in 1 .. Len(seg.parts)
        PROVE  LET tag == PartTag(seg.parts[i])
               IN  tag.msn = seg.msn /\ tag.msn \in Nat /\ StillThere(tag, s)
    <2> DEFINE p == <<seg.msn, seg.parts[i]>>
               tag == PartTag(seg.parts[i])
    <2>1. i \in DOMAIN seg.parts
      BY SegmentsTile, LenProperties DEF Segment
    <2>2. p \in Published(s)
      BY <2>1, PublishedIn DEF Shows
    <2>3. p[1] = seg.msn /\ p[2] = seg.parts[i]
      OBVIOUS
    <2> HIDE DEF p
    <2>4. p[1] \in Nat /\ p[2].msn = p[1]
      BY <2>2, PartFound
    <2>5. tag.msn = p[2].msn /\ tag = PartTag(p[2])
      BY <2>3 DEF PartTag
    <2> HIDE DEF tag
    <2>6. tag.msn = seg.msn /\ tag.msn \in Nat /\ p[1] = tag.msn /\ PartTag(p[2]) = tag
      BY <2>3, <2>4, <2>5
    <2>7. StillThere(tag, s)
      BY <2>2, <2>6 DEF StillThere
    <2> QED BY <2>6, <2>7 DEF tag
  <1>3. ASSUME NEW j \in DOMAIN list.parts
        PROVE  LET tag == list.parts[j]
               IN  /\ tag.msn \in Nat /\ tag.msn \in {End(list) - 1, End(list)}
                   /\ StillThere(tag, s)
    <2>1. CASE \E i \in 1 .. Len(cur.parts) : list.parts[j] = PartTag(cur.parts[i])
      <3>1. PICK i \in 1 .. Len(cur.parts) : list.parts[j] = PartTag(cur.parts[i])
        BY <2>1
      <3>2. cur \in SegmentsOf(s)
        BY DEF SegmentsOf
      <3> HIDE DEF list, cur
      <3>3. /\ list.parts[j].msn = cur.msn /\ list.parts[j].msn \in Nat
            /\ StillThere(list.parts[j], s)
        BY <1>2, <3>1, <3>2
      <3>4. GetCurrentMSN(s) = cur.msn
        BY <3>3, CurrentIs DEF cur
      <3> QED BY <1>1, <3>3, <3>4
    <2>2. CASE /\ s.segments # <<>>
               /\ \E i \in 1 .. Len(prev.parts) : list.parts[j] = PartTag(prev.parts[i])
      <3>1. PICK i \in 1 .. Len(prev.parts) : list.parts[j] = PartTag(prev.parts[i])
        BY <2>2
      <3>2. Len(s.segments) \in 1 .. Len(s.segments) /\ Len(s.segments) \in Nat
        <4>1. s.segments \in Seq(Segment)
          BY StoreFields DEF Sound
        <4> QED BY <2>2, <4>1, EmptySeq
      <3>3. prev \in SegmentsOf(s)
        BY <3>2, CurrentIs DEF SegmentsOf
      <3>4. prev.msn = OldestMSN(s) + Len(s.segments) - 1
        BY <3>2, WindowNumbers
      <3>5. OldestMSN(s) = GetCurrentMSN(s) - Len(s.segments)
        BY OldestByLength
      <3> HIDE DEF list, prev
      <3>6. /\ list.parts[j].msn = prev.msn /\ list.parts[j].msn \in Nat
            /\ StillThere(list.parts[j], s)
        BY <1>2, <3>1, <3>3
      <3>7. prev.msn = GetCurrentMSN(s) - 1
        BY <1>1, <3>2, <3>4, <3>5
      <3> QED BY <1>1, <3>6, <3>7
    <2>3. \/ \E i \in 1 .. Len(cur.parts) : list.parts[j] = PartTag(cur.parts[i])
          \/ /\ s.segments # <<>>
             /\ \E i \in 1 .. Len(prev.parts) : list.parts[j] = PartTag(prev.parts[i])
      BY ListedParts
    <2> QED BY <2>1, <2>2, <2>3
  <1> QED BY <1>3 DEF PartsStand

\* The hint of a playlist just made names the part the store is about to cut.
LEMMA MadeAwaits ==
    ASSUME NEW s, NEW n \in Nat, Kept(s, n), Hints(Generate(s, FALSE))
    PROVE  Awaits(Hint(s), LastListed(Generate(s, FALSE)), s, n)
  <1> DEFINE list == Generate(s, FALSE)
             e == LastListed(list)
             cur == s.currentSeg
             prev == s.segments[Len(s.segments)]
  <1>1. Sound(s) /\ Whole(s, n) /\ Tiled(s) /\ s \in StoreRecord
    BY DEF Kept, Sound
  <1>2. list.hint = Hint(s) /\ (list.parts = <<>> => list.sequence = 0)
    BY DEF Hints, Generate
  <1>3. /\ ~s.ended /\ cur # NoSegment
        /\ Hint(s)[1] = cur.msn /\ Hint(s)[2] = Len(cur.parts)
    <2>1. Hint(s) # NoHint
      BY <1>2 DEF Hints
    <2>2. ~s.ended /\ cur # NoSegment /\ Hint(s) = <<cur.msn, Len(cur.parts)>>
      BY <2>1 DEF Hint
    <2> QED BY <2>2
  <1>4. /\ cur \in Segment /\ cur.parts \in Seq(Part) /\ cur.data \in Seq(Nat)
        /\ Len(cur.parts) \in Nat /\ cur.msn \in Int /\ cur.msn >= 0
        /\ Cut(s, n) \in Int /\ SealedTo(s, n) \in Int /\ PartsTile(cur)
        /\ RunTo(cur.data, Cut(s, n))
        /\ GetCurrentMSN(s) = cur.msn
    <2>1. cur.msn \in Int /\ cur.msn >= -1 /\ cur.msn # -1 /\ GetCurrentMSN(s) = cur.msn
      BY <1>1, <1>3, CurrentIs
    <2>2. /\ cur \in Segment /\ cur.parts \in Seq(Part) /\ cur.data \in Seq(Nat)
          /\ Cut(s, n) \in Int /\ SealedTo(s, n) \in Int
      BY <1>1, WholeTypes
    <2>3. PartsTile(cur) /\ RunTo(cur.data, Cut(s, n))
      BY <1>1 DEF Whole, Tiled
    <2> HIDE DEF cur
    <2> QED BY <2>1, <2>2, <2>3, LenProperties
  <1>5. e = IF list.parts # <<>> THEN LastOf(LastOf(list.parts).media) ELSE 0
    BY DEF LastListed
  <1>6. \A p \in Part : PartTag(p).media = p.data
    BY DEF PartTag
  <1>7. /\ cur.parts # <<>> => list.parts # <<>> /\ LastOf(list.parts) = PartTag(LastOf(cur.parts))
        /\ cur.parts = <<>> /\ s.segments # <<>> /\ prev.parts # <<>> =>
              list.parts # <<>> /\ LastOf(list.parts) = PartTag(LastOf(prev.parts))
        /\ cur.parts = <<>> /\ s.segments = <<>> => list.parts = <<>>
    BY <1>1, <1>3, ListedParts
  <1>8. list.sequence = OldestMSN(s)
    BY <1>1, MadeLists
  <1> HIDE DEF list, e
  <1>9. Cut(s, n) = e
    <2>1. CASE cur.parts # <<>>
      <3>1. LastOf(cur.parts) \in Part
        <4>1. Len(cur.parts) \in 1 .. Len(cur.parts)
          BY <1>4, <2>1, EmptySeq
        <4> QED BY <1>4, <4>1, ElementOfSeq DEF LastOf
      <3>2. cur.data # <<>> /\ LastOf(cur.data) = Cut(s, n)
        BY <1>4, <2>1, RunLast DEF PartsTile
      <3>3. LastOf(LastOf(cur.parts).data) = LastOf(cur.data)
        BY <1>4, <2>1, PartsEnd
      <3> QED BY <1>5, <1>6, <1>7, <2>1, <3>1, <3>2, <3>3
    <2>2. CASE cur.parts = <<>>
      <3>1. cur.data = <<>> /\ SealedTo(s, n) = Cut(s, n)
        <4>1. cur.data = <<>>
          BY <1>1, <2>2 DEF Whole
        <4> QED BY <1>4, <4>1, NilData DEF SealedTo
      <3>2. CASE s.segments # <<>>
        <4>1. /\ s.segments \in Seq(Segment) /\ Len(s.segments) \in 1 .. Len(s.segments)
              /\ DOMAIN s.segments = 1 .. Len(s.segments)
          BY <1>1, <3>2, StoreFields, EmptySeq, LenProperties
        <4>2. prev \in Segment /\ prev.parts # <<>>
          BY <1>1, <4>1, WindowNumbers
        <4>3. PartsTile(prev) /\ prev.data # <<>> /\ prev.data \in Seq(Nat)
              /\ prev.parts \in Seq(Part)
          BY <1>1, <4>1, <4>2 DEF Tiled, Whole, WithBytes, Segment
        <4>4. RunTo(prev.data, SealedTo(s, n))
          BY <1>1, <4>1 DEF Whole, Chain
        <4>5. LastOf(prev.parts) \in Part
          <5>1. Len(prev.parts) \in 1 .. Len(prev.parts)
            BY <4>2, <4>3, EmptySeq
          <5> QED BY <4>3, <5>1, ElementOfSeq DEF LastOf
        <4> HIDE DEF prev, cur
        <4>6. LastOf(prev.data) = SealedTo(s, n)
          BY <1>4, <4>3, <4>4, RunLast
        <4>7. LastOf(LastOf(prev.parts).data) = LastOf(prev.data)
          BY <4>2, <4>3, PartsEnd
        <4> QED BY <1>5, <1>6, <1>7, <2>2, <3>1, <3>2, <4>2, <4>5, <4>6, <4>7
      <3>3. CASE s.segments = <<>>
        <4>1. list.parts = <<>>
          BY <1>7, <2>2, <3>3
        <4>2. cur.msn = 0
          <5>1. OldestMSN(s) = GetCurrentMSN(s)
            BY <3>3 DEF OldestMSN
          <5> QED BY <1>2, <1>4, <1>8, <4>1, <5>1
        <4>3. SealedTo(s, n) = 0
          BY <1>1, <4>2 DEF Whole
        <4> QED BY <1>5, <3>1, <4>1, <4>3
      <3> QED BY <3>2, <3>3
    <2> QED BY <2>1, <2>2
  <1>10. ASSUME NEW p \in Published(s)
         PROVE  ~(p[1] = Hint(s)[1] /\ p[2].idx = Hint(s)[2])
    <2>1. p[2].idx \in Nat /\ (p[1] = cur.msn => p[2].idx < Len(cur.parts))
      BY <1>1, Numbered
    <2> QED BY <1>3, <1>4, <2>1
  <1> HIDE DEF cur
  <1>11. Awaits(Hint(s), e, s, n)
    BY <1>3, <1>4, <1>9, <1>10 DEF Awaits, cur
  <1> QED BY <1>11 DEF e, list

-----------------------------------------------------------------------------
(* How much media it takes to complete a segment.                          *)

Nominal == TicksPerMs * SegmentDurationMs

\* The ticks that the current segment has, in parts and in the accumulator.
Amount(s) == TicksPerMs * s.currentSeg.dur + s.currentPart.ticks

LEMMA Ticks ==
    ASSUME NEW s \in StoreRecord
    PROVE  /\ TicksPerMs \in Nat \ {0} /\ SegmentDurationMs \in Nat \ {0}
           /\ Nominal \in Nat \ {0} /\ Amount(s) \in Nat
           /\ s.currentSeg.dur \in Nat /\ s.currentPart.ticks \in Nat
           /\ TicksPerMs * s.currentSeg.dur \in Nat
           /\ s.currentSeg.dur > 0 => Amount(s) > 0
  <1>1. /\ TicksPerMs \in Nat \ {0} /\ SegmentDurationMs \in Nat \ {0}
        /\ s.currentSeg.dur \in Nat /\ s.currentPart.ticks \in Nat
    BY StoreFields, StoreAssumption DEF StoreAssumption, Segment, PartAccumulator
  <1>2. \A a, b \in Nat : a * b \in Nat /\ (a # 0 /\ b # 0 => a * b # 0)
    OBVIOUS
  <1>3. Nominal \in Nat \ {0}
    BY <1>1, <1>2 DEF Nominal
  <1> DEFINE m == TicksPerMs * s.currentSeg.dur
  <1>4. m \in Nat /\ (s.currentSeg.dur > 0 => m # 0)
    BY <1>1, <1>2
  <1>5. Amount(s) = m + s.currentPart.ticks
    BY DEF Amount
  <1> HIDE DEF m
  <1>6. Amount(s) \in Nat /\ (s.currentSeg.dur > 0 => Amount(s) > 0)
    BY <1>1, <1>4, <1>5
  <1> QED BY <1>1, <1>3, <1>4, <1>6 DEF m

LEMMA FeedingAdds ==
    ASSUME NEW s \in StoreRecord, NEW id \in Nat,
           NEW frag \in Fragment, NEW lost \in SUBSET Uses
    PROVE  Amount(Accumulate(s, id, frag, lost)) = Amount(s) + frag.ticks
  <1> DEFINE fed == Accumulate(s, id, frag, lost)
             acc == IF s.currentPart = NoPart THEN NewPart(frag.key) ELSE s.currentPart
  <1>1. /\ fed.currentPart.ticks = acc.ticks + frag.ticks
        /\ fed.currentSeg = IF s.currentSeg = NoSegment
                            THEN NewSegment(s.nextMSN) ELSE s.currentSeg
    BY AccumulateFields
  <1>2. acc.ticks = s.currentPart.ticks
    BY DEF NoPart, NewPart
  <1>3. fed.currentSeg.dur = s.currentSeg.dur
    <2>1. NoSegment.dur = 0 /\ NewSegment(s.nextMSN).dur = 0
      BY DEF NoSegment, NewSegment
    <2> HIDE DEF fed
    <2> QED BY <1>1, <2>1
  <1>4. frag.ticks \in Nat
    BY StoreAssumption DEF StoreAssumption, Fragment
  <1>5. TicksPerMs * s.currentSeg.dur \in Nat /\ s.currentPart.ticks \in Nat
    BY Ticks
  <1> HIDE DEF fed, acc
  <1>6. Amount(fed) = Amount(s) + frag.ticks
    BY <1>1, <1>2, <1>3, <1>4, <1>5 DEF Amount
  <1> QED BY <1>6 DEF fed

\* A part has at most the whole milliseconds of the ticks it was made of.
LEMMA ClosingRoundsDown ==
    ASSUME NEW s \in StoreRecord
    PROVE  /\ Amount(AppendPart(s)) <= Amount(s)
           /\ IsFull(AppendPart(s).currentSeg) => Nominal <= Amount(s)
  <1> DEFINE grown == AppendPart(s)
             was == s.currentSeg.dur
             ticks == s.currentPart.ticks
             ms == Milliseconds(s.currentPart)
  <1>1. /\ grown \in StoreRecord /\ grown.currentPart = NoPart
        /\ grown.currentSeg.dur = was + ms
    BY AppendPartType, AppendPartFields
  <1>2. /\ TicksPerMs \in Nat \ {0} /\ was \in Nat /\ ticks \in Nat
        /\ SegmentDurationMs \in Nat
    BY Ticks
  <1>3. ms \in Nat /\ TicksPerMs * ms <= ticks
    <2> DEFINE sum == SumRead(s.currentPart, "ms")
    <2>1. sum \in Nat /\ sum <= ticks
      BY StoreFields, SumReadBounds
    <2>2. ms = sum \div TicksPerMs
      BY DEF Milliseconds
    <2> HIDE DEF sum, ms, ticks
    <2>3. ms \in Nat /\ TicksPerMs * ms <= sum /\ TicksPerMs * ms \in Nat
      BY <1>2, <2>1, <2>2, Truncated
    <2> QED BY <1>2, <2>1, <2>3
  <1>4. NoPart.ticks = 0
    BY DEF NoPart, NewPart
  <1>5. Amount(s) = TicksPerMs * was + ticks
    BY DEF Amount
  <1> HIDE DEF grown, was, ticks, ms
  <1>6. grown.currentSeg.dur = was + ms
    BY <1>1
  <1>7. TicksPerMs * (was + ms) = TicksPerMs * was + TicksPerMs * ms
    BY <1>2, <1>3
  <1>8. TicksPerMs * was \in Nat /\ TicksPerMs * ms \in Nat /\ TicksPerMs * (was + ms) \in Nat
    BY <1>2, <1>3
  <1>9. Amount(grown) = TicksPerMs * (was + ms)
    BY <1>1, <1>4, <1>6, <1>8 DEF Amount
  <1>10. Amount(grown) <= Amount(s)
    BY <1>2, <1>3, <1>5, <1>7, <1>8, <1>9
  <1>11. ASSUME IsFull(grown.currentSeg) PROVE Nominal <= Amount(s)
    <2>1. SegmentDurationMs <= was + ms
      BY <1>2, <1>3, <1>6, <1>11 DEF IsFull
    <2>2. Nominal <= TicksPerMs * (was + ms)
      BY <1>2, <1>3, <2>1, TimesGrows DEF Nominal
    <2>3. Nominal \in Nat /\ Amount(s) \in Nat
      BY Ticks
    <2> QED BY <1>8, <1>9, <1>10, <2>2, <2>3
  <1> QED BY <1>10, <1>11 DEF grown

\* Either the current segment stays, with no more than it had, or it had a
\* segment's worth.
Paces(s, t) ==
    \/ GetCurrentMSN(t) = GetCurrentMSN(s) /\ Amount(t) <= Amount(s)
    \/ /\ GetCurrentMSN(t) = GetCurrentMSN(s) + 1
       /\ Amount(t) = 0 /\ t.currentSeg.dur = 0 /\ Nominal <= Amount(s)

LEMMA SealingPaces ==
    ASSUME NEW s, Sealable(s), s.currentPart = NoPart
    PROVE  /\ GetCurrentMSN(FinalizeSegment(s)) = GetCurrentMSN(s) + 1
           /\ Amount(FinalizeSegment(s)) = 0
           /\ FinalizeSegment(s).currentSeg.dur = 0
           /\ FinalizeSegment(s).currentPart = NoPart
  <1> DEFINE next == FinalizeSegment(s)
             cur == s.currentSeg.msn
  <1>1. s \in StoreRecord /\ Sound(s) /\ cur >= 0
    BY DEF Sealable, Filled, Sound
  <1>2. /\ Filled(next) /\ next.currentSeg = NewSegment(cur + 1)
        /\ next.currentPart = NoPart
    BY <1>1, FinalizeSegmentSound, FinalizeSegmentFields
  <1>3. NewSegment(cur + 1).dur = 0 /\ NewSegment(cur + 1).msn = cur + 1 /\ NoPart.ticks = 0
    BY DEF NewSegment, NoPart, NewPart
  <1>4. cur \in Int /\ GetCurrentMSN(s) = cur
    BY <1>1, CurrentIs
  <1> HIDE DEF next
  <1>5. next.currentSeg.msn = cur + 1 /\ next.currentSeg.dur = 0 /\ Sound(next)
    BY <1>2, <1>3 DEF Filled
  <1>6. GetCurrentMSN(next) = cur + 1
    <2> HIDE DEF cur
    <2> QED BY <1>1, <1>4, <1>5, CurrentIs DEF cur
  <1>7. Amount(next) = 0
    <2>1. TicksPerMs * 0 = 0 /\ TicksPerMs \in Nat
      BY <1>1, Ticks
    <2> QED BY <1>2, <1>3, <1>5, <2>1 DEF Amount
  <1> QED BY <1>2, <1>4, <1>5, <1>6, <1>7 DEF next

LEMMA FinalizePartPaces ==
    ASSUME NEW s, Filled(s)
    PROVE  Paces(s, FinalizePart(s).store)
  <1> DEFINE grown == AppendPart(s)
             closed == FinalizePart(s).store
  <1>1. /\ Sealable(grown) /\ Sound(grown) /\ Sound(s) /\ s \in StoreRecord
        /\ grown.currentPart = NoPart
        /\ grown.currentSeg.msn = s.currentSeg.msn
    BY AppendPartSound, AppendPartFields DEF Sealable, Filled, Sound
  <1>2. GetCurrentMSN(grown) = GetCurrentMSN(s)
    BY <1>1, CurrentIs
  <1>3. /\ Amount(grown) <= Amount(s)
        /\ IsFull(grown.currentSeg) => Nominal <= Amount(s)
    BY <1>1, ClosingRoundsDown
  <1>4. closed = IF IsFull(grown.currentSeg) THEN FinalizeSegment(grown) ELSE grown
    BY DEF FinalizePart
  <1> HIDE DEF grown, closed
  <1>5. /\ GetCurrentMSN(FinalizeSegment(grown)) = GetCurrentMSN(s) + 1
        /\ Amount(FinalizeSegment(grown)) = 0
        /\ FinalizeSegment(grown).currentSeg.dur = 0
    BY <1>1, <1>2, SealingPaces
  <1> QED BY <1>2, <1>3, <1>4, <1>5 DEF Paces, closed

\* Finalize completes at most one segment, and none of nothing.
LEMMA FlushPaces ==
    ASSUME NEW s, Sound(s)
    PROVE  LET flushed == FlushSegment(FlushPart(s)).store
           IN  \/ GetCurrentMSN(flushed) = GetCurrentMSN(s)
               \/ GetCurrentMSN(flushed) = GetCurrentMSN(s) + 1 /\ Amount(s) > 0
  <1> DEFINE f == FlushPart(s)
             next == FinalizeSegment(f.store)
  <1>1. s \in StoreRecord /\ Amount(s) \in Nat /\ Nominal \in Nat \ {0}
    BY Ticks DEF Sound
  <1>2. Sound(f.store) /\ f.store.currentPart = NoPart /\ Paces(s, f.store)
    <2>1. CASE s.currentPart = NoPart
      <3>1. f.store = s
        BY <2>1 DEF FlushPart
      <3> QED BY <1>1, <2>1, <3>1 DEF Paces
    <2>2. CASE s.currentPart # NoPart
      <3>1. Filled(s)
        BY <2>2, LatestTypes DEF Sound, Windowed, Filled
      <3>2. f = FinalizePart(s)
        BY <2>2 DEF FlushPart
      <3>3. FinalizePart(s).store.currentPart = NoPart
        <4>1. AppendPart(s).currentPart = NoPart /\ AppendPart(s) \in StoreRecord
          BY <1>1, AppendPartFields, AppendPartType
        <4> QED BY <4>1, FinalizeSegmentFields DEF FinalizePart
      <3> QED BY <3>1, <3>2, <3>3, FinalizePartSound, FinalizePartPaces DEF Filled
    <2> QED BY <2>1, <2>2
  <1> HIDE DEF f
  <1>3. CASE f.store.currentSeg.dur > 0
    <2>1. GetCurrentMSN(f.store) = GetCurrentMSN(s) /\ Amount(f.store) <= Amount(s)
      BY <1>2, <1>3 DEF Paces
    <2>2. Amount(f.store) \in Nat /\ Amount(f.store) > 0
      BY <1>2, <1>3, Ticks DEF Sound
    <2>3. GetCurrentMSN(next) = GetCurrentMSN(f.store) + 1
      BY <1>2, <1>3, HasDuration, SealingPaces
    <2>4. FlushSegment(f).store = next
      BY <1>3 DEF FlushSegment
    <2> QED BY <1>1, <2>1, <2>2, <2>3, <2>4 DEF f
  <1>4. CASE ~(f.store.currentSeg.dur > 0)
    <2>1. FlushSegment(f).store = f.store
      BY <1>4 DEF FlushSegment
    <2> QED BY <1>1, <1>2, <2>1 DEF Paces, f
  <1> QED BY <1>3, <1>4

-----------------------------------------------------------------------------
(* The invariant.                                                          *)

\* After as many as j segments were completed, at least so much media came.
Paced(j, age, s) ==
    /\ ~s.ended /\ j >= 1 => Nominal * (j - 1) + Amount(s) <= age
    /\ s.ended /\ j >= 2 => Nominal * (j - 2) < age

\* A playlist young enough for a delta update lacks at most four segments.
LEMMA FewSince ==
    ASSUME NEW s \in StoreRecord, NEW j \in Nat, NEW age \in Nat, Paced(j, age, s),
           2 * age <= SkipUntil * TicksPerMs
    PROVE  j <= 4
  <1>1. /\ TicksPerMs \in Nat \ {0} /\ Nominal \in Nat \ {0} /\ Amount(s) \in Nat
        /\ SegmentDurationMs \in Nat /\ s.ended \in BOOLEAN
    BY Ticks, StoreFields
  <1>2. TargetDuration \in Nat /\ TargetDuration <= SegmentDurationMs
    BY TargetIs
  <1>3. age <= 3 * Nominal
    <2>1. TicksPerMs * TargetDuration <= Nominal /\ TicksPerMs * TargetDuration \in Nat
      BY <1>1, <1>2, TimesGrows DEF Nominal
    <2>2. SkipUntil * TicksPerMs = 6 * (TicksPerMs * TargetDuration)
      BY <1>1, <1>2 DEF SkipUntil
    <2> QED BY <1>1, <2>1, <2>2
  <1>4. ASSUME j >= 5 PROVE FALSE
    <2>1. Nominal * 4 <= Nominal * (j - 1) /\ Nominal * 3 <= Nominal * (j - 2)
      BY <1>1, <1>4, TimesGrows
    <2>2. Nominal * (j - 1) \in Int /\ Nominal * (j - 2) \in Int
      BY <1>1
    <2>3. CASE ~s.ended
      <3>1. Nominal * (j - 1) + Amount(s) <= age
        BY <1>4, <2>3 DEF Paced
      <3> HIDE DEF Nominal
      <3> QED BY <1>1, <1>3, <2>1, <2>2, <3>1
    <2>4. CASE s.ended
      <3>1. Nominal * (j - 2) < age
        BY <1>4, <2>4 DEF Paced
      <3> QED BY <1>1, <1>3, <2>1, <2>2, <3>1
    <2> QED BY <1>1, <2>3, <2>4
  <1> QED BY <1>4

LEMMA FeedingPaced ==
    ASSUME NEW s \in StoreRecord, NEW fed \in StoreRecord, NEW t \in StoreRecord,
           ~s.ended, ~t.ended, NEW ticks \in Nat, Amount(fed) = Amount(s) + ticks,
           NEW j \in Nat, NEW i \in Nat, NEW age \in Nat, Paced(j, age, s),
           \/ i = j /\ Amount(t) <= Amount(fed)
           \/ i = j + 1 /\ Amount(t) = 0 /\ Nominal <= Amount(fed)
    PROVE  Paced(i, age + ticks, t)
  <1>1. /\ Nominal \in Nat \ {0} /\ Amount(s) \in Nat /\ Amount(t) \in Nat
        /\ Amount(fed) \in Nat
    BY Ticks
  <1>2. j >= 1 => Nominal * (j - 1) + Amount(s) <= age
    BY DEF Paced
  <1>3. Nominal * (j - 1) \in Int /\ Nominal * j = Nominal * (j - 1) + Nominal
        /\ Nominal * 0 = 0
    BY <1>1
  <1>4. i >= 1 => Nominal * (i - 1) + Amount(t) <= age + ticks
    <2>1. CASE i = j /\ Amount(t) <= Amount(fed)
      BY <1>1, <1>2, <1>3, <2>1
    <2>2. CASE i = j + 1 /\ Amount(t) = 0 /\ Nominal <= Amount(fed)
      <3>1. i - 1 = j
        BY <2>2
      <3>2. CASE j = 0
        BY <1>1, <1>3, <2>2, <3>1, <3>2
      <3>3. CASE j # 0
        BY <1>1, <1>2, <1>3, <2>2, <3>1, <3>3
      <3> QED BY <3>2, <3>3
    <2> QED BY <2>1, <2>2
  <1> QED BY <1>4 DEF Paced

LEMMA EndingPaced ==
    ASSUME NEW s \in StoreRecord, NEW t \in StoreRecord, ~s.ended, t.ended,
           NEW j \in Nat, NEW i \in Nat, NEW age \in Nat, Paced(j, age, s),
           i = j \/ (i = j + 1 /\ Amount(s) > 0)
    PROVE  Paced(i, age, t)
  <1>1. Nominal \in Nat \ {0} /\ Amount(s) \in Nat
    BY Ticks
  <1>2. j >= 1 => Nominal * (j - 1) + Amount(s) <= age
    BY DEF Paced
  <1>3. Nominal * (j - 2) \in Int /\ Nominal * (j - 1) = Nominal * (j - 2) + Nominal
    BY <1>1
  <1>4. i >= 2 => Nominal * (i - 2) < age
    <2>1. CASE i = j
      BY <1>1, <1>2, <1>3, <2>1
    <2>2. CASE i = j + 1 /\ Amount(s) > 0
      <3>1. i - 2 = j - 1
        BY <2>2
      <3> QED BY <1>1, <1>2, <1>3, <2>2, <3>1
    <2> QED BY <2>1, <2>2
  <1> QED BY <1>4 DEF Paced

HeldInv ==
    /\ TileInv
    /\ last \in {"-", "init.mp4", "m3u8", "m4s"} /\ file \in DOMAIN Emitted
    /\ held \in [age : Nat, list : {held.list}]
    /\ Listing(held.list)
    /\ Follows(held.list, store, Len(fragments))
    /\ Paced(GetCurrentMSN(store) - End(held.list), held.age, store)

LEMMA HeldFacts ==
    ASSUME HeldInv
    PROVE  /\ Kept(store, Len(fragments)) /\ Sound(store) /\ store \in StoreRecord
           /\ Len(fragments) \in Nat /\ fragments \in Seq(Fragment)
           /\ GetCurrentMSN(store) - End(held.list) \in Nat
           /\ GetCurrentMSN(store) \in Int /\ End(held.list) \in Nat
           /\ held.age \in Nat
  <1>1. /\ Kept(store, Len(fragments)) /\ Sound(store) /\ store \in StoreRecord
        /\ fragments \in Seq(Fragment)
    BY DEF HeldInv, TileInv, WholeInv, StoreInv, Sound, TypeOK, Kept
  <1>2. GetCurrentMSN(store) \in Int
    BY <1>1, CurrentIs
  <1>3. held.list.sequence \in Nat /\ Len(held.list.segments) \in Nat
    BY LenProperties DEF HeldInv, Listing
  <1>4. End(held.list) <= GetCurrentMSN(store) /\ held.age \in Nat
    BY DEF HeldInv, Follows
  <1> QED BY <1>1, <1>2, <1>3, <1>4, LenProperties DEF End

\* The player has just made its playlist of the whole store.
LEMMA MadeFollows ==
    ASSUME NEW s, NEW n \in Nat, Kept(s, n)
    PROVE  LET list == Generate(s, FALSE)
           IN  /\ Listing(list) /\ Follows(list, s, n)
               /\ Paced(GetCurrentMSN(s) - End(list), 0, s)
  <1> DEFINE list == Generate(s, FALSE)
  <1>1. Sound(s) /\ Tiled(s) /\ GetCurrentMSN(s) \in Int
    BY CurrentIs DEF Kept
  <1>2. OldestMSN(s) \in Int
    BY <1>1, OldestIsNumber
  <1>3. /\ Listing(list) /\ SegmentsStand(list, s) /\ PartsStand(list, s)
        /\ list.sequence = OldestMSN(s) /\ End(list) = GetCurrentMSN(s)
    BY <1>1, MadeLists, MadePartsStand
  <1>4. list.hint = Hint(s)
    BY DEF Generate
  <1>5. Hints(list) => Awaits(Hint(s), LastListed(list), s, n)
    BY MadeAwaits
  <1> HIDE DEF list
  <1>6. Follows(list, s, n)
    BY <1>1, <1>2, <1>3, <1>4, <1>5 DEF Follows
  <1>7. GetCurrentMSN(s) - End(list) = 0
    BY <1>1, <1>3
  <1>8. Paced(0, 0, s)
    BY DEF Paced
  <1> QED BY <1>3, <1>6, <1>7, <1>8 DEF list

LEMMA HeldInvInit == DeliveryInit => HeldInv
  <1> SUFFICES ASSUME DeliveryInit PROVE HeldInv
    OBVIOUS
  <1>1. TileInv /\ store = NewStore
    BY TileInvInit DEF DeliveryInit, Init
  <1>2. Kept(store, Len(fragments)) /\ Len(fragments) \in Nat
    BY <1>1, LenProperties DEF TileInv, WholeInv, StoreInv, TypeOK, Kept
  <1>3. held.age = 0 /\ held.list = Generate(store, FALSE) /\ last = "-" /\ file = 1
        /\ held = [age |-> 0, list |-> Generate(store, FALSE)]
    BY <1>1 DEF DeliveryInit
  <1>4. held \in [age : Nat, list : {held.list}]
    BY <1>3
  <1>5. file \in DOMAIN Emitted
    BY <1>3, DeliveryAssumption DEF DeliveryAssumption
  <1> QED BY <1>1, <1>2, <1>3, <1>4, <1>5, MadeFollows DEF HeldInv

\* A reload shows the whole window, whatever the player had.
LEMMA ReloadedIsWhole ==
    ASSUME HeldInv, NEW skip \in BOOLEAN, Reload(skip)
    PROVE  held' = [age |-> 0, list |-> Generate(store, FALSE)]
  <1>1. CASE ~skip
    BY <1>1 DEF Reload
  <1>2. CASE skip
    <2>1. 2 * held.age <= SkipUntil * TicksPerMs
      BY <1>2 DEF Reload
    <2>2. GetCurrentMSN(store) - End(held.list) <= 4
      BY <2>1, HeldFacts, FewSince DEF HeldInv
    <2>3. Rebuilt(held.list, Generate(store, TRUE)) = Generate(store, FALSE)
      BY <2>2, HeldFacts, RebuiltWhole DEF HeldInv, Follows
    <2> QED BY <1>2, <2>3 DEF Reload
  <1> QED BY <1>1, <1>2

-----------------------------------------------------------------------------
(* The invariant is kept.                                                  *)

\* By a fragment, whether it completes a part, or a segment, or neither.
LEMMA FedKeeps ==
    ASSUME NEW s, NEW n \in Nat, Kept(s, n), ~s.ended,
           NEW frag \in Fragment, NEW lost \in SUBSET Uses,
           NEW list, Listing(list), Follows(list, s, n),
           NEW age \in Nat, Paced(GetCurrentMSN(s) - End(list), age, s),
           NEW t, t = Accumulate(s, n + 1, frag, lost)
                    \/ t = FinalizePart(Accumulate(s, n + 1, frag, lost)).store
    PROVE  /\ Follows(list, t, n + 1)
           /\ Paced(GetCurrentMSN(t) - End(list), age + frag.ticks, t)
  <1> DEFINE fed == Accumulate(s, n + 1, frag, lost)
             closed == FinalizePart(fed).store
             j == GetCurrentMSN(s) - End(list)
             i == GetCurrentMSN(t) - End(list)
  <1>1. Sound(s) /\ Whole(s, n) /\ s \in StoreRecord /\ n + 1 \in Nat /\ frag.ticks \in Nat
    <2>1. frag.ticks \in Nat
      BY StoreAssumption DEF StoreAssumption, Fragment
    <2> QED BY <2>1 DEF Kept, Sound
  <1>2. /\ Kept(fed, n + 1) /\ Follows(list, fed, n + 1)
        /\ Filled(fed) /\ fed.currentPart # NoPart
    BY <1>1, FeedingFollows, AccumulateSound, AccumulateWhole
  <1>3. /\ GetCurrentMSN(fed) = GetCurrentMSN(s) /\ ~fed.ended /\ fed \in StoreRecord
        /\ Amount(fed) = Amount(s) + frag.ticks /\ Amount(fed) \in Nat
    <2>1. GetCurrentMSN(fed) = GetCurrentMSN(s)
      BY <1>1, AccumulateGrows
    <2>2. fed.ended = s.ended
      BY <1>1, AccumulateFields
    <2>3. Amount(fed) = Amount(s) + frag.ticks
      BY <1>1, FeedingAdds
    <2>4. fed \in StoreRecord
      BY <1>1, AccumulateType
    <2> HIDE DEF fed
    <2>5. Amount(fed) \in Nat
      BY <2>4, Ticks
    <2> QED BY <2>1, <2>2, <2>3, <2>4, <2>5
  <1>4. GetCurrentMSN(s) \in Int /\ End(list) \in Int /\ j \in Nat
    <2>1. GetCurrentMSN(s) \in Int
      BY <1>1, CurrentIs
    <2>2. list.sequence \in Nat /\ Len(list.segments) \in Nat
      BY LenProperties DEF Listing
    <2> QED BY <2>1, <2>2 DEF End, Follows
  <1> HIDE DEF fed
  <1>5. /\ Follows(list, closed, n + 1) /\ closed \in StoreRecord /\ ~closed.ended
        /\ Paces(fed, closed)
    BY <1>1, <1>2, <1>3, FinalizePartFollows, FinalizePartPaces, FinalizePartType,
       FinalizePartEnded
  <1> HIDE DEF closed
  <1>6. t = fed \/ t = closed
    BY DEF fed, closed
  <1>7. Follows(list, t, n + 1) /\ t \in StoreRecord /\ ~t.ended
    BY <1>2, <1>3, <1>5, <1>6
  <1>8. \/ i = j /\ Amount(t) <= Amount(fed)
        \/ i = j + 1 /\ Amount(t) = 0 /\ Nominal <= Amount(fed)
    <2>1. CASE t = fed
      BY <1>3, <2>1
    <2>2. CASE t = closed
      <3>1. CASE GetCurrentMSN(closed) = GetCurrentMSN(fed) /\ Amount(closed) <= Amount(fed)
        BY <1>3, <2>2, <3>1
      <3>2. CASE /\ GetCurrentMSN(closed) = GetCurrentMSN(fed) + 1
                 /\ Amount(closed) = 0 /\ Nominal <= Amount(fed)
        BY <1>3, <1>4, <2>2, <3>2
      <3> QED BY <1>5, <3>1, <3>2 DEF Paces
    <2> QED BY <1>6, <2>1, <2>2
  <1>9. i \in Nat /\ Paced(j, age, s)
    BY <1>4, <1>8
  <1> HIDE DEF i, j
  <1>10. Paced(i, age + frag.ticks, t)
    BY <1>1, <1>3, <1>4, <1>7, <1>8, <1>9, FeedingPaced
  <1> QED BY <1>7, <1>10 DEF i

\* By Finalize.
LEMMA FlushKeeps ==
    ASSUME NEW s, NEW n \in Nat, Kept(s, n), ~s.ended,
           NEW list, Listing(list), Follows(list, s, n),
           NEW age \in Nat, Paced(GetCurrentMSN(s) - End(list), age, s)
    PROVE  LET t == [FlushSegment(FlushPart(s)).store EXCEPT !.ended = TRUE]
           IN  /\ Follows(list, t, n)
               /\ Paced(GetCurrentMSN(t) - End(list), age, t)
  <1> DEFINE flushed == FlushSegment(FlushPart(s)).store
             t == [flushed EXCEPT !.ended = TRUE]
             j == GetCurrentMSN(s) - End(list)
             i == GetCurrentMSN(t) - End(list)
  <1>1. Sound(s) /\ s \in StoreRecord /\ flushed \in StoreRecord
    BY FlushType DEF Kept, Sound
  <1>2. /\ Follows(list, flushed, n) /\ Amount(s) \in Nat
        /\ \/ GetCurrentMSN(flushed) = GetCurrentMSN(s)
           \/ GetCurrentMSN(flushed) = GetCurrentMSN(s) + 1 /\ Amount(s) > 0
    BY <1>1, FlushFollows, FlushPaces, Ticks
  <1>3. GetCurrentMSN(s) \in Int /\ End(list) \in Int /\ j \in Nat
    <2>1. GetCurrentMSN(s) \in Int
      BY <1>1, CurrentIs
    <2>2. list.sequence \in Nat /\ Len(list.segments) \in Nat
      BY LenProperties DEF Listing
    <2> QED BY <2>1, <2>2 DEF End, Follows
  <1> HIDE DEF flushed
  <1>4. /\ t.segments = flushed.segments /\ t.currentSeg = flushed.currentSeg
        /\ t.currentPart = flushed.currentPart /\ t.nextMSN = flushed.nextMSN
        /\ t.ended /\ t \in StoreRecord
    BY <1>1 DEF StoreRecord
  <1> HIDE DEF t
  <1>5. Follows(list, t, n)
    BY <1>2, <1>4, SameFollows
  <1>6. GetCurrentMSN(t) = GetCurrentMSN(flushed)
    BY <1>4 DEF GetCurrentMSN
  <1>7. i = j \/ (i = j + 1 /\ Amount(s) > 0)
    BY <1>2, <1>3, <1>6
  <1>8. i \in Nat /\ Paced(j, age, s)
    BY <1>3, <1>7
  <1> HIDE DEF i, j
  <1>9. Paced(i, age, t)
    BY <1>1, <1>3, <1>4, <1>7, <1>8, EndingPaced
  <1> QED BY <1>5, <1>9 DEF i, t, flushed

LEMMA StreamNext == DeliveryNext => [Next]_vars
  <1>1. ASSUME NEW f \in DOMAIN Emitted, EmitMedia(f) PROVE Next
    <2>1. Parsed[f] \in Fragment
      BY EmittedAssumption DEF EmittedAssumption
    <2>2. \E lost \in SUBSET Uses : AddFragment(Parsed[f], lost)
      BY <1>1 DEF EmitMedia
    <2> QED BY <2>1, <2>2 DEF Next
  <1>2. CASE EmitInit
    BY <1>2 DEF EmitInit, Next
  <1>3. CASE UnregisterSession
    BY <1>3 DEF UnregisterSession, Next
  <1>4. CASE Notify
    BY <1>4 DEF Notify, Next
  <1>5. CASE EmitPlaylist \/ \E skip \in BOOLEAN : Reload(skip)
    BY <1>5 DEF EmitPlaylist, Reload
  <1> QED BY <1>1, <1>2, <1>3, <1>4, <1>5 DEF DeliveryNext

LEMMA HeldInvNext == HeldInv /\ [DeliveryNext]_deliveryVars => HeldInv'
  <1> SUFFICES ASSUME HeldInv, [DeliveryNext]_deliveryVars PROVE HeldInv'
    OBVIOUS
  <1> DEFINE n == Len(fragments)
             list == held.list
             lag == GetCurrentMSN(store) - End(list)
  <1>1. /\ Kept(store, n) /\ Sound(store) /\ store \in StoreRecord /\ n \in Nat
        /\ held.age \in Nat /\ fragments \in Seq(Fragment)
    BY HeldFacts
  <1>2. /\ Listing(list) /\ Follows(list, store, n) /\ Paced(lag, held.age, store)
        /\ held \in [age : Nat, list : {list}] /\ file \in DOMAIN Emitted
        /\ last \in {"-", "init.mp4", "m3u8", "m4s"}
    BY DEF HeldInv
  <1>3. TileInv'
    <2>1. [Next]_vars
      BY StreamNext DEF deliveryVars
    <2> QED BY <2>1, TileInvNext DEF HeldInv
  <1>4. ASSUME NEW f \in DOMAIN Emitted, EmitMedia(f) PROVE HeldInv'
    <2>9. PICK lost \in SUBSET Uses : AddFragment(Parsed[f], lost)
      BY <1>4 DEF EmitMedia
    <2> DEFINE frag == Parsed[f]
               fed == Accumulate(store, n + 1, frag, lost)
    <2>1. frag \in Fragment
      BY EmittedAssumption DEF EmittedAssumption
    <2>2. Len(fragments') = n + 1
      BY <1>1, <2>9, <2>1, AppendProperties DEF AddFragment
    <2>3. ~store.ended /\ (store' = fed \/ store' = FinalizePart(fed).store)
      BY <2>9, <2>2 DEF AddFragment
    <2>4. /\ Follows(list, store', n + 1)
          /\ Paced(GetCurrentMSN(store') - End(list), held.age + frag.ticks, store')
      BY <1>1, <1>2, <2>1, <2>3, FedKeeps
    <2>5. frag.ticks \in Nat
      BY <2>1, StoreAssumption DEF StoreAssumption, Fragment
    <2>6. held' = [held EXCEPT !.age = @ + frag.ticks] /\ last' = "m4s" /\ file' = f
      BY <1>4 DEF EmitMedia
    <2> HIDE DEF frag, fed
    <2>7. /\ held'.list = list /\ held'.age = held.age + frag.ticks
          /\ held' \in [age : Nat, list : {list}]
      BY <1>1, <1>2, <2>5, <2>6
    <2> HIDE DEF n
    <2>8. /\ Listing(held'.list) /\ Follows(held'.list, store', Len(fragments'))
          /\ Paced(GetCurrentMSN(store') - End(held'.list), held'.age, store')
          /\ held' \in [age : Nat, list : {held'.list}]
          /\ last' \in {"-", "init.mp4", "m3u8", "m4s"} /\ file' \in DOMAIN Emitted
      BY <1>2, <2>2, <2>4, <2>6, <2>7
    <2> QED BY <1>3, <2>8 DEF HeldInv
  <1>5. CASE EmitInit
    <2>1. /\ store' = [store EXCEPT !.init = TRUE] /\ fragments' = fragments
          /\ held' = held /\ file' = file /\ last' = "init.mp4"
      BY <1>5 DEF EmitInit, SetInit
    <2>2. /\ store'.segments = store.segments /\ store'.currentSeg = store.currentSeg
          /\ store'.currentPart = store.currentPart /\ store'.nextMSN = store.nextMSN
          /\ store'.ended = store.ended
      BY <1>1, <2>1 DEF StoreRecord
    <2>3. Follows(list, store', n)
      BY <1>2, <2>2, SameFollows
    <2>4. Paced(lag, held.age, store') /\ GetCurrentMSN(store') = GetCurrentMSN(store)
      BY <1>2, <2>2 DEF Paced, Amount, GetCurrentMSN
    <2> QED BY <1>2, <1>3, <2>1, <2>3, <2>4 DEF HeldInv
  <1>6. CASE UnregisterSession
    <2>1. /\ store' = [FlushSegment(FlushPart(store)).store EXCEPT !.ended = TRUE]
          /\ ~store.ended /\ fragments' = fragments
          /\ held' = held /\ file' = file /\ last' = last
      BY <1>6 DEF UnregisterSession, Finalize
    <2>2. /\ Follows(list, store', n)
          /\ Paced(GetCurrentMSN(store') - End(list), held.age, store')
      BY <1>1, <1>2, <2>1, FlushKeeps
    <2> QED BY <1>2, <1>3, <2>1, <2>2 DEF HeldInv
  <1>7. ASSUME NEW skip \in BOOLEAN, Reload(skip) PROVE HeldInv'
    <2>1. /\ store' = store /\ fragments' = fragments /\ file' = file /\ last' = last
      BY <1>7 DEF Reload, vars
    <2>2. held' = [age |-> 0, list |-> Generate(store, FALSE)]
      BY <1>7, ReloadedIsWhole
    <2>3. held'.list = Generate(store, FALSE) /\ held'.age = 0
          /\ held' \in [age : Nat, list : {held'.list}]
      BY <2>2
    <2>4. /\ Listing(held'.list) /\ Follows(held'.list, store, n)
          /\ Paced(GetCurrentMSN(store) - End(held'.list), held'.age, store)
      BY <1>1, <2>3, MadeFollows
    <2> QED BY <1>2, <1>3, <2>1, <2>3, <2>4 DEF HeldInv
  <1>8. CASE Notify \/ EmitPlaylist \/ UNCHANGED deliveryVars
    <2>1. /\ store' = store /\ fragments' = fragments /\ held' = held /\ file' = file
          /\ last' \in {last, "m3u8"}
      BY <1>8 DEF Notify, Broadcast, BroadcastEnded, EmitPlaylist, deliveryVars, vars
    <2> QED BY <1>2, <1>3, <2>1 DEF HeldInv
  <1> QED BY <1>4, <1>5, <1>6, <1>7, <1>8 DEF DeliveryNext

(***************************************************************************)
(* Whatever the library emits and however the player reloads, every        *)
(* variable keeps its type, and the playlist the player has, put together  *)
(* or not, starts at its media sequence number and skips nothing.          *)
(***************************************************************************)
THEOREM DeliveryTypeCorrect == DeliverySpec => []DeliveryTypeOK
  <1>1. HeldInv => DeliveryTypeOK
    <2> SUFFICES ASSUME HeldInv PROVE DeliveryTypeOK
      OBVIOUS
    <2>1. TypeOK /\ held.age \in Nat
      BY HeldFacts DEF HeldInv, TileInv, WholeInv, StoreInv
    <2>2. Listing(held.list) /\ Len(held.list.segments) \in Nat
      BY LenProperties DEF HeldInv, Listing
    <2>3. held.list.segments # <<>> => held.list.segments[1].msn = held.list.sequence
      <3> SUFFICES ASSUME held.list.segments # <<>>
                   PROVE  held.list.segments[1].msn = held.list.sequence
        OBVIOUS
      <3>1. 1 \in 1 .. Len(held.list.segments)
        BY <2>2, EmptySeq DEF Listing
      <3>2. held.list.sequence \in Nat
            /\ held.list.segments[1].msn = held.list.sequence + 1 - 1
        BY <2>2, <3>1 DEF Listing
      <3> QED BY <3>2
    <2> QED BY <2>1, <2>2, <2>3 DEF DeliveryTypeOK, HeldInv, Listing
  <1> QED BY <1>1, HeldInvInit, HeldInvNext, PTL DEF DeliverySpec

(***************************************************************************)
(* By any mix of full playlists and delta updates, a reload leaves the     *)
(* player with the whole window of the store: a playlist young enough to   *)
(* be updated lacks fewer segments than the update lists, so what it skips *)
(* the player has, in the place where it looks for it.                     *)
(***************************************************************************)
THEOREM ReloadedWhole == DeliverySpec => ReloadShowsTheWindow
  <1>1. HeldInv /\ [DeliveryNext]_deliveryVars
        => [\A skip \in BOOLEAN :
               Reload(skip) => held'.list = Generate(store, FALSE)]_deliveryVars
    <2> SUFFICES ASSUME HeldInv, NEW skip \in BOOLEAN, Reload(skip)
                 PROVE  held'.list = Generate(store, FALSE)
      OBVIOUS
    <2>1. held' = [age |-> 0, list |-> Generate(store, FALSE)]
      BY ReloadedIsWhole
    <2> QED BY <2>1
  <1> QED BY <1>1, HeldInvInit, HeldInvNext, PTL DEF DeliverySpec, ReloadShowsTheWindow

-----------------------------------------------------------------------------
(* What a playlist lists stays served.                                     *)

\* The window has every number less than cfg.PlaylistWindow from the end.
LEMMA InWindow ==
    ASSUME NEW s, Sound(s), NEW m \in Nat, GetCurrentMSN(s) - m < PlaylistWindow
    PROVE  OldestMSN(s) <= m
  <1> DEFINE len == Len(s.segments)
             cur == s.currentSeg.msn
  <1>1. /\ cur \in Int /\ cur >= -1 /\ len \in Nat /\ PlaylistWindow \in Nat \ {0}
        /\ GetCurrentMSN(s) = IF cur = -1 THEN 0 ELSE cur
        /\ OldestMSN(s) = GetCurrentMSN(s) - len
    BY CurrentIs, OldestByLength, StoreAssumption DEF StoreAssumption
  <1>2. /\ len < PlaylistWindow
        /\ len < PlaylistWindow - 1 => len = cur \/ cur = -1
    <2>1. s.currentSeg = NoSegment => cur = -1
      BY NilData
    <2> QED BY <2>1 DEF Sound, Windowed
  <1> HIDE DEF len, cur
  <1> QED BY <1>1, <1>2

LEMMA SegmentServed ==
    ASSUME NEW s, Sound(s), NEW k \in 1 .. Len(s.segments)
    PROVE  ServeSegment(s, s.segments[k].msn) = Ok(s.segments[k].data)
  <1> DEFINE msn == s.segments[k].msn
             found == CHOOSE i \in DOMAIN s.segments : s.segments[i].msn = msn
  <1>1. DOMAIN s.segments = 1 .. Len(s.segments) /\ Len(s.segments) \in Nat
        /\ OldestMSN(s) \in Int
    BY CurrentIs, OldestIsNumber
  <1>2. found \in 1 .. Len(s.segments) /\ s.segments[found].msn = msn
    BY <1>1
  <1>3. ServeSegment(s, msn) = IF s.segments[found].completed
                               THEN Ok(s.segments[found].data) ELSE NotFound
    BY <1>1 DEF ServeSegment
  <1> HIDE DEF found
  <1>4. /\ s.segments[found].msn = OldestMSN(s) + found - 1
        /\ s.segments[k].msn = OldestMSN(s) + k - 1
        /\ s.segments[found].completed
    BY <1>2, WindowNumbers
  <1>5. found = k
    <2>1. OldestMSN(s) + found - 1 = OldestMSN(s) + k - 1
      BY <1>2, <1>4
    <2> QED BY <1>1, <1>2, <2>1
  <1> QED BY <1>3, <1>4, <1>5

LEMMA ListedIsServed ==
    ASSUME NEW s, Sound(s), NEW list, Listing(list), SegmentsStand(list, s),
           End(list) <= GetCurrentMSN(s), NEW i \in 1 .. Len(list.segments),
           GetCurrentMSN(s) - (list.sequence + i - 1) < PlaylistWindow
    PROVE  ServeSegment(s, list.segments[i].msn) = Ok(list.segments[i].media)
  <1> DEFINE m == list.sequence + i - 1
             k == m - OldestMSN(s) + 1
  <1>1. /\ list.sequence \in Nat /\ Len(list.segments) \in Nat
        /\ list.segments[i].msn = m /\ m \in Nat
    BY LenProperties DEF Listing
  <1>2. /\ GetCurrentMSN(s) \in Int /\ Len(s.segments) \in Nat /\ OldestMSN(s) \in Int
        /\ OldestMSN(s) = GetCurrentMSN(s) - Len(s.segments)
    BY CurrentIs, OldestIsNumber, OldestByLength
  <1>3. OldestMSN(s) <= m
    BY <1>1, InWindow
  <1>4. k \in 1 .. Len(s.segments)
    <2>1. m < GetCurrentMSN(s)
      BY <1>1, <1>2 DEF End
    <2>2. m \in Int /\ OldestMSN(s) <= m /\ m < OldestMSN(s) + Len(s.segments)
      BY <1>1, <1>2, <1>3, <2>1
    <2> HIDE DEF m
    <2>3. k \in Int
      BY <1>2, <2>2
    <2>4. 1 <= k
      BY <1>2, <2>2
    <2>5. k <= Len(s.segments)
      BY <1>2, <2>2
    <2> HIDE DEF k
    <2> QED BY <1>2, <2>3, <2>4, <2>5
  <1>5. s.segments[k].msn = m
    <2>1. s.segments[k].msn = OldestMSN(s) + k - 1
      BY <1>4, WindowNumbers
    <2> QED BY <1>1, <1>2, <2>1
  <1> HIDE DEF k, m
  <1>6. list.segments[i] = SegmentTag(s.segments[k])
    BY <1>1, <1>4, <1>5 DEF SegmentsStand
  <1>7. list.segments[i].media = s.segments[k].data
    BY <1>6 DEF SegmentTag
  <1> QED BY <1>1, <1>4, <1>5, <1>7, SegmentServed

(***************************************************************************)
(* A segment of an old playlist, and a part of it, is answered with the    *)
(* media the playlist stood for, for as long as the window may still have  *)
(* it: however much was cut, completed and evicted since, and whether or   *)
(* not the stream has ended.                                               *)
(***************************************************************************)
THEOREM ListedServed == DeliverySpec => []ListedStaysServed
  <1>1. HeldInv => ListedStaysServed
    <2> SUFFICES ASSUME HeldInv PROVE ListedStaysServed
      OBVIOUS
    <2> DEFINE list == held.list
               len == Len(list.segments)
               cur == GetCurrentMSN(store)
               room == PlaylistWindow - 1 - len
    <2>1. /\ Sound(store) /\ Tiled(store) /\ cur \in Int /\ End(list) \in Nat
          /\ OldestMSN(store) \in Int /\ PlaylistWindow \in Int
      BY HeldFacts, OldestIsNumber, StoreAssumption DEF StoreAssumption, Kept
    <2>2. /\ Listing(list) /\ SegmentsStand(list, store) /\ PartsStand(list, store)
          /\ End(list) <= cur
      BY DEF HeldInv, Follows
    <2>3. /\ list.sequence \in Nat /\ len \in Nat /\ DOMAIN list.segments = 1 .. len
          /\ Since = cur - End(list) /\ End(list) = list.sequence + len
      BY <2>2, LenProperties DEF Listing, Since, End
    <2> HIDE DEF list, len, cur
    <2>4. ASSUME NEW i \in DOMAIN list.segments, Since < i + room
          PROVE  ServeSegment(store, list.segments[i].msn) = Ok(list.segments[i].media)
      <3>1. i \in 1 .. len
        BY <2>3
      <3>2. cur - (list.sequence + i - 1) < PlaylistWindow
        BY <2>1, <2>3, <2>4, <3>1
      <3> QED BY <2>1, <2>2, <3>1, <3>2, ListedIsServed DEF len, cur
    <2>5. ASSUME NEW j \in DOMAIN list.parts, Since < room + len
          PROVE  LET tag == list.parts[j]
                 IN  /\ HasPart(store, tag.msn, tag.idx)
                     /\ ServePart(store, tag.msn, tag.idx) = Ok(tag.media)
      <3> DEFINE tag == list.parts[j]
      <3>1. /\ tag.msn \in Nat /\ tag.msn \in {End(list) - 1, End(list)}
            /\ StillThere(tag, store)
        BY <2>2 DEF PartsStand
      <3>2. cur - tag.msn < PlaylistWindow
        <4> HIDE DEF tag
        <4>1. Since < PlaylistWindow - 1
          BY <2>1, <2>3, <2>5
        <4>2. cur - End(list) < PlaylistWindow - 1
          BY <2>3, <4>1
        <4> QED BY <2>1, <3>1, <4>2
      <3>3. OldestMSN(store) <= tag.msn
        BY <2>1, <3>1, <3>2, InWindow DEF cur
      <3>4. PICK p \in Published(store) : p[1] = tag.msn /\ PartTag(p[2]) = tag
        BY <2>1, <3>1, <3>3 DEF StillThere
      <3>5. tag.idx = p[2].idx /\ tag.media = p[2].data
        BY <3>4 DEF PartTag
      <3>6. HasPart(store, p[1], p[2].idx) /\ ServePart(store, p[1], p[2].idx) = Ok(p[2].data)
        BY <2>1, PartFound
      <3> QED BY <3>4, <3>5, <3>6
    <2> QED BY <2>4, <2>5 DEF ListedStaysServed, list, len
  <1> QED BY <1>1, HeldInvInit, HeldInvNext, PTL DEF DeliverySpec

(***************************************************************************)
(* A preload hint comes true: when the part it names exists, its first     *)
(* fragment is the one after the last of those the playlist listed,        *)
(* whether the part was cut in the segment of the playlist or the segment  *)
(* was closed in between, by its length or by the end of the stream.       *)
(***************************************************************************)
THEOREM HintNext == DeliverySpec => []HintIsTheNextPart
  <1>1. HeldInv => HintIsTheNextPart
    <2> SUFFICES ASSUME HeldInv, Hints(held.list),
                        HasPart(store, held.list.hint[1], held.list.hint[2])
                 PROVE  ServePart(store, held.list.hint[1], held.list.hint[2]).media[1]
                            = LastListed(held.list) + 1
      BY DEF HintIsTheNextPart, Hints
    <2> DEFINE msn == held.list.hint[1]
               idx == held.list.hint[2]
    <2>1. Sound(store) /\ Tiled(store)
      BY HeldFacts DEF Kept
    <2>2. /\ idx \in Nat
          /\ \A p \in Published(store) :
                p[1] = msn /\ p[2].idx = idx => p[2].data[1] = LastListed(held.list) + 1
      BY DEF HeldInv, Follows, Awaits
    <2>3. PICK p \in Published(store) : p[1] = msn /\ p[2].idx = idx
      BY <2>1, <2>2, PartIsPublished
    <2>4. ServePart(store, msn, idx) = Ok(p[2].data)
      BY <2>1, <2>3, PartFound
    <2>5. Ok(p[2].data).media = p[2].data
      BY DEF Ok
    <2> QED BY <2>2, <2>3, <2>4, <2>5
  <1> QED BY <1>1, HeldInvInit, HeldInvNext, PTL DEF DeliverySpec

-----------------------------------------------------------------------------
(* How long a delta update is.                                             *)

LEMMA TagsLast ==
    ASSUME NEW tags \in Seq(SegTag), NEW d \in Nat,
           \A i \in 1 .. Len(tags) : tags[i].dur >= d
    PROVE  Lasts(tags) \in Nat /\ Lasts(tags) >= d * Len(tags)
  <1> DEFINE durs == [i \in DOMAIN tags |-> tags[i].dur]
  <1>1. \A i \in DOMAIN tags : tags[i].dur \in Nat
    <2>1. \A i \in DOMAIN tags : tags[i] \in SegTag
      OBVIOUS
    <2> QED BY <2>1 DEF SegTag
  <1>2. /\ durs \in Seq(Nat) /\ Len(durs) = Len(tags)
        /\ \A i \in 1 .. Len(durs) : durs[i] >= d
    BY <1>1
  <1>3. Lasts(tags) = Added(durs)
    BY DEF Lasts
  <1> HIDE DEF durs
  <1> QED BY <1>2, <1>3, AddedAtLeast

\* The segments a delta update keeps are enough at nominal length.
LEMMA KeptIs ==
    ASSUME NEW s, Sound(s), SkippedCount(s, TRUE) > 0
    PROVE  LET kept == Len(s.segments) - SkippedCount(s, TRUE)
           IN  kept \in 0 .. 6 /\ kept * SegmentDurationMs >= SkipUntil
  <1> DEFINE len == Len(s.segments)
             keep == SegsToKeep(s)
             dur == SegmentDurationMs
             up == CappedSkipUntil(s) + dur - 1
  <1>1. /\ len \in Nat /\ dur \in Nat \ {0}
        /\ TargetDuration \in Nat /\ TargetDuration <= dur
    BY CurrentIs, TargetIs
  <1>2. /\ SkipUntil = 6 * TargetDuration /\ SkipUntil \in Nat /\ SkipUntil <= 6 * dur
        /\ len * dur \in Nat
    BY <1>1 DEF SkipUntil
  <1>3. /\ len > keep /\ SkippedCount(s, TRUE) = len - keep
    BY DEF SkippedCount
  <1>4. CappedSkipUntil(s) = IF len * dur < SkipUntil THEN len * dur ELSE SkipUntil
    BY DEF CappedSkipUntil
  <1>5. keep = up \div dur
    BY DEF SegsToKeep
  <1> HIDE DEF len, dur, keep
  <1>6. up \in Nat
    BY <1>1, <1>2, <1>4
  <1>7. keep \in Nat /\ dur * keep <= up /\ up < dur * keep + dur
    BY <1>1, <1>5, <1>6, Truncated
  <1>8. dur * keep \in Nat /\ dur * keep = keep * dur /\ dur * len = len * dur
    BY <1>1, <1>7
  <1>9. CappedSkipUntil(s) = SkipUntil
    <2> SUFFICES ASSUME CappedSkipUntil(s) = len * dur PROVE FALSE
      BY <1>4
    <2>1. up = len * dur + dur - 1
      OBVIOUS
    <2> HIDE DEF up
    <2>2. dur * (keep + 1) <= dur * len
      BY <1>1, <1>3, <1>7, TimesGrows
    <2>3. dur * (keep + 1) = dur * keep + dur
      BY <1>1, <1>7
    <2> QED BY <1>1, <1>2, <1>7, <1>8, <2>1, <2>2, <2>3
  <1>10. keep * dur >= SkipUntil
    BY <1>1, <1>2, <1>7, <1>8, <1>9
  <1>11. keep <= 6
    <2> SUFFICES ASSUME keep >= 7 PROVE FALSE
      BY <1>7
    <2>1. dur * 7 <= dur * keep
      BY <1>1, <1>7, TimesGrows
    <2> QED BY <1>1, <1>2, <1>7, <1>8, <1>9, <2>1
  <1>12. len - SkippedCount(s, TRUE) = keep
    <2> DEFINE k == SkippedCount(s, TRUE)
    <2>1. keep \in Nat /\ len \in Nat /\ k = len - keep
      BY <1>1, <1>3, <1>7
    <2> HIDE DEF k
    <2>2. len - k = keep
      BY <2>1
    <2> QED BY <2>2 DEF k
  <1>13. /\ len - SkippedCount(s, TRUE) \in 0 .. 6
         /\ (len - SkippedCount(s, TRUE)) * dur >= SkipUntil
    <2>1. keep \in 0 .. 6
      BY <1>7, <1>11
    <2> QED BY <1>10, <1>12, <2>1
  <1> QED BY <1>13 DEF len, dur

(***************************************************************************)
(* What a live delta update lists lasts at least CAN-SKIP-UNTIL, for every *)
(* segment duration: the count of segments to keep is rounded up, and no   *)
(* segment is shorter than the target before the stream ends.              *)
(***************************************************************************)
THEOREM SkipsFarEnough == DeliverySpec => []SkipsOnlyPastTheBoundary
  <1>1. ShortInv => SkipsOnlyPastTheBoundary
    <2> SUFFICES ASSUME ShortInv, Generate(store, TRUE).skipped > 0, ~store.ended
                 PROVE  Lasts(Generate(store, TRUE).segments) >= SkipUntil
      BY DEF SkipsOnlyPastTheBoundary
    <2> DEFINE tags == Generate(store, TRUE).segments
               k == SkippedCount(store, TRUE)
    <2>1. Sound(store) /\ Long(store) /\ store \in StoreRecord
      BY DEF ShortInv, StoreInv, Sound
    <2>2. Generate(store, TRUE).skipped = k
      BY <2>1, SameBut
    <2>3. /\ Len(store.segments) - k \in 0 .. 6
          /\ (Len(store.segments) - k) * SegmentDurationMs >= SkipUntil
      BY <2>1, <2>2, KeptIs
    <2>4. /\ tags \in Seq(SegTag) /\ Len(tags) = Len(store.segments) - k
          /\ \A i \in 1 .. Len(store.segments) - k :
                /\ i + k \in 1 .. Len(store.segments)
                /\ tags[i] = SegmentTag(store.segments[i + k])
      BY <2>1, ListedSegments
    <2> HIDE DEF tags, k
    <2>5. ASSUME NEW i \in 1 .. Len(tags) PROVE tags[i].dur >= SegmentDurationMs
      <3>1. /\ i + k \in 1 .. Len(store.segments)
            /\ tags[i] = SegmentTag(store.segments[i + k])
        BY <2>4
      <3>2. DOMAIN store.segments = 1 .. Len(store.segments)
        BY <2>1, CurrentIs
      <3>3. IsFull(store.segments[i + k])
        BY <2>1, <3>1, <3>2 DEF Long, LongEnough
      <3> QED BY <3>1, <3>3 DEF IsFull, SegmentTag
    <2>6. SegmentDurationMs \in Nat
      BY TargetIs
    <2>7. Lasts(tags) \in Nat /\ Lasts(tags) >= SegmentDurationMs * Len(tags)
      BY <2>4, <2>5, <2>6, TagsLast
    <2>8. Lasts(tags) >= SkipUntil
      <3>1. Len(tags) * SegmentDurationMs >= SkipUntil
        BY <2>3, <2>4
      <3>2. /\ Len(tags) * SegmentDurationMs \in Int /\ SkipUntil \in Int
            /\ SegmentDurationMs * Len(tags) = Len(tags) * SegmentDurationMs
        <4>1. SkipUntil \in Int
          BY TargetIs DEF SkipUntil
        <4> QED BY <2>3, <2>4, <2>6, <4>1
      <3> QED BY <2>7, <3>1, <3>2
    <2> QED BY <2>8 DEF tags
  <1>2. DeliveryInit => Init
    BY DEF DeliveryInit
  <1>3. [DeliveryNext]_deliveryVars => [Next]_vars
    BY StreamNext DEF deliveryVars
  <1> QED BY <1>1, <1>2, <1>3, ShortInvInit, ShortInvNext, PTL DEF DeliverySpec

-----------------------------------------------------------------------------
(* What the parser read is what the library wrote.                         *)

\* The newest fragment of the store is that of the last file emitted.
DatedInv ==
    last = "m4s" => fragments # <<>> /\ LastOf(fragments) = Parsed[file]

LEMMA DatedInvNext == HeldInv /\ DatedInv /\ [DeliveryNext]_deliveryVars => DatedInv'
  <1> SUFFICES ASSUME HeldInv, DatedInv, [DeliveryNext]_deliveryVars PROVE DatedInv'
    OBVIOUS
  <1>1. fragments \in Seq(Fragment)
    BY HeldFacts
  <1>2. CASE EmitInit
    BY <1>2 DEF EmitInit, DatedInv
  <1>3. CASE EmitPlaylist
    BY <1>3 DEF EmitPlaylist, DatedInv
  <1>4. ASSUME NEW f \in DOMAIN Emitted, EmitMedia(f) PROVE DatedInv'
    <2>1. fragments' = Append(fragments, Parsed[f]) /\ file' = f
      BY <1>4 DEF EmitMedia, AddFragment
    <2>2. Parsed[f] \in Fragment
      BY EmittedAssumption DEF EmittedAssumption
    <2> DEFINE p == Parsed[f]
    <2> HIDE DEF p
    <2>3. Append(fragments, p) # <<>> /\ LastOf(Append(fragments, p)) = p
      BY <1>1, <2>2 DEF LastOf, p
    <2> QED BY <2>1, <2>3 DEF DatedInv, p
  <1>5. CASE UnregisterSession
    BY <1>5 DEF UnregisterSession, Finalize, DatedInv
  <1>6. CASE Notify
    BY <1>6 DEF Notify, Broadcast, BroadcastEnded, DatedInv
  <1>7. CASE \E skip \in BOOLEAN : Reload(skip)
    BY <1>7 DEF Reload, vars, DatedInv
  <1>8. CASE UNCHANGED deliveryVars
    BY <1>8 DEF deliveryVars, vars, DatedInv
  <1> QED BY <1>2, <1>3, <1>4, <1>5, <1>6, <1>7, <1>8 DEF DeliveryNext

\* Of any file the library may emit, the parser reads what was written.
LEMMA EveryFileRead ==
    ASSUME NEW f \in DOMAIN Emitted
    PROVE  LET tracks == Emitted[f].tracks
               read == ParseMoofFromBytes(Emitted[f].boxes, 0)
           IN  /\ tracks = <<>> => read = Fallback
               /\ Readable(tracks) => read = InSeconds(Written(tracks), Timescale)
  <1> DEFINE tracks == Emitted[f].tracks
             boxes == Emitted[f].boxes
  <1>1. /\ tracks \in Seq(Tracks) /\ \A t \in DOMAIN tracks : Conforms(tracks[t])
        /\ HoldsItsTracks(boxes, tracks)
    BY EmittedAssumption DEF EmittedAssumption
  <1> HIDE DEF tracks, boxes
  <1>2. DOMAIN boxes \subseteq Nat \ {0}
    BY <1>1 DEF HoldsItsTracks, IsSequence
  <1>3. ASSUME tracks = <<>> PROVE ParseMoofFromBytes(boxes, 0) = Fallback
    BY <1>1, <1>2, <1>3, NothingRead DEF HoldsItsTracks
  <1>4. ASSUME Readable(tracks)
        PROVE  ParseMoofFromBytes(boxes, 0) = InSeconds(Written(tracks), Timescale)
    <2>1. /\ tracks # <<>> /\ Legible(tracks[1]) /\ Written(tracks).dur > 0
      BY <1>4 DEF Readable, Legible
    <2>2. Conforms(tracks[1])
      <3>1. 1 \in DOMAIN tracks
        BY <1>1, <2>1
      <3> QED BY <3>1, <1>1
    <2>3. PICK i \in DOMAIN boxes :
              /\ boxes[i] = Moof(tracks)
              /\ \A j \in 1 .. i - 1 : boxes[j].fits /\ boxes[j].type # "moof"
      BY <1>1, <2>1 DEF HoldsItsTracks
    <2>4. boxes[i] = Box("moof", TRUE, Moof(tracks).body)
      BY <2>3 DEF Moof, Box
    <2>5. ParseMoofFromBytes(boxes, 0) = ParseMoof(Moof(tracks).body, 0)
      BY <1>2, <2>3, <2>4, FileRead
    <2>6. ParseMoof(Moof(tracks).body, 0) = InSeconds(Written(tracks), Units(0))
      BY <1>1, <2>1, <2>2, MoofRead
    <2> QED BY <2>5, <2>6 DEF Units
  <1> QED BY <1>3, <1>4 DEF tracks, boxes

LEMMA WrittenType ==
    ASSUME NEW tracks \in Seq(Tracks), tracks # <<>>, tracks[1] \in Tracks
    PROVE  Written(tracks).dur \in Nat
  <1> DEFINE runs == tracks[1].runs
             durs == [r \in DOMAIN runs |-> Lasts(runs[r])]
             n == Len(runs)
  <1>1. runs \in Seq(Seq([dur : Nat, sync : BOOLEAN]))
    BY DEF Tracks
  <1>2. n \in Nat /\ DOMAIN runs = 1 .. n
    BY <1>1, LenProperties
  <1>3. ASSUME NEW r \in 1 .. n PROVE Lasts(runs[r]) \in Nat
    <2> DEFINE run == runs[r]
               each == [i \in DOMAIN run |-> run[i].dur]
               len == Len(run)
    <2>1. run \in Seq([dur : Nat, sync : BOOLEAN])
      BY <1>1, <1>2
    <2>2. len \in Nat /\ run \in [1 .. len -> [dur : Nat, sync : BOOLEAN]]
      BY <2>1, LenProperties
    <2> HIDE DEF run, len
    <2>3. each \in [1 .. len -> Nat]
      BY <2>2
    <2> HIDE DEF each
    <2>4. each \in Seq(Nat)
      BY <2>2, <2>3, SeqDef
    <2>5. Added(each) \in Nat
      BY <2>4, AddedType
    <2> QED BY <2>5 DEF Lasts, each, run
  <1> HIDE DEF runs, n
  <1>4. durs \in [1 .. n -> Nat]
    BY <1>2, <1>3
  <1>5. Written(tracks).dur = Added(durs)
    BY DEF Written, Read, runs
  <1> HIDE DEF durs
  <1>6. durs \in Seq(Nat)
    BY <1>2, <1>4, SeqDef
  <1> QED BY <1>5, <1>6, AddedType

\* Of positive numbers of units, the same number lasts as long just when the
\* units are the same.
LEMMA SameTimeIs ==
    ASSUME NEW dur \in Nat \ {0}, NEW units \in Nat, NEW units2 \in Nat
    PROVE  SameTime(dur, units, dur, units2) <=> units2 = units
  <1>1. CASE units = units2
    BY <1>1 DEF SameTime
  <1>2. CASE units < units2
    <2>1. dur * units2 = dur * units + dur * (units2 - units)
      OBVIOUS
    <2>2. dur * (units2 - units) > 0 /\ dur * units \in Nat
      BY <1>2
    <2> QED BY <1>2, <2>1, <2>2 DEF SameTime
  <1>3. CASE units2 < units
    <2>1. dur * units = dur * units2 + dur * (units - units2)
      OBVIOUS
    <2>2. dur * (units - units2) > 0 /\ dur * units2 \in Nat
      BY <1>3
    <2> QED BY <1>3, <2>1, <2>2 DEF SameTime
  <1> QED BY <1>1, <1>2, <1>3

\* The clock the callback has the parser assume divides into the store's ticks.
LEMMA SecondIs ==
    /\ Second \in Nat \ {0} /\ Second = Timescale
    /\ Second \div Timescale = 1 /\ Second \div 1000 = TicksPerMs
    /\ TicksPerMs \in Nat \ {0}
  <1>1. TicksPerMs \in Nat \ {0} /\ Second = TicksPerMs * 1000 /\ Second = Timescale
    BY StoreAssumption, DeliveryAssumption
    DEF StoreAssumption, DeliveryAssumption, Second, Millis
  <1> HIDE DEF Second, Timescale
  <1>2. Second \in Nat \ {0}
    BY <1>1
  <1>3. Second \div 1000 = TicksPerMs
    BY <1>1
  <1>4. Second \div Timescale = 1
    BY <1>1, <1>2
  <1> QED BY <1>1, <1>2, <1>3, <1>4

(***************************************************************************)
(* The newest fragment has the number of units of time and the keyframe    *)
(* flag the library wrote in the file, for any number of tracks, runs and  *)
(* samples, in every form that Readable names, and whatever other boxes    *)
(* are in the file; and for every clock of the track, that number lasts as *)
(* long in the store as the fragment does only if the clock is of 90 kHz.  *)
(***************************************************************************)
THEOREM ReadAsWritten == DeliverySpec => []ParsedAsWritten
  <1>1. DeliveryInit => DatedInv
    BY DEF DeliveryInit, DatedInv
  <1>2. HeldInv /\ DatedInv => ParsedAsWritten
    <2> SUFFICES ASSUME HeldInv, DatedInv, last = "m4s" PROVE ParsedAsWritten
      BY DEF ParsedAsWritten
    <2> DEFINE taken == LastOf(fragments)
               tracks == Emitted[file].tracks
               true == Written(tracks)
               clock == Emitted[file].clock
               read == ParseMoofFromBytes(Emitted[file].boxes, 0)
    <2>1. file \in DOMAIN Emitted
      BY DEF HeldInv
    <2>2. /\ tracks \in Seq(Tracks) /\ \A t \in DOMAIN tracks : Conforms(tracks[t])
          /\ clock \in Nat \ {0}
      BY <2>1, EmittedAssumption DEF EmittedAssumption
    <2>3. taken = [ticks |-> read.dur * (Second \div read.units), key |-> read.key]
      BY <2>1 DEF DatedInv, Parsed
    <2>4. /\ tracks = <<>> => read = Fallback
          /\ Readable(tracks) => read = InSeconds(true, Timescale)
      BY <2>1, EveryFileRead
    <2> HIDE DEF taken, tracks, clock, read
    <2>5. ASSUME tracks = <<>> PROVE taken = [ticks |-> 33 * TicksPerMs, key |-> TRUE]
      <3>1. read.dur = 33 /\ read.units = 1000 /\ read.key = TRUE
        BY <2>4, <2>5 DEF Fallback, InSeconds, Read
      <3>2. taken = [ticks |-> 33 * (Second \div 1000), key |-> TRUE]
        BY <2>3, <3>1, Zenon
      <3>3. Second \div 1000 = TicksPerMs
        BY SecondIs
      <3> QED BY <3>2, <3>3, Zenon
    <2>6. ASSUME Readable(tracks)
          PROVE  /\ taken = [ticks |-> true.dur, key |-> true.key]
                 /\ SameTime(taken.ticks, Second, true.dur, clock) <=> clock = Second
      <3>1. read.dur = true.dur /\ read.units = Timescale /\ read.key = true.key
        BY <2>4, <2>6 DEF InSeconds
      <3>2. true.dur \in Nat \ {0}
        <4>1. tracks # <<>> /\ true.dur > 0
          BY <2>6 DEF Readable
        <4>2. tracks[1] \in Tracks
          BY <2>2, <4>1
        <4> QED BY <2>2, <4>1, <4>2, WrittenType
      <3> HIDE DEF true
      <3> DEFINE dur == true.dur
      <3>3. taken = [ticks |-> dur * 1, key |-> true.key]
        BY <2>3, <3>1, SecondIs
      <3> HIDE DEF dur
      <3>4. dur * 1 = dur
        BY <3>2 DEF dur
      <3>5. taken = [ticks |-> dur, key |-> true.key] /\ taken.ticks = dur
        BY <3>3, <3>4
      <3>6. SameTime(dur, Second, dur, clock) <=> clock = Second
        BY <2>2, <3>2, SecondIs, SameTimeIs DEF dur
      <3> QED BY <3>5, <3>6 DEF dur
    <2> QED BY <2>5, <2>6 DEF ParsedAsWritten, taken, tracks, clock
  <1> QED BY <1>1, <1>2, HeldInvInit, HeldInvNext, DatedInvNext, PTL DEF DeliverySpec

(***************************************************************************)
(* The store between the library and a player is the store of module       *)
(* Store: whatever is delivered is a fragment it may be given, in an order *)
(* it may be given it, so all that is proved of it holds here.             *)
(***************************************************************************)
THEOREM DeliveryIsStream == DeliverySpec => Spec
  <1>1. DeliveryInit => Init
    BY DEF DeliveryInit
  <1>2. [DeliveryNext]_deliveryVars => [Next]_vars
    BY StreamNext DEF deliveryVars
  <1> QED BY <1>1, <1>2, PTL DEF DeliverySpec, Spec

=============================================================================

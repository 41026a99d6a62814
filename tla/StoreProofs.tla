---------------------------- MODULE StoreProofs ----------------------------
(***************************************************************************)
(* The store, for every value of the constants: that it has its type, that *)
(* its window is consecutive and the notifier current, how long its        *)
(* segments get, that it ends with everything in segments, and that what a *)
(* playlist shows only slides.                                             *)
(*                                                                         *)
(* A lemma about an internal operation takes a store with some facts       *)
(* (Sound, Filled, Sealable) and says which the operation gives back; the  *)
(* second half adds further ones to them: Short and Long, Timed, and the   *)
(* view of a player.                                                       *)
(***************************************************************************)
EXTENDS Store, SequenceTheorems, TLAPS

\* Numbering a window that lost its first element.
LEMMA OneLess ==
    ASSUME NEW m \in Int, NEW n \in Int, NEW k \in Int, NEW i \in Int, k = n - 1
    PROVE  m - n + (i + 1) = m - k + i
  OBVIOUS

-----------------------------------------------------------------------------
(* What the internal operations return is a store.                         *)

LEMMA FreshSegmentType ==
    ASSUME NEW msn \in Int
    PROVE  NewSegment(msn) \in Segment
  BY DEF NewSegment, Segment

LEMMA FreshPartType ==
    ASSUME NEW key \in BOOLEAN
    PROVE  NewPart(key) \in PartAccumulator
  BY DEF NewPart, PartAccumulator

LEMMA NilTypes == NoSegment \in Segment /\ NoPart \in PartAccumulator
  <1>1. NoSegment \in Segment
    BY FreshSegmentType DEF NoSegment
  <1>2. NoPart \in PartAccumulator
    BY FreshPartType DEF NoPart
  <1> QED BY <1>1, <1>2

\* A sum of seconds is read as it is, or a tick too short.
LEMMA SumReadBounds ==
    ASSUME NEW acc \in PartAccumulator, NEW use
    PROVE  /\ SumRead(acc, use) \in Nat /\ acc.ticks \in Nat
           /\ SumRead(acc, use) <= acc.ticks /\ acc.ticks - 1 <= SumRead(acc, use)
  BY DEF PartAccumulator, SumRead

LEMMA MillisecondsType ==
    ASSUME NEW acc \in PartAccumulator
    PROVE  Milliseconds(acc) \in Nat
  <1>1. SumRead(acc, "ms") \in Nat
    BY SumReadBounds
  <1> QED BY <1>1, StoreAssumption, SMT DEF StoreAssumption, Milliseconds

LEMMA StoreFields ==
    ASSUME NEW s \in StoreRecord
    PROVE  /\ s.segments \in Seq(Segment)
           /\ s.currentSeg \in Segment
           /\ s.currentPart \in PartAccumulator
           /\ s.nextMSN \in Nat
           /\ s.init \in BOOLEAN
           /\ s.ended \in BOOLEAN
  BY DEF StoreRecord

LEMMA AccumulateType ==
    ASSUME NEW s \in StoreRecord, NEW id \in Nat,
           NEW frag \in Fragment, NEW lost \in SUBSET Uses
    PROVE  Accumulate(s, id, frag, lost) \in StoreRecord
  <1>1. frag.ticks \in Nat /\ frag.key \in BOOLEAN
    BY StoreAssumption DEF StoreAssumption, Fragment
  <1> DEFINE seg == IF s.currentSeg = NoSegment THEN NewSegment(s.nextMSN)
                                                ELSE s.currentSeg
             msn == IF s.currentSeg = NoSegment THEN s.nextMSN + 1 ELSE s.nextMSN
             acc == IF s.currentPart = NoPart THEN NewPart(frag.key)
                                              ELSE s.currentPart
             sum == acc.ticks + frag.ticks
             fed == [acc EXCEPT !.data = Append(@, id), !.ticks = sum,
                                !.lost = lost \cap Boundary(sum)]
  <1>2. seg \in Segment
    <2>1. NewSegment(s.nextMSN) \in Segment
      BY FreshSegmentType, StoreFields
    <2> QED BY <2>1, StoreFields
  <1>3. acc \in PartAccumulator
    <2>1. NewPart(frag.key) \in PartAccumulator
      BY FreshPartType, <1>1
    <2> QED BY <2>1, StoreFields
  <1>4. fed \in PartAccumulator
    <2> HIDE DEF acc
    <2>1. Append(acc.data, id) \in Seq(Nat)
      BY <1>3, AppendProperties DEF PartAccumulator
    <2>2. sum \in Nat
      BY <1>1, <1>3 DEF PartAccumulator
    <2>3. lost \cap Boundary(sum) \in SUBSET Uses
      OBVIOUS
    <2> HIDE DEF sum
    <2> QED BY <1>3, <2>1, <2>2, <2>3 DEF PartAccumulator
  <1> HIDE DEF seg, fed, acc, msn
  <1>5. Accumulate(s, id, frag, lost) =
          [s EXCEPT !.currentSeg = seg, !.nextMSN = msn, !.currentPart = fed]
    BY DEF Accumulate, seg, fed, acc, msn
  <1>6. msn \in Nat
    BY StoreFields DEF msn
  <1> QED BY <1>2, <1>4, <1>5, <1>6 DEF StoreRecord

LEMMA ClosedPartType ==
    ASSUME NEW s \in StoreRecord
    PROVE  ClosedPart(s) \in Part
  <1>1. Milliseconds(s.currentPart) \in Nat
    BY StoreFields, MillisecondsType
  <1>2. NextIndex(s.currentSeg) \in Nat
    BY StoreFields, LenProperties DEF NextIndex, Segment
  <1>3. s.currentSeg.msn \in Int /\ s.currentPart.data \in Seq(Nat)
        /\ s.currentPart.independent \in BOOLEAN
    BY StoreFields DEF Segment, PartAccumulator
  <1> QED BY <1>1, <1>2, <1>3 DEF ClosedPart, Part

LEMMA ExtendedType ==
    ASSUME NEW seg \in Segment, NEW part \in Part
    PROVE  Extended(seg, part) \in Segment
  <1>1. Append(seg.parts, part) \in Seq(Part)
    BY AppendProperties DEF Segment
  <1>2. seg.dur + part.dur \in Nat
    BY DEF Segment, Part
  <1>3. seg.data \o part.data \in Seq(Nat)
    BY ConcatProperties DEF Segment, Part
  <1> QED BY <1>1, <1>2, <1>3 DEF Extended, Segment

LEMMA AppendPartType ==
    ASSUME NEW s \in StoreRecord
    PROVE  AppendPart(s) \in StoreRecord
  <1>1. Extended(s.currentSeg, ClosedPart(s)) \in Segment
    BY ClosedPartType, ExtendedType DEF StoreRecord
  <1>2. NoPart \in PartAccumulator
    BY NilTypes
  <1> QED BY <1>1, <1>2 DEF AppendPart, StoreRecord

LEMMA TrimWindowType ==
    ASSUME NEW segs \in Seq(Segment), segs # <<>>
    PROVE  TrimWindow(segs) \in Seq(Segment)
  BY DEF TrimWindow

LEMMA FinalizeSegmentType ==
    ASSUME NEW s \in StoreRecord
    PROVE  FinalizeSegment(s) \in StoreRecord
  <1> DEFINE done == [s.currentSeg EXCEPT !.completed = TRUE]
             segs == TrimWindow(Append(s.segments, done))
             fresh == NewSegment(s.nextMSN)
  <1>1. done \in Segment
    BY StoreFields DEF Segment
  <1>2. Append(s.segments, done) \in Seq(Segment) /\ Append(s.segments, done) # <<>>
    <2> HIDE DEF done
    <2> QED BY <1>1, StoreFields, AppendProperties
  <1>3. segs \in Seq(Segment)
    BY <1>2, TrimWindowType
  <1>4. fresh \in Segment /\ s.nextMSN + 1 \in Nat
    <2>1. s.nextMSN \in Int /\ s.nextMSN + 1 \in Nat
      BY StoreFields
    <2>2. fresh \in Segment
      BY <2>1, FreshSegmentType
    <2> QED BY <2>1, <2>2
  <1>5. FinalizeSegment(s) = [s EXCEPT !.segments = segs, !.currentSeg = fresh,
                                       !.nextMSN = s.nextMSN + 1]
    BY DEF FinalizeSegment
  <1> HIDE DEF segs, fresh
  <1> QED BY <1>3, <1>4, <1>5 DEF StoreRecord

LEMMA NewsTypes ==
    ASSUME NEW msn \in Int, NEW part \in Int
    PROVE  {Media(msn, part), TheEnd, Nothing} \subseteq News
  BY DEF Media, TheEnd, Nothing, News

LEMMA PartNewsType ==
    ASSUME NEW seg \in Segment
    PROVE  PartNews(seg) \in News
  <1>1. seg.msn \in Int /\ Len(seg.parts) - 1 \in Int
    BY DEF Segment
  <1> QED BY <1>1, NewsTypes DEF PartNews

LEMMA FinalizePartType ==
    ASSUME NEW s \in StoreRecord
    PROVE  FinalizePart(s).store \in StoreRecord /\ FinalizePart(s).news \in News
  <1>1. AppendPart(s) \in StoreRecord
    BY AppendPartType
  <1>2. FinalizeSegment(AppendPart(s)) \in StoreRecord
    BY <1>1, FinalizeSegmentType
  <1>3. PartNews(AppendPart(s).currentSeg) \in News
    BY <1>1, PartNewsType, StoreFields
  <1> QED BY <1>1, <1>2, <1>3 DEF FinalizePart

LEMMA FlushType ==
    ASSUME NEW s \in StoreRecord
    PROVE  LET flushed == FlushSegment(FlushPart(s))
           IN  flushed.store \in StoreRecord /\ flushed.news \in News
  <1> DEFINE f == FlushPart(s)
  <1>1. f.store \in StoreRecord /\ f.news \in News
    BY FinalizePartType, NewsTypes DEF FlushPart
  <1> HIDE DEF f
  <1>2. FinalizeSegment(f.store) \in StoreRecord
    BY <1>1, FinalizeSegmentType
  <1>3. Media(f.store.currentSeg.msn, -1) \in News
    <2>1. f.store.currentSeg.msn \in Int
      BY <1>1, StoreFields DEF Segment
    <2> QED BY <2>1, NewsTypes
  <1>4. FlushSegment(f).store \in StoreRecord /\ FlushSegment(f).news \in News
    BY <1>1, <1>2, <1>3 DEF FlushSegment
  <1> QED BY <1>4 DEF f

-----------------------------------------------------------------------------
(* Type correctness.                                                       *)

LEMMA TypeInit == Init => TypeOK
  <1> SUFFICES ASSUME Init PROVE TypeOK
    OBVIOUS
  <1>1. fragments \in Seq(Fragment) /\ Len(fragments) <= MaxFragments
    BY StoreAssumption, EmptySeq DEF Init, StoreAssumption
  <1>2. store \in StoreRecord
    BY NilTypes, EmptySeq DEF Init, NewStore, StoreRecord
  <1>3. owed \in News
    BY DEF Init, Nothing, News
  <1> QED BY <1>1, <1>2, <1>3 DEF Init, NewNotifier, TypeOK

LEMMA TypeNext == TypeOK /\ [Next]_vars => TypeOK'
  <1> SUFFICES ASSUME TypeOK, [Next]_vars PROVE TypeOK'
    OBVIOUS
  <1>1. CASE SetInit
    <2>1. store' \in StoreRecord
      BY <1>1 DEF SetInit, TypeOK, StoreRecord
    <2> QED BY <1>1, <2>1 DEF SetInit, TypeOK
  <1>2. ASSUME NEW frag \in Fragment, NEW lost \in SUBSET Uses, AddFragment(frag, lost)
        PROVE  TypeOK'
    <2> DEFINE fed == Accumulate(store, Len(fragments'), frag, lost)
    <2>1. fragments' \in Seq(Fragment) /\ Len(fragments') \in Nat
          /\ Len(fragments') <= MaxFragments
      BY <1>2, AppendProperties, LenProperties, StoreAssumption
      DEF AddFragment, TypeOK, StoreAssumption
    <2>2. fed \in StoreRecord
      BY <1>2, <2>1, AccumulateType DEF TypeOK
    <2>3. FinalizePart(fed).store \in StoreRecord /\ FinalizePart(fed).news \in News
      BY <2>2, FinalizePartType
    <2>4. Nothing \in News
      BY DEF Nothing, News
    <2>5. store' \in StoreRecord /\ owed' \in News
      <3> HIDE DEF fed
      <3>1. \/ store' = FinalizePart(fed).store /\ owed' = FinalizePart(fed).news
            \/ store' = fed /\ owed' = Nothing
        BY <1>2 DEF AddFragment, fed
      <3> QED BY <3>1, <2>2, <2>3, <2>4
    <2> QED BY <1>2, <2>1, <2>5 DEF AddFragment, TypeOK
  <1>3. CASE Finalize
    <2> DEFINE flushed == FlushSegment(FlushPart(store))
    <2>1. flushed.store \in StoreRecord /\ flushed.news \in News
      BY FlushType DEF TypeOK
    <2>2. store' = [flushed.store EXCEPT !.ended = TRUE] /\ owed' = flushed.news
      BY <1>3 DEF Finalize
    <2> HIDE DEF flushed
    <2>3. store' \in StoreRecord
      BY <2>1, <2>2 DEF StoreRecord
    <2> QED BY <1>3, <2>1, <2>2, <2>3 DEF Finalize, TypeOK
  <1>4. CASE Broadcast \/ BroadcastEnded
    <2>1. owed.msn \in Int /\ owed.part \in Int /\ Nothing \in News
      BY DEF TypeOK, News, Nothing
    <2>2. notifier' \in [lastMSN : Int, lastPart : Int, ended : BOOLEAN]
      BY <1>4, <2>1 DEF Broadcast, BroadcastEnded, TypeOK
    <2> QED BY <1>4, <2>1, <2>2 DEF Broadcast, BroadcastEnded, TypeOK
  <1>5. CASE UNCHANGED vars
    BY <1>5 DEF vars, TypeOK
  <1> QED BY <1>1, <1>2, <1>3, <1>4, <1>5 DEF Next

(***************************************************************************)
(* The store, the notifier and the broadcast owed always have their types. *)
(***************************************************************************)
THEOREM TypeCorrect == Spec => []TypeOK
  BY TypeInit, TypeNext, PTL DEF Spec

-----------------------------------------------------------------------------
(* The window and the notifier.                                            *)
(*                                                                         *)
(* Windowed(store) is not inductive alone: finalizeSegment completes       *)
(* whatever the current segment is, and Finalize decides by its duration   *)
(* whether to call it.  Sound adds that an empty segment has no duration.  *)

Sound(s) ==
    /\ s \in StoreRecord
    /\ Windowed(s)
    /\ s.currentSeg.parts = <<>> => s.currentSeg.dur = 0

\* A store that can be given a part, and one whose segment can be completed.
Filled(s) == Sound(s) /\ s.currentSeg.msn >= 0
Sealable(s) == Filled(s) /\ s.currentSeg.parts # <<>>

LEMMA AccumulateSound ==
    ASSUME NEW s, Sound(s), NEW id \in Nat,
           NEW frag \in Fragment, NEW lost \in SUBSET Uses
    PROVE  Filled(Accumulate(s, id, frag, lost))
  <1> DEFINE fed == Accumulate(s, id, frag, lost)
  <1> SUFFICES Filled(fed)
    OBVIOUS
  <1>1. fed \in StoreRecord
    BY AccumulateType DEF Sound
  <1>2. fed.segments = s.segments /\ fed.nextMSN = (IF s.currentSeg = NoSegment THEN s.nextMSN + 1 ELSE s.nextMSN)
        /\ fed.currentSeg = (IF s.currentSeg = NoSegment THEN NewSegment(s.nextMSN) ELSE s.currentSeg)
    BY DEF Accumulate, Sound, StoreRecord
  <1> HIDE DEF fed
  <1>3. s.currentSeg.msn \in Int /\ s.nextMSN \in Nat
    BY StoreFields DEF Sound, Segment
  <1>4. CASE s.currentSeg = NoSegment
    <2>1. s.segments = <<>> /\ s.nextMSN = 0
      BY <1>4 DEF Sound, Windowed, NoSegment, NewSegment
    <2>2. fed.currentSeg.msn = 0 /\ ~fed.currentSeg.completed
          /\ fed.currentSeg.dur = 0
      BY <1>2, <1>4, <2>1 DEF NewSegment
    <2> QED BY <1>1, <1>2, <1>4, <2>1, <2>2, StoreAssumption
        DEF Filled, Sound, Windowed, StoreAssumption
  <1>5. CASE s.currentSeg # NoSegment
    <2>1. fed.currentSeg = s.currentSeg /\ fed.nextMSN = s.nextMSN
      BY <1>2, <1>5
    <2>2. s.currentSeg.msn >= 0
      BY <1>3, <1>5 DEF Sound, Windowed
    <2> QED BY <1>1, <1>2, <1>3, <2>1, <2>2 DEF Filled, Sound, Windowed
  <1> QED BY <1>4, <1>5

LEMMA AppendPartSound ==
    ASSUME NEW s, Filled(s)
    PROVE  /\ Sealable(AppendPart(s))
           /\ AppendPart(s).currentSeg.msn = s.currentSeg.msn
           /\ Len(AppendPart(s).currentSeg.parts) = Len(s.currentSeg.parts) + 1
  <1> DEFINE grown == AppendPart(s)
             part == ClosedPart(s)
  <1>1. grown \in StoreRecord /\ part \in Part /\ s.currentSeg \in Segment
    BY AppendPartType, ClosedPartType, StoreFields DEF Filled, Sound
  <1>2. /\ grown.segments = s.segments
        /\ grown.nextMSN = s.nextMSN
        /\ grown.currentSeg = Extended(s.currentSeg, part)
    BY DEF AppendPart, Filled, Sound, StoreRecord
  <1> HIDE DEF grown, part
  <1>3. /\ grown.currentSeg.msn = s.currentSeg.msn
        /\ grown.currentSeg.completed = s.currentSeg.completed
        /\ grown.currentSeg.parts = Append(s.currentSeg.parts, part)
    BY <1>1, <1>2 DEF Extended, Segment
  <1>4. grown.currentSeg.parts # <<>>
        /\ Len(grown.currentSeg.parts) = Len(s.currentSeg.parts) + 1
    BY <1>1, <1>3, AppendProperties DEF Segment
  <1>5. s.currentSeg # NoSegment
    BY DEF Filled, NoSegment, NewSegment
  <1> QED BY <1>1, <1>2, <1>3, <1>4, <1>5
      DEF Filled, Sealable, Sound, Windowed, grown

LEMMA FinalizeSegmentSound ==
    ASSUME NEW s, Sealable(s)
    PROVE  /\ Filled(FinalizeSegment(s))
           /\ FinalizeSegment(s).currentSeg = NewSegment(s.currentSeg.msn + 1)
  <1> DEFINE next == FinalizeSegment(s)
             done == [s.currentSeg EXCEPT !.completed = TRUE]
             segs == Append(s.segments, done)
             cur == s.currentSeg
  <1> SUFFICES Filled(next) /\ next.currentSeg = NewSegment(cur.msn + 1)
    OBVIOUS
  <1>0. s \in StoreRecord /\ Windowed(s) /\ cur.msn >= 0 /\ cur.parts # <<>>
    BY DEF Sealable, Filled, Sound
  <1>1. next \in StoreRecord /\ cur \in Segment /\ cur.msn \in Nat
        /\ s.segments \in Seq(Segment) /\ s.nextMSN = cur.msn + 1
    <2>1. next \in StoreRecord
      BY <1>0, FinalizeSegmentType
    <2>2. cur \in Segment /\ s.segments \in Seq(Segment)
      BY <1>0, StoreFields
    <2>3. cur.msn \in Int
      BY <2>2 DEF Segment
    <2> QED BY <1>0, <2>1, <2>2, <2>3 DEF Windowed
  <1>2. done \in Segment /\ done.completed /\ done.parts # <<>> /\ done.msn = cur.msn
    BY <1>1 DEF Segment, Sealable
  <1>3. /\ next.segments = TrimWindow(segs)
        /\ next.currentSeg = NewSegment(s.nextMSN)
        /\ next.nextMSN = s.nextMSN + 1
    BY DEF FinalizeSegment, Sealable, Filled, Sound, StoreRecord
  <1> HIDE DEF next, done
  <1>4. /\ segs \in Seq(Segment) /\ Len(segs) = Len(s.segments) + 1
        /\ \A i \in 1 .. Len(s.segments) : segs[i] = s.segments[i]
        /\ segs[Len(s.segments) + 1] = done
    BY <1>1, <1>2, AppendProperties
  <1>5. \A i \in 1 .. Len(segs) :
          /\ segs[i].completed /\ segs[i].parts # <<>>
          /\ segs[i].msn = cur.msn - Len(segs) + i
          /\ segs[i].msn >= 0
    <2> SUFFICES ASSUME NEW i \in 1 .. Len(segs)
                 PROVE  /\ segs[i].completed /\ segs[i].parts # <<>>
                        /\ segs[i].msn = cur.msn - Len(segs) + i
                        /\ segs[i].msn >= 0
      OBVIOUS
    <2> HIDE DEF segs
    <2>1. Len(s.segments) \in Nat
      BY <1>1, LenProperties
    <2>2. CASE i = Len(segs)
      BY <2>2, <2>1, <1>1, <1>2, <1>4
    <2>3. CASE i \in 1 .. Len(s.segments)
      <3>1. segs[i] = s.segments[i]
        BY <2>3, <1>4
      <3>2. /\ s.segments[i].completed /\ s.segments[i].parts # <<>>
            /\ s.segments[i].msn = cur.msn - Len(s.segments) + i - 1
            /\ s.segments[i].msn >= 0
        BY <2>3, <1>0 DEF Windowed
      <3> QED BY <3>1, <3>2, <2>1, <1>1, <1>4
    <2> QED BY <2>1, <2>2, <2>3, <1>4
  <1>6. Len(s.segments) \in Nat /\ Len(s.segments) < PlaylistWindow
        /\ (Len(s.segments) < PlaylistWindow - 1 => Len(s.segments) = cur.msn)
        /\ PlaylistWindow \in Nat \ {0}
    BY <1>1, LenProperties, StoreAssumption
    DEF Sealable, Filled, Sound, Windowed, NoSegment, NewSegment, StoreAssumption
  <1>7. /\ next.currentSeg.msn = cur.msn + 1 /\ ~next.currentSeg.completed
        /\ next.currentSeg.dur = 0
    BY <1>1, <1>3 DEF NewSegment
  <1>8. /\ \A i \in 1 .. Len(next.segments) :
              /\ next.segments[i].completed
              /\ next.segments[i].parts # <<>>
              /\ next.segments[i].msn = cur.msn - Len(next.segments) + i
              /\ next.segments[i].msn >= 0
        /\ Len(next.segments) < PlaylistWindow
        /\ (Len(next.segments) < PlaylistWindow - 1 => Len(next.segments) = cur.msn + 1)
    <2> HIDE DEF segs
    <2>1. CASE Len(segs) >= PlaylistWindow
      <3>1. next.segments = Tail(segs) /\ segs # <<>>
        BY <2>1, <1>3, <1>4, <1>6 DEF TrimWindow
      <3>2. Len(next.segments) = Len(segs) - 1
            /\ \A i \in 1 .. Len(next.segments) : next.segments[i] = segs[i + 1]
        BY <3>1, <1>4, HeadTailProperties
      <3>3. ASSUME NEW i \in 1 .. Len(next.segments)
            PROVE  /\ next.segments[i].completed
                   /\ next.segments[i].parts # <<>>
                   /\ next.segments[i].msn = cur.msn - Len(next.segments) + i
                   /\ next.segments[i].msn >= 0
        <4>1. i + 1 \in 1 .. Len(segs) /\ next.segments[i] = segs[i + 1]
          BY <3>2, <1>4, <1>6
        <4>2. /\ segs[i + 1].completed /\ segs[i + 1].parts # <<>>
              /\ segs[i + 1].msn = cur.msn - Len(segs) + (i + 1)
              /\ segs[i + 1].msn >= 0
          BY <4>1, <1>5
        <4>3. i \in Int /\ Len(segs) \in Int /\ Len(next.segments) = Len(segs) - 1
          BY <3>2, <1>4, <1>6
        <4>4. cur.msn - Len(segs) + (i + 1) = cur.msn - Len(next.segments) + i
          <5>1. cur.msn \in Int
            BY <1>1
          <5> QED BY <4>3, <5>1, OneLess
        <4> QED BY <4>1, <4>2, <4>4
      <3>4. Len(next.segments) < PlaylistWindow /\ ~ (Len(next.segments) < PlaylistWindow - 1)
        BY <3>2, <2>1, <1>4, <1>6
      <3> QED BY <3>3, <3>4
    <2>2. CASE Len(segs) < PlaylistWindow
      <3>1. next.segments = segs
        BY <2>2, <1>3, <1>4, <1>6 DEF TrimWindow
      <3> QED BY <3>1, <2>2, <1>4, <1>5, <1>6
    <2> QED BY <2>1, <2>2, <1>4, <1>6
  <1>9. next.nextMSN = next.currentSeg.msn + 1
    BY <1>1, <1>3, <1>7
  <1>10. Windowed(next)
    <2>1. Len(next.segments) \in Nat
      BY <1>1, StoreFields, LenProperties
    <2>2. \A i \in 1 .. Len(next.segments) :
             next.segments[i].msn = next.currentSeg.msn - Len(next.segments) + i - 1
      BY <2>1, <1>1, <1>7, <1>8
    <2> QED BY <2>2, <1>1, <1>7, <1>8, <1>9 DEF Windowed
  <1> QED BY <1>1, <1>3, <1>7, <1>10 DEF Filled, Sound

\* The news of what a store last made available.
Latest(s) == Media(LatestMSN(s), LatestPart(s))

\* A step from store old to store new that owes the broadcast news.
Announces(news, old, new) ==
    \/ news = Latest(new) /\ Later(news, Latest(old))
    \/ news.kind # "media" /\ Latest(new) = Latest(old)

LEMMA LatestTypes ==
    ASSUME NEW s, Sound(s)
    PROVE  /\ s.currentSeg \in Segment /\ s.currentSeg.msn \in Int
           /\ s.currentSeg.msn >= -1 /\ Len(s.currentSeg.parts) \in Nat
           /\ s.currentSeg.dur \in Nat
           /\ Latest(s).msn = LatestMSN(s) /\ Latest(s).part = LatestPart(s)
           /\ LatestMSN(s) \in Int /\ LatestPart(s) \in Int
           /\ LatestPart(s) >= -1 /\ Latest(s).kind = "media"
           /\ s.currentSeg.parts = <<>> <=> Len(s.currentSeg.parts) = 0
  <1>1. s.currentSeg \in Segment /\ s.currentSeg.msn >= -1
    BY StoreFields DEF Sound, Windowed
  <1>2. /\ s.currentSeg.msn \in Int /\ s.currentSeg.parts \in Seq(Part)
        /\ s.currentSeg.dur \in Nat
    BY <1>1 DEF Segment
  <1>3. /\ Len(s.currentSeg.parts) \in Nat
        /\ s.currentSeg.parts = <<>> <=> Len(s.currentSeg.parts) = 0
    BY <1>2, LenProperties, EmptySeq
  <1> QED BY <1>1, <1>2, <1>3 DEF Latest, Media, LatestMSN, LatestPart

\* Completing the current segment makes it the news, whatever the news was.
LEMMA SealedIsLater ==
    ASSUME NEW s, Filled(s)
    PROVE  Later(Media(s.currentSeg.msn, -1), Latest(s))
  <1>1. CASE s.currentSeg.parts = <<>>
    BY <1>1, LatestTypes DEF Filled, Later, Media, LatestMSN
  <1>2. CASE s.currentSeg.parts # <<>>
    BY <1>2, LatestTypes DEF Filled, Later, Media, LatestMSN, LatestPart
  <1> QED BY <1>1, <1>2

LEMMA FreshSegmentNews ==
    ASSUME NEW s, NEW msn \in Nat, s.currentSeg = NewSegment(msn + 1)
    PROVE  Latest(s) = Media(msn, -1) /\ s.currentSeg.dur = 0
  <1>1. s.currentSeg.parts = <<>> /\ s.currentSeg.msn = msn + 1 /\ s.currentSeg.dur = 0
    BY DEF NewSegment
  <1>2. Len(s.currentSeg.parts) = 0
    BY <1>1
  <1> QED BY <1>1, <1>2 DEF Latest, LatestMSN, LatestPart

LEMMA FinalizePartSound ==
    ASSUME NEW s, Filled(s)
    PROVE  LET closed == FinalizePart(s)
           IN  /\ Filled(closed.store)
               /\ closed.news = Latest(closed.store)
               /\ Later(closed.news, Latest(s))
               /\ \/ closed.store.currentSeg.dur = 0
                  \/ closed.store.currentSeg.msn = s.currentSeg.msn
  <1> DEFINE grown == AppendPart(s)
             closed == FinalizePart(s)
  <1>1. /\ Sealable(grown) /\ Filled(grown)
        /\ grown.currentSeg.msn = s.currentSeg.msn
        /\ Len(grown.currentSeg.parts) = Len(s.currentSeg.parts) + 1
    BY AppendPartSound DEF Sealable
  <1>2. /\ Filled(FinalizeSegment(grown))
        /\ FinalizeSegment(grown).currentSeg = NewSegment(s.currentSeg.msn + 1)
    BY <1>1, FinalizeSegmentSound
  <1>3. s.currentSeg.msn \in Nat
    BY LatestTypes DEF Filled
  <1>4. CASE IsFull(grown.currentSeg)
    <2>1. /\ closed.store = FinalizeSegment(grown)
          /\ closed.news = Media(s.currentSeg.msn, -1)
      BY <1>1, <1>4 DEF FinalizePart, PartNews
    <2> QED BY <2>1, <1>2, <1>3, SealedIsLater, FreshSegmentNews
  <1>5. CASE ~IsFull(grown.currentSeg)
    <2>1. /\ closed.store = grown
          /\ closed.news = Media(s.currentSeg.msn, Len(s.currentSeg.parts))
      BY <1>1, <1>5, LatestTypes DEF FinalizePart, PartNews, Filled
    <2> HIDE DEF grown, closed
    <2>2. Latest(grown) = Media(s.currentSeg.msn, Len(s.currentSeg.parts))
      BY <1>1, LatestTypes DEF Filled, Latest, LatestMSN, LatestPart
    <2>3. Later(Media(s.currentSeg.msn, Len(s.currentSeg.parts)), Latest(s))
      BY LatestTypes DEF Filled, Later, Media, LatestMSN, LatestPart
    <2> QED BY <2>1, <2>2, <2>3, <1>1 DEF closed
  <1> QED BY <1>4, <1>5

LEMMA FlushSound ==
    ASSUME NEW s, Sound(s)
    PROVE  LET flushed == FlushSegment(FlushPart(s))
           IN  Sound(flushed.store) /\ Announces(flushed.news, s, flushed.store)
  <1> DEFINE f == FlushPart(s)
             flushed == FlushSegment(f)
  <1> SUFFICES Sound(flushed.store) /\ Announces(flushed.news, s, flushed.store)
    OBVIOUS
  <1>1. /\ Sound(f.store) /\ Announces(f.news, s, f.store)
        /\ \/ f.store.currentSeg.dur = 0
           \/ f.store.currentSeg.msn = s.currentSeg.msn
    <2>1. CASE s.currentPart = NoPart
      <3>1. f.store = s /\ f.news.kind # "media"
        BY <2>1 DEF FlushPart, TheEnd
      <3> QED BY <3>1 DEF Announces
    <2>2. CASE s.currentPart # NoPart
      <3>1. Filled(s)
        BY <2>2, LatestTypes DEF Sound, Windowed, Filled
      <3>2. f = FinalizePart(s)
        BY <2>2 DEF FlushPart
      <3> QED BY <3>1, <3>2, FinalizePartSound DEF Announces, Filled
    <2> QED BY <2>1, <2>2
  <1> HIDE DEF f
  <1>2. CASE f.store.currentSeg.dur > 0
    <2>1. Sealable(f.store)
      <3>1. f.store.currentSeg.parts # <<>>
        BY <1>1, <1>2 DEF Sound
      <3>2. f.store.currentSeg # NoSegment
        BY <1>2 DEF NoSegment, NewSegment
      <3>3. f.store.currentSeg.msn \in Int /\ f.store.currentSeg.msn >= -1
        BY <1>1, LatestTypes
      <3>4. f.store.currentSeg.msn # -1
        BY <1>1, <3>2 DEF Sound, Windowed
      <3> QED BY <1>1, <3>1, <3>3, <3>4 DEF Sealable, Filled
    <2>2. f.store.currentSeg.msn = s.currentSeg.msn /\ Filled(s) /\ s.currentSeg.msn \in Nat
      BY <1>1, <1>2, <2>1, LatestTypes DEF Sealable, Filled
    <2>3. /\ flushed.store = FinalizeSegment(f.store)
          /\ flushed.news = Media(s.currentSeg.msn, -1)
      BY <1>2, <2>2 DEF FlushSegment
    <2>4. /\ Sound(flushed.store)
          /\ flushed.store.currentSeg = NewSegment(s.currentSeg.msn + 1)
      BY <2>1, <2>2, <2>3, FinalizeSegmentSound DEF Filled
    <2> QED BY <2>2, <2>3, <2>4, SealedIsLater, FreshSegmentNews DEF Announces
  <1>3. CASE ~(f.store.currentSeg.dur > 0)
    <2>1. flushed = f
      BY <1>3 DEF FlushSegment
    <2> QED BY <2>1, <1>1
  <1> QED BY <1>2, <1>3

(***************************************************************************)
(* The inductive invariant.  NotifierIsCurrent needs its second part for   *)
(* the step to NotifierOnlyAdvances: the broadcast that is owed is later   *)
(* than the last one made.                                                 *)
(***************************************************************************)
OwedIsLater ==
    owed.kind = "media" => Later(owed, Media(notifier.lastMSN, notifier.lastPart))

StoreInv == TypeOK /\ Sound(store) /\ NotifierIsCurrent /\ OwedIsLater

\* A step of the store that owes no broadcast before and Announces one after.
LEMMA AnnouncedIsCurrent ==
    ASSUME StoreInv, owed = Nothing, Sound(store'),
           Announces(owed', store, store'), owed' \in News, UNCHANGED notifier
    PROVE  NotifierIsCurrent' /\ OwedIsLater'
  <1>1. <<notifier.lastMSN, notifier.lastPart>> = <<LatestMSN(store), LatestPart(store)>>
    BY DEF StoreInv, NotifierIsCurrent, Nothing
  <1>2. CASE owed'.kind # "media" /\ Latest(store') = Latest(store)
    BY <1>1, <1>2, LatestTypes DEF StoreInv, NotifierIsCurrent, OwedIsLater, Latest, Media
  <1>3. CASE owed' = Latest(store') /\ Later(owed', Latest(store))
    BY <1>1, <1>3, LatestTypes
    DEF StoreInv, NotifierIsCurrent, OwedIsLater, Latest, Media
  <1> QED BY <1>2, <1>3 DEF Announces

LEMMA StoreInvInit == Init => StoreInv
  <1> SUFFICES ASSUME Init PROVE StoreInv
    OBVIOUS
  <1>1. TypeOK
    BY TypeInit
  <1>2. Sound(store)
    <2>1. /\ store.segments = <<>> /\ store.currentSeg = NoSegment
          /\ store.currentPart = NoPart /\ store.nextMSN = 0
          /\ NoSegment.msn = -1 /\ ~NoSegment.completed /\ NoSegment.dur = 0
      BY DEF Init, NewStore, NoSegment, NewSegment
    <2>2. Windowed(store)
      BY <2>1, StoreAssumption DEF Windowed, StoreAssumption
    <2> QED BY <1>1, <2>1, <2>2 DEF Sound, TypeOK
  <1>3. NotifierIsCurrent /\ OwedIsLater
    BY DEF Init, NewStore, NewNotifier, NotifierIsCurrent, OwedIsLater, Nothing, LatestMSN, LatestPart,
           NoSegment, NewSegment
  <1> QED BY <1>1, <1>2, <1>3 DEF StoreInv

LEMMA StoreInvNext == StoreInv /\ [Next]_vars => StoreInv'
  <1> SUFFICES ASSUME StoreInv, [Next]_vars PROVE StoreInv'
    OBVIOUS
  <1>1. TypeOK'
    BY TypeNext DEF StoreInv
  <1>2. CASE SetInit
    <2>1. Sound(store') /\ Latest(store') = Latest(store)
      BY <1>2, <1>1 DEF SetInit, StoreInv, TypeOK, Sound, Windowed, StoreRecord,
                        Latest, LatestMSN, LatestPart
    <2>2. LatestMSN(store') = LatestMSN(store) /\ LatestPart(store') = LatestPart(store)
      BY <2>1, LatestTypes DEF StoreInv
    <2> QED BY <1>1, <1>2, <2>1, <2>2 DEF SetInit, StoreInv, NotifierIsCurrent, OwedIsLater
  <1>3. ASSUME NEW frag \in Fragment, NEW lost \in SUBSET Uses, AddFragment(frag, lost)
        PROVE  StoreInv'
    <2> DEFINE fed == Accumulate(store, Len(fragments'), frag, lost)
               closed == FinalizePart(fed)
    <2>1. Len(fragments') \in Nat
      BY <1>1, LenProperties DEF TypeOK
    <2>2. Filled(fed) /\ Latest(fed) = Latest(store)
      <3>1. Filled(fed)
        BY <2>1, AccumulateSound DEF StoreInv
      <3>2. fed.currentSeg = IF store.currentSeg = NoSegment
                             THEN NewSegment(store.nextMSN) ELSE store.currentSeg
        BY DEF Accumulate, StoreInv, Sound, StoreRecord
      <3> HIDE DEF fed
      <3>3. ASSUME store.currentSeg = NoSegment PROVE Latest(fed) = Latest(store)
        <4>1. store.nextMSN = 0 /\ store.currentSeg.msn = -1
          BY <3>3 DEF StoreInv, Sound, Windowed, NoSegment, NewSegment
        <4>2. fed.currentSeg.msn = 0 /\ fed.currentSeg.parts = <<>>
              /\ store.currentSeg.parts = <<>>
          BY <3>2, <3>3, <4>1 DEF NoSegment, NewSegment
        <4> QED BY <4>1, <4>2 DEF Latest, LatestMSN, LatestPart
      <3>4. ASSUME store.currentSeg # NoSegment PROVE Latest(fed) = Latest(store)
        BY <3>2, <3>4 DEF Latest, LatestMSN, LatestPart
      <3> QED BY <3>1, <3>3, <3>4
    <2>3. Filled(closed.store) /\ closed.news = Latest(closed.store)
          /\ Later(closed.news, Latest(fed))
      <3> HIDE DEF fed
      <3> QED BY <2>2, FinalizePartSound
    <2>4. \/ store' = closed.store /\ owed' = closed.news
          \/ store' = fed /\ owed' = Nothing
      BY <1>3 DEF AddFragment
    <2> HIDE DEF fed, closed
    <2>5. Sound(store') /\ Announces(owed', store, store')
      BY <2>2, <2>3, <2>4 DEF Filled, Announces, Nothing
    <2>6. owed = Nothing /\ UNCHANGED notifier /\ owed' \in News
      BY <1>1, <1>3 DEF AddFragment, TypeOK
    <2> QED BY <1>1, <2>5, <2>6, AnnouncedIsCurrent DEF StoreInv
  <1>4. CASE Finalize
    <2> DEFINE flushed == FlushSegment(FlushPart(store))
    <2>1. Sound(flushed.store) /\ Announces(flushed.news, store, flushed.store)
      BY FlushSound DEF StoreInv
    <2>2. /\ store' = [flushed.store EXCEPT !.ended = TRUE]
          /\ owed' = flushed.news /\ owed = Nothing /\ UNCHANGED notifier
      BY <1>4 DEF Finalize
    <2> HIDE DEF flushed
    <2>3. /\ Sound(store') /\ Latest(store') = Latest(flushed.store)
      BY <1>1, <2>1, <2>2 DEF TypeOK, Sound, Windowed, StoreRecord,
                              Latest, LatestMSN, LatestPart
    <2>4. Announces(owed', store, store') /\ owed' \in News
      BY <1>1, <2>1, <2>2, <2>3 DEF Announces, TypeOK
    <2> QED BY <1>1, <2>2, <2>3, <2>4, AnnouncedIsCurrent DEF StoreInv
  <1>5. CASE Broadcast \/ BroadcastEnded
    <2>1. store' = store /\ owed' = Nothing /\ owed'.kind # "media"
      BY <1>5 DEF Broadcast, BroadcastEnded, Nothing
    <2>2. NotifierIsCurrent'
      <3>1. notifier \in [lastMSN : Int, lastPart : Int, ended : BOOLEAN]
        BY DEF StoreInv, TypeOK
      <3>2. CASE Broadcast
        BY <3>1, <3>2, <2>1 DEF Broadcast, StoreInv, NotifierIsCurrent
      <3>3. CASE BroadcastEnded
        BY <3>1, <3>3, <2>1 DEF BroadcastEnded, StoreInv, NotifierIsCurrent
      <3> QED BY <1>5, <3>2, <3>3
    <2> QED BY <1>1, <2>1, <2>2 DEF StoreInv, OwedIsLater
  <1>6. CASE UNCHANGED vars
    BY <1>6, <1>1 DEF vars, StoreInv, NotifierIsCurrent, OwedIsLater
  <1> QED BY <1>2, <1>3, <1>4, <1>5, <1>6 DEF Next

(***************************************************************************)
(* Segment numbers are handed out once each and the window is a row of     *)
(* consecutive completed segments, for any durations and window.           *)
(***************************************************************************)
THEOREM WindowConsecutive == Spec => []WindowIsConsecutive
  <1>1. StoreInv => WindowIsConsecutive
    BY DEF StoreInv, Sound, WindowIsConsecutive
  <1> QED BY <1>1, StoreInvInit, StoreInvNext, PTL DEF Spec

(***************************************************************************)
(* The notifier, or the broadcast owed to it, names the newest media.      *)
(***************************************************************************)
THEOREM NotifierCurrent == Spec => []NotifierIsCurrent
  <1>1. StoreInv => NotifierIsCurrent
    BY DEF StoreInv
  <1> QED BY <1>1, StoreInvInit, StoreInvNext, PTL DEF Spec

(***************************************************************************)
(* What the notifier announces only advances.                              *)
(***************************************************************************)
THEOREM NotifierAdvances == Spec => NotifierOnlyAdvances
  <1> DEFINE Advances ==
        /\ notifier.ended => notifier'.ended
        /\ \/ notifier'.lastMSN = notifier.lastMSN /\ notifier'.lastPart = notifier.lastPart
           \/ Later(Media(notifier'.lastMSN, notifier'.lastPart),
                    Media(notifier.lastMSN, notifier.lastPart))
  <1>1. StoreInv /\ [Next]_vars => [Advances]_vars
    <2> SUFFICES ASSUME StoreInv, Next PROVE Advances
      OBVIOUS
    <2>1. CASE Broadcast
      BY <2>1 DEF Broadcast, StoreInv, TypeOK, OwedIsLater, Later, Media
    <2>2. CASE BroadcastEnded
      BY <2>2 DEF BroadcastEnded, StoreInv, TypeOK
    <2>3. CASE UNCHANGED notifier
      BY <2>3
    <2> QED BY <2>1, <2>2, <2>3 DEF Next, SetInit, AddFragment, Finalize
  <1> QED BY <1>1, StoreInvInit, StoreInvNext, PTL DEF Spec, NotifierOnlyAdvances

-----------------------------------------------------------------------------
(* How the operations change the fields of a store.                        *)

LEMMA AccumulateFields ==
    ASSUME NEW s \in StoreRecord, NEW id \in Nat,
           NEW frag \in Fragment, NEW lost \in SUBSET Uses
    PROVE  LET fed == Accumulate(s, id, frag, lost)
               acc == IF s.currentPart = NoPart THEN NewPart(frag.key) ELSE s.currentPart
           IN  /\ fed.segments = s.segments
               /\ fed.currentSeg = IF s.currentSeg = NoSegment
                                   THEN NewSegment(s.nextMSN) ELSE s.currentSeg
               /\ acc \in PartAccumulator
               /\ fed.currentPart.data = Append(acc.data, id)
               /\ fed.currentPart.ticks = acc.ticks + frag.ticks
               /\ fed.ended = s.ended
  <1>1. frag.key \in BOOLEAN
    BY StoreAssumption DEF StoreAssumption, Fragment
  <1>2. NewPart(frag.key) \in PartAccumulator /\ s.currentPart \in PartAccumulator
    BY <1>1, FreshPartType, StoreFields
  <1> QED BY <1>2 DEF Accumulate, StoreRecord, PartAccumulator

LEMMA AppendPartFields ==
    ASSUME NEW s \in StoreRecord
    PROVE  LET grown == AppendPart(s)
               part == ClosedPart(s)
           IN  /\ grown.segments = s.segments
               /\ grown.currentPart = NoPart
               /\ grown.ended = s.ended
               /\ grown.currentSeg.dur = s.currentSeg.dur + part.dur
               /\ grown.currentSeg.parts = Append(s.currentSeg.parts, part)
               /\ grown.currentSeg.data = s.currentSeg.data \o part.data
               /\ grown.currentSeg.msn = s.currentSeg.msn
               /\ part.data = s.currentPart.data
               /\ part.dur = Milliseconds(s.currentPart)
  <1>1. s.currentSeg \in Segment
    BY StoreFields
  <1> QED BY <1>1 DEF AppendPart, Extended, ClosedPart, StoreRecord, Segment

\* What a segment is when it enters the window.
Done(seg) == [seg EXCEPT !.completed = TRUE]

LEMMA FinalizeSegmentFields ==
    ASSUME NEW s \in StoreRecord
    PROVE  LET next == FinalizeSegment(s)
           IN  /\ next.segments = TrimWindow(Append(s.segments, Done(s.currentSeg)))
               /\ next.currentSeg = NewSegment(s.nextMSN)
               /\ next.currentPart = s.currentPart
               /\ next.ended = s.ended
  BY DEF FinalizeSegment, Done, StoreRecord

LEMMA FinalizePartEnded ==
    ASSUME NEW s, Filled(s)
    PROVE  FinalizePart(s).store.ended = s.ended
  <1>1. AppendPart(s) \in StoreRecord /\ AppendPart(s).ended = s.ended
    BY AppendPartType, AppendPartFields DEF Filled, Sound
  <1>2. FinalizeSegment(AppendPart(s)).ended = s.ended
    BY <1>1, FinalizeSegmentFields
  <1> QED BY <1>1, <1>2 DEF FinalizePart

LEMMA DoneFields ==
    ASSUME NEW seg \in Segment
    PROVE  /\ Done(seg) \in Segment
           /\ Done(seg).dur = seg.dur /\ Done(seg).parts = seg.parts
           /\ Done(seg).data = seg.data /\ Done(seg).msn = seg.msn
  BY DEF Done, Segment

\* The window after a segment was completed: it lost its first segment or none.
LEMMA WindowMoves ==
    ASSUME NEW segs \in Seq(Segment), NEW seg \in Segment
    PROVE  LET next == TrimWindow(Append(segs, seg))
           IN  \E k \in {0, 1} :
                 /\ Len(next) = Len(segs) + 1 - k
                 /\ \A i \in 1 .. Len(next) :
                       /\ i + k \in 1 .. Len(segs) + 1
                       /\ next[i] = IF i + k = Len(segs) + 1 THEN seg ELSE segs[i + k]
  <1> DEFINE all == Append(segs, seg)
             next == TrimWindow(all)
  <1>1. /\ all \in Seq(Segment) /\ all # <<>> /\ Len(all) = Len(segs) + 1
        /\ Len(segs) \in Nat
        /\ \A i \in 1 .. Len(segs) : all[i] = segs[i]
        /\ all[Len(segs) + 1] = seg
    BY AppendProperties, LenProperties
  <1> HIDE DEF all
  <1>2. CASE Len(all) >= PlaylistWindow
    <2>1. next = Tail(all)
      BY <1>2 DEF TrimWindow
    <2>2. Len(next) = Len(segs) /\ \A i \in 1 .. Len(next) : next[i] = all[i + 1]
      BY <1>1, <2>1, HeadTailProperties
    <2> HIDE DEF next
    <2>3. \A i \in 1 .. Len(next) :
             /\ i + 1 \in 1 .. Len(segs) + 1
             /\ next[i] = IF i + 1 = Len(segs) + 1 THEN seg ELSE segs[i + 1]
      BY <1>1, <2>2
    <2>4. Len(next) = Len(segs) + 1 - 1
      BY <1>1, <2>2
    <2> QED BY <2>3, <2>4 DEF next, all
  <1>3. CASE ~(Len(all) >= PlaylistWindow)
    <2>1. next = all
      BY <1>3 DEF TrimWindow
    <2>2. \A i \in 1 .. Len(next) :
             /\ i + 0 \in 1 .. Len(segs) + 1
             /\ next[i] = IF i + 0 = Len(segs) + 1 THEN seg ELSE segs[i + 0]
      BY <1>1, <2>1
    <2>3. Len(next) = Len(segs) + 1 - 0
      BY <1>1, <2>1
    <2> QED BY <2>2, <2>3 DEF all
  <1> QED BY <1>2, <1>3

\* What holds of the segments of the window and of the completed one holds of
\* the segments of the next window.
LEMMA WindowKeeps ==
    ASSUME NEW segs \in Seq(Segment), NEW seg \in Segment, NEW Good,
           seg \in Good, \A i \in DOMAIN segs : segs[i] \in Good
    PROVE  LET next == TrimWindow(Append(segs, seg))
           IN  \A i \in DOMAIN next : next[i] \in Good
  <1> DEFINE next == TrimWindow(Append(segs, seg))
  <1>1. next \in Seq(Segment)
    <2>1. Append(segs, seg) \in Seq(Segment) /\ Append(segs, seg) # <<>>
      BY AppendProperties
    <2> QED BY <2>1, TrimWindowType
  <1> HIDE DEF next
  <1>2. PICK k \in {0, 1} :
              \A i \in 1 .. Len(next) :
                 /\ i + k \in 1 .. Len(segs) + 1
                 /\ next[i] = IF i + k = Len(segs) + 1 THEN seg ELSE segs[i + k]
    BY WindowMoves DEF next
  <1>3. DOMAIN next = 1 .. Len(next) /\ DOMAIN segs = 1 .. Len(segs) /\ Len(segs) \in Nat
        /\ Len(next) \in Nat
    BY <1>1, LenProperties
  <1>4. ASSUME NEW i \in DOMAIN next PROVE next[i] \in Good
    <2>1. /\ i + k \in 1 .. Len(segs) + 1
          /\ next[i] = IF i + k = Len(segs) + 1 THEN seg ELSE segs[i + k]
      BY <1>2, <1>3
    <2>2. CASE i + k = Len(segs) + 1
      BY <2>1, <2>2
    <2>3. CASE i + k # Len(segs) + 1
      BY <2>1, <2>3, <1>3
    <2> QED BY <2>2, <2>3
  <1> QED BY <1>4 DEF next

\* What Finalize's second step looks at tells whether there is a part.
LEMMA HasDuration ==
    ASSUME NEW s, Sound(s), s.currentSeg.dur > 0
    PROVE  Sealable(s)
  <1>1. s.currentSeg.parts # <<>>
    BY DEF Sound
  <1>2. s.currentSeg # NoSegment
    BY DEF NoSegment, NewSegment
  <1>3. s.currentSeg.msn \in Int /\ s.currentSeg.msn >= -1 /\ s.currentSeg.msn # -1
    BY <1>2, LatestTypes DEF Sound, Windowed
  <1> QED BY <1>1, <1>3 DEF Sealable, Filled

-----------------------------------------------------------------------------
(* How long segments get.                                                  *)

Overshoots(seg) == seg.dur - LastOf(seg.parts).dur >= SegmentDurationMs

WithinOnePart == {seg \in Segment : ~Overshoots(seg)}
LongEnough == {seg \in Segment : IsFull(seg)}

Short(s) ==
    /\ s.currentSeg.dur < SegmentDurationMs
    /\ \A i \in DOMAIN s.segments : s.segments[i] \in WithinOnePart

Long(s) == \A i \in DOMAIN s.segments : s.segments[i] \in LongEnough

LEMMA AppendPartShort ==
    ASSUME NEW s, Filled(s), Short(s)
    PROVE  AppendPart(s).currentSeg \in WithinOnePart
  <1> DEFINE grown == AppendPart(s)
             part == ClosedPart(s)
  <1>1. /\ s \in StoreRecord /\ grown \in StoreRecord /\ part \in Part
        /\ s.currentSeg \in Segment /\ grown.currentSeg \in Segment
    BY AppendPartType, ClosedPartType, StoreFields DEF Filled, Sound
  <1>2. /\ grown.currentSeg.dur = s.currentSeg.dur + part.dur
        /\ grown.currentSeg.parts = Append(s.currentSeg.parts, part)
    BY <1>1, AppendPartFields
  <1> HIDE DEF grown, part
  <1>3. LastOf(grown.currentSeg.parts) = part
    BY <1>1, <1>2, AppendProperties, LenProperties DEF LastOf, Segment
  <1>4. s.currentSeg.dur \in Nat /\ part.dur \in Nat /\ SegmentDurationMs \in Nat
    BY <1>1, StoreAssumption DEF StoreAssumption, Segment, Part
  <1>5. ~Overshoots(grown.currentSeg)
    BY <1>2, <1>3, <1>4 DEF Overshoots, Short
  <1> QED BY <1>1, <1>5 DEF WithinOnePart, grown

\* A current segment no longer than the target less than the last part.
LEMMA ShortIsWithin ==
    ASSUME NEW s, Sealable(s), Short(s)
    PROVE  s.currentSeg \in WithinOnePart
  <1>1. s.currentSeg \in Segment /\ s.currentSeg.parts # <<>>
    BY StoreFields DEF Sealable, Filled, Sound
  <1>2. LastOf(s.currentSeg.parts) \in Part
    <2>1. s.currentSeg.parts \in Seq(Part) /\ Len(s.currentSeg.parts) \in Nat \ {0}
      BY <1>1, EmptySeq DEF Segment
    <2> QED BY <2>1, ElementOfSeq DEF LastOf
  <1>3. s.currentSeg.dur \in Nat /\ LastOf(s.currentSeg.parts).dur \in Nat
    BY <1>1, <1>2 DEF Segment, Part
  <1>4. ~Overshoots(s.currentSeg)
    BY <1>3, StoreAssumption DEF Short, Overshoots, StoreAssumption
  <1> QED BY <1>1, <1>4 DEF WithinOnePart

LEMMA FinalizeSegmentShort ==
    ASSUME NEW s, Sealable(s), s.currentSeg \in WithinOnePart,
           \A i \in DOMAIN s.segments : s.segments[i] \in WithinOnePart
    PROVE  /\ Short(FinalizeSegment(s))
           /\ Long(s) /\ IsFull(s.currentSeg) => Long(FinalizeSegment(s))
  <1> DEFINE next == FinalizeSegment(s)
             done == Done(s.currentSeg)
  <1>1. s \in StoreRecord /\ s.currentSeg \in Segment /\ s.segments \in Seq(Segment)
    BY StoreFields DEF Sealable, Filled, Sound
  <1>2. /\ next.segments = TrimWindow(Append(s.segments, done))
        /\ next.currentSeg = NewSegment(s.nextMSN)
    BY <1>1, FinalizeSegmentFields
  <1>3. /\ done \in Segment /\ done.dur = s.currentSeg.dur
        /\ done.parts = s.currentSeg.parts
    BY <1>1, DoneFields
  <1> HIDE DEF next, done
  <1>4. done \in WithinOnePart
    BY <1>3 DEF WithinOnePart, Overshoots
  <1>5. \A i \in DOMAIN next.segments : next.segments[i] \in WithinOnePart
    BY <1>1, <1>2, <1>3, <1>4, WindowKeeps
  <1>6. next.currentSeg.dur < SegmentDurationMs
    BY <1>2, StoreAssumption DEF NewSegment, StoreAssumption
  <1>7. ASSUME Long(s), IsFull(s.currentSeg) PROVE Long(next)
    <2>1. done \in LongEnough
      BY <1>3, <1>7 DEF LongEnough, IsFull
    <2>2. \A i \in DOMAIN next.segments : next.segments[i] \in LongEnough
      BY <1>1, <1>2, <1>3, <1>7, <2>1, WindowKeeps DEF Long
    <2> QED BY <2>2 DEF Long
  <1> QED BY <1>5, <1>6, <1>7 DEF Short, next

LEMMA FinalizePartShort ==
    ASSUME NEW s, Filled(s), Short(s)
    PROVE  /\ Short(FinalizePart(s).store)
           /\ Long(s) => Long(FinalizePart(s).store)
  <1> DEFINE grown == AppendPart(s)
             closed == FinalizePart(s).store
  <1>1. Sealable(grown) /\ grown.currentSeg \in WithinOnePart
    BY AppendPartSound, AppendPartShort
  <1>2. grown.segments = s.segments /\ grown \in StoreRecord
    BY AppendPartFields, AppendPartType DEF Filled, Sound
  <1>3. closed = IF IsFull(grown.currentSeg) THEN FinalizeSegment(grown) ELSE grown
    BY DEF FinalizePart
  <1> HIDE DEF grown, closed
  <1>4. CASE IsFull(grown.currentSeg)
    <2>1. Short(FinalizeSegment(grown)) /\ (Long(grown) => Long(FinalizeSegment(grown)))
      BY <1>1, <1>2, <1>4, FinalizeSegmentShort DEF Short
    <2> QED BY <1>2, <1>3, <1>4, <2>1 DEF Long, closed
  <1>5. CASE ~IsFull(grown.currentSeg)
    <2>1. grown.currentSeg.dur < SegmentDurationMs
      <3>1. grown.currentSeg.dur \in Nat
        BY <1>2, StoreFields DEF Segment
      <3> QED BY <1>5, <3>1, StoreAssumption DEF IsFull, StoreAssumption
    <2> QED BY <1>2, <1>3, <1>5, <2>1 DEF Short, Long, closed
  <1> QED BY <1>4, <1>5

LEMMA FlushShort ==
    ASSUME NEW s, Sound(s), Short(s)
    PROVE  Short(FlushSegment(FlushPart(s)).store)
  <1> DEFINE f == FlushPart(s)
  <1>1. Sound(f.store) /\ Short(f.store)
    <2>1. CASE s.currentPart = NoPart
      BY <2>1 DEF FlushPart
    <2>2. CASE s.currentPart # NoPart
      <3>1. Filled(s)
        BY <2>2, LatestTypes DEF Sound, Windowed, Filled
      <3>2. f = FinalizePart(s)
        BY <2>2 DEF FlushPart
      <3> QED BY <3>1, <3>2, FinalizePartSound, FinalizePartShort DEF Filled
    <2> QED BY <2>1, <2>2
  <1> HIDE DEF f
  <1>2. CASE f.store.currentSeg.dur > 0
    <2>1. Sealable(f.store)
      BY <1>1, <1>2, HasDuration
    <2>2. f.store.currentSeg \in WithinOnePart
      BY <1>1, <2>1, ShortIsWithin
    <2> QED BY <1>1, <1>2, <2>1, <2>2, FinalizeSegmentShort DEF FlushSegment, Short, f
  <1>3. CASE ~(f.store.currentSeg.dur > 0)
    BY <1>1, <1>3 DEF FlushSegment, f
  <1> QED BY <1>2, <1>3

ShortInv ==
    /\ StoreInv
    /\ Short(store)
    /\ ~store.ended => Long(store)

LEMMA ShortInvInit == Init => ShortInv
  <1> SUFFICES ASSUME Init PROVE ShortInv
    OBVIOUS
  <1>1. StoreInv
    BY StoreInvInit
  <1>2. store.segments = <<>> /\ store.currentSeg.dur = 0
    BY DEF Init, NewStore, NoSegment, NewSegment
  <1> QED BY <1>1, <1>2, StoreAssumption DEF ShortInv, Short, Long, StoreAssumption

LEMMA ShortInvNext == ShortInv /\ [Next]_vars => ShortInv'
  <1> SUFFICES ASSUME ShortInv, [Next]_vars PROVE ShortInv'
    OBVIOUS
  <1>1. StoreInv' /\ StoreInv /\ Sound(store) /\ Short(store) /\ store \in StoreRecord
    BY StoreInvNext DEF ShortInv, StoreInv, Sound
  <1>2. CASE SetInit
    BY <1>1, <1>2 DEF SetInit, ShortInv, StoreRecord, Short, Long
  <1>3. ASSUME NEW frag \in Fragment, NEW lost \in SUBSET Uses, AddFragment(frag, lost)
        PROVE  ShortInv'
    <2> DEFINE fed == Accumulate(store, Len(fragments'), frag, lost)
    <2>1. Len(fragments') \in Nat
      BY <1>1, LenProperties DEF StoreInv, TypeOK
    <2>2. Filled(fed)
      BY <1>1, <2>1, AccumulateSound
    <2>3. /\ fed.segments = store.segments /\ fed.ended = store.ended
          /\ fed.currentSeg = IF store.currentSeg = NoSegment
                              THEN NewSegment(store.nextMSN) ELSE store.currentSeg
      BY <1>1, <2>1, AccumulateFields
    <2>4. ~store.ended /\ (store' = FinalizePart(fed).store \/ store' = fed)
      BY <1>3 DEF AddFragment
    <2> HIDE DEF fed
    <2>5. Short(fed) /\ Long(fed)
      BY <1>1, <2>3, <2>4, StoreAssumption
      DEF ShortInv, Short, Long, NewSegment, StoreAssumption
    <2>6. Short(FinalizePart(fed).store) /\ Long(FinalizePart(fed).store)
      BY <2>2, <2>5, FinalizePartShort
    <2> QED BY <1>1, <2>4, <2>5, <2>6 DEF ShortInv
  <1>4. CASE Finalize
    <2> DEFINE flushed == FlushSegment(FlushPart(store)).store
    <2>1. store' = [flushed EXCEPT !.ended = TRUE]
      BY <1>4 DEF Finalize
    <2>2. flushed \in StoreRecord /\ Short(flushed)
      BY <1>1, FlushType, FlushShort
    <2> HIDE DEF flushed
    <2>3. Short(store') /\ store'.ended
      BY <2>1, <2>2 DEF Short, StoreRecord
    <2> QED BY <1>1, <2>3 DEF ShortInv
  <1>5. CASE Broadcast \/ BroadcastEnded \/ UNCHANGED vars
    BY <1>1, <1>5 DEF Broadcast, BroadcastEnded, vars, ShortInv
  <1> QED BY <1>2, <1>3, <1>4, <1>5 DEF Next

(***************************************************************************)
(* A segment exceeds its target by no more than its last part, whatever    *)
(* the durations of fragments, parts and segments; and short ones appear   *)
(* only at the end of the stream.                                          *)
(***************************************************************************)
THEOREM OvershootBounded == Spec => []OvershootAtMostOnePart
  <1>1. ShortInv => OvershootAtMostOnePart
    <2> SUFFICES ASSUME ShortInv PROVE OvershootAtMostOnePart
      OBVIOUS
    <2>1. store.currentSeg.dur < SegmentDurationMs
      BY DEF ShortInv, Short
    <2>2. ASSUME NEW i \in DOMAIN store.segments
          PROVE  LET seg == store.segments[i]
                 IN  /\ seg.dur - LastOf(seg.parts).dur < SegmentDurationMs
                     /\ ~store.ended => seg.dur >= SegmentDurationMs
      <3> DEFINE seg == store.segments[i]
      <3>1. seg \in WithinOnePart /\ (~store.ended => seg \in LongEnough)
        BY DEF ShortInv, Short, Long
      <3>2. seg \in Segment /\ seg.parts # <<>>
        <4>1. Windowed(store) /\ i \in 1 .. Len(store.segments)
          BY LenProperties, StoreFields DEF ShortInv, StoreInv, Sound
        <4> QED BY <3>1, <4>1 DEF WithinOnePart, Windowed
      <3> HIDE DEF seg
      <3>3. LastOf(seg.parts).dur \in Nat /\ seg.dur \in Nat
        <4>1. seg.parts \in Seq(Part) /\ Len(seg.parts) \in Nat \ {0}
          BY <3>2, EmptySeq DEF Segment
        <4>2. LastOf(seg.parts) \in Part
          BY <4>1, ElementOfSeq DEF LastOf
        <4> QED BY <3>2, <4>2 DEF Segment, Part
      <3>4. seg.dur - LastOf(seg.parts).dur < SegmentDurationMs
        BY <3>1, <3>3, StoreAssumption DEF WithinOnePart, Overshoots, StoreAssumption
      <3> QED BY <3>1, <3>4 DEF LongEnough, IsFull, seg
    <2> QED BY <2>1, <2>2 DEF OvershootAtMostOnePart
  <1> QED BY <1>1, ShortInvInit, ShortInvNext, PTL DEF Spec

-----------------------------------------------------------------------------
(* How the stream ends.  Finalize completes the current segment only if    *)
(* its duration, in truncated milliseconds, is positive.                   *)

NoneTooShort == \A d \in FragmentDurations : d > TicksPerMs

Timed(s) ==
    /\ s.currentPart # NoPart => s.currentPart.ticks > TicksPerMs
    /\ s.currentSeg.parts # <<>> => s.currentSeg.dur > 0

Sealed(s) == s.currentPart = NoPart /\ s.currentSeg.parts = <<>>

LEMMA AMillisecondCounts ==
    ASSUME NEW acc \in PartAccumulator, acc.ticks > TicksPerMs
    PROVE  Milliseconds(acc) > 0
  <1> DEFINE sum == SumRead(acc, "ms")
  <1>1. TicksPerMs \in Nat \ {0}
    BY StoreAssumption DEF StoreAssumption
  <1>2. sum \in Nat /\ sum >= TicksPerMs
    BY <1>1, SumReadBounds
  <1> HIDE DEF sum
  <1>3. sum \div TicksPerMs > 0
    BY <1>1, <1>2, SMT
  <1> QED BY <1>3 DEF Milliseconds, sum

LEMMA AccumulateTimed ==
    ASSUME NEW s, Sound(s), Timed(s), NEW id \in Nat,
           NEW frag \in Fragment, NEW lost \in SUBSET Uses, NoneTooShort
    PROVE  /\ Timed(Accumulate(s, id, frag, lost))
           /\ Accumulate(s, id, frag, lost).currentPart # NoPart
  <1> DEFINE fed == Accumulate(s, id, frag, lost)
             acc == IF s.currentPart = NoPart THEN NewPart(frag.key) ELSE s.currentPart
  <1>1. frag.ticks \in Nat /\ frag.ticks > TicksPerMs /\ TicksPerMs \in Nat \ {0}
    BY StoreAssumption DEF StoreAssumption, Fragment, NoneTooShort
  <1>2. /\ fed.currentSeg = IF s.currentSeg = NoSegment
                            THEN NewSegment(s.nextMSN) ELSE s.currentSeg
        /\ acc \in PartAccumulator /\ fed.currentPart.ticks = acc.ticks + frag.ticks
    BY AccumulateFields DEF Sound
  <1> HIDE DEF fed, acc
  <1>3. acc.ticks \in Nat
    BY <1>2 DEF PartAccumulator
  <1>4. fed.currentPart.ticks > TicksPerMs /\ fed.currentPart.ticks # 0
    BY <1>1, <1>2, <1>3
  <1>5. fed.currentPart # NoPart
    BY <1>4 DEF NoPart, NewPart
  <1>6. fed.currentSeg.parts # <<>> => fed.currentSeg.dur > 0
    BY <1>2 DEF Timed, NewSegment
  <1> QED BY <1>4, <1>5, <1>6 DEF Timed, fed

LEMMA FinalizePartTimed ==
    ASSUME NEW s, Filled(s), Timed(s), s.currentPart # NoPart
    PROVE  Timed(FinalizePart(s).store) /\ FinalizePart(s).store.currentPart = NoPart
  <1> DEFINE grown == AppendPart(s)
             closed == FinalizePart(s).store
  <1>1. s \in StoreRecord /\ grown \in StoreRecord
    BY AppendPartType DEF Filled, Sound
  <1>2. /\ grown.currentPart = NoPart
        /\ grown.currentSeg.dur = s.currentSeg.dur + Milliseconds(s.currentPart)
    BY <1>1, AppendPartFields
  <1>3. /\ FinalizeSegment(grown).currentSeg = NewSegment(grown.nextMSN)
        /\ FinalizeSegment(grown).currentPart = grown.currentPart
    BY <1>1, FinalizeSegmentFields
  <1>4. closed = IF IsFull(grown.currentSeg) THEN FinalizeSegment(grown) ELSE grown
    BY DEF FinalizePart
  <1> HIDE DEF grown, closed
  <1>5. grown.currentSeg.dur > 0
    <2>1. s.currentSeg.dur \in Nat /\ s.currentPart \in PartAccumulator
      BY <1>1, StoreFields DEF Segment
    <2>2. Milliseconds(s.currentPart) > 0 /\ Milliseconds(s.currentPart) \in Nat
      BY <2>1, AMillisecondCounts, MillisecondsType DEF Timed
    <2> QED BY <1>2, <2>1, <2>2
  <1>6. NewSegment(grown.nextMSN).parts = <<>>
    BY DEF NewSegment
  <1> QED BY <1>2, <1>3, <1>4, <1>5, <1>6 DEF Timed, closed

LEMMA FlushSealed ==
    ASSUME NEW s, Sound(s), Timed(s)
    PROVE  Sealed(FlushSegment(FlushPart(s)).store)
  <1> DEFINE f == FlushPart(s)
  <1>1. Sound(f.store) /\ Timed(f.store) /\ f.store.currentPart = NoPart
    <2>1. CASE s.currentPart = NoPart
      BY <2>1 DEF FlushPart
    <2>2. CASE s.currentPart # NoPart
      <3>1. Filled(s)
        BY <2>2, LatestTypes DEF Sound, Windowed, Filled
      <3>2. f = FinalizePart(s)
        BY <2>2 DEF FlushPart
      <3> QED BY <2>2, <3>1, <3>2, FinalizePartSound, FinalizePartTimed DEF Filled
    <2> QED BY <2>1, <2>2
  <1> HIDE DEF f
  <1>2. CASE f.store.currentSeg.dur > 0
    <2>1. /\ FinalizeSegment(f.store).currentSeg = NewSegment(f.store.nextMSN)
          /\ FinalizeSegment(f.store).currentPart = NoPart
      BY <1>1, FinalizeSegmentFields DEF Sound
    <2> QED BY <1>2, <2>1 DEF FlushSegment, Sealed, NewSegment, f
  <1>3. CASE ~(f.store.currentSeg.dur > 0)
    BY <1>1, <1>3 DEF FlushSegment, Timed, Sealed, f
  <1> QED BY <1>2, <1>3

EndInv ==
    /\ StoreInv
    /\ NoneTooShort => Timed(store) /\ (store.ended => Sealed(store))

LEMMA EndInvInit == Init => EndInv
  <1> SUFFICES ASSUME Init PROVE EndInv
    OBVIOUS
  <1>1. /\ store.currentPart = NoPart /\ store.currentSeg.parts = <<>> /\ ~store.ended
    BY DEF Init, NewStore, NoSegment, NewSegment
  <1> QED BY <1>1, StoreInvInit DEF EndInv, Timed

LEMMA EndInvNext == EndInv /\ [Next]_vars => EndInv'
  <1> SUFFICES ASSUME EndInv, [Next]_vars PROVE EndInv'
    OBVIOUS
  <1>1. StoreInv' /\ StoreInv /\ Sound(store) /\ store \in StoreRecord
    BY StoreInvNext DEF EndInv, StoreInv, Sound
  <1> SUFFICES ASSUME NoneTooShort
               PROVE  Timed(store') /\ (store'.ended => Sealed(store'))
    BY <1>1 DEF EndInv
  <1>2. Timed(store) /\ (store.ended => Sealed(store))
    BY DEF EndInv
  <1>3. CASE SetInit
    BY <1>1, <1>2, <1>3 DEF SetInit, StoreRecord, Timed, Sealed
  <1>4. ASSUME NEW frag \in Fragment, NEW lost \in SUBSET Uses, AddFragment(frag, lost)
        PROVE  Timed(store') /\ ~store'.ended
    <2> DEFINE fed == Accumulate(store, Len(fragments'), frag, lost)
    <2>1. Len(fragments') \in Nat
      BY <1>1, LenProperties DEF StoreInv, TypeOK
    <2>2. Filled(fed) /\ Timed(fed) /\ fed.currentPart # NoPart
      BY <1>1, <1>2, <2>1, AccumulateSound, AccumulateTimed
    <2>3. fed.ended = store.ended
      BY <1>1, <2>1, AccumulateFields
    <2>4. ~store.ended /\ (store' = FinalizePart(fed).store \/ store' = fed)
      BY <1>4 DEF AddFragment
    <2> HIDE DEF fed
    <2>5. Timed(FinalizePart(fed).store) /\ FinalizePart(fed).store.ended = fed.ended
      BY <2>2, FinalizePartTimed, FinalizePartEnded
    <2> QED BY <2>2, <2>3, <2>4, <2>5
  <1>5. CASE Finalize
    <2> DEFINE flushed == FlushSegment(FlushPart(store)).store
    <2>1. store' = [flushed EXCEPT !.ended = TRUE]
      BY <1>5 DEF Finalize
    <2>2. flushed \in StoreRecord /\ Sealed(flushed)
      BY <1>1, <1>2, FlushType, FlushSealed
    <2> HIDE DEF flushed
    <2>3. Sealed(store')
      BY <2>1, <2>2 DEF Sealed, StoreRecord
    <2> QED BY <2>3 DEF Sealed, Timed
  <1>6. CASE Broadcast \/ BroadcastEnded \/ UNCHANGED vars
    BY <1>2, <1>6 DEF Broadcast, BroadcastEnded, vars
  <1> QED BY <1>3, <1>4, <1>5, <1>6 DEF Next

(***************************************************************************)
(* Finalize leaves nothing behind, given fragments of at least a           *)
(* millisecond, whatever the part and the segment duration.                *)
(***************************************************************************)
THEOREM EndedSealed == Spec => []EndedMeansSealed
  <1>1. EndInv => EndedMeansSealed
    BY DEF EndInv, EndedMeansSealed, NoneTooShort, Sealed
  <1> QED BY <1>1, EndInvInit, EndInvNext, PTL DEF Spec

-----------------------------------------------------------------------------
(* What a playlist shows: the oldest number follows from the current one   *)
(* and the length of the window.                                           *)

LEMMA CurrentIs ==
    ASSUME NEW s, Sound(s)
    PROVE  /\ s.currentSeg.msn \in Int /\ s.currentSeg.msn >= -1
           /\ Len(s.segments) \in Nat /\ DOMAIN s.segments = 1 .. Len(s.segments)
           /\ s.currentSeg = NoSegment <=> s.currentSeg.msn = -1
           /\ GetCurrentMSN(s) = IF s.currentSeg.msn = -1 THEN 0 ELSE s.currentSeg.msn
  <1>1. s.currentSeg.msn \in Int /\ s.currentSeg.msn >= -1
    BY LatestTypes
  <1>2. Len(s.segments) \in Nat /\ DOMAIN s.segments = 1 .. Len(s.segments)
    BY StoreFields, LenProperties DEF Sound
  <1>3. s.currentSeg = NoSegment <=> s.currentSeg.msn = -1
    BY DEF Sound, Windowed, NoSegment, NewSegment
  <1>4. s.currentSeg.msn = -1 => s.nextMSN = 0
    BY DEF Sound, Windowed
  <1> QED BY <1>1, <1>2, <1>3, <1>4 DEF GetCurrentMSN

LEMMA OldestByLength ==
    ASSUME NEW s, Sound(s)
    PROVE  OldestMSN(s) = GetCurrentMSN(s) - Len(s.segments)
  <1> DEFINE cur == s.currentSeg.msn
             len == Len(s.segments)
             old == OldestMSN(s)
  <1>1. /\ cur \in Int /\ len \in Nat /\ GetCurrentMSN(s) \in Int
        /\ s.segments \in Seq(Segment)
    BY CurrentIs, StoreFields DEF Sound
  <1>2. CASE s.segments = <<>>
    <2>1. len = 0 /\ old = GetCurrentMSN(s)
      BY <1>2 DEF OldestMSN
    <2> QED BY <1>1, <2>1
  <1>3. CASE s.segments # <<>>
    <2>1. 1 \in 1 .. len /\ cur # -1
      BY <1>1, <1>3, EmptySeq DEF Sound, Windowed
    <2>2. old = cur - len + 1 - 1
      BY <1>3, <2>1 DEF OldestMSN, Sound, Windowed
    <2>3. GetCurrentMSN(s) = cur
      BY <2>1, CurrentIs
    <2> HIDE DEF cur, len, old
    <2> QED BY <1>1, <2>2, <2>3 DEF old, len
  <1> QED BY <1>2, <1>3

\* A part is shown by the current segment or by one of the window.
Shows(seg, p) == \E j \in DOMAIN seg.parts : p = <<seg.msn, seg.parts[j]>>

LEMMA PublishedBy ==
    ASSUME NEW s, NEW p
    PROVE  p \in Published(s) <=> \/ Shows(s.currentSeg, p)
                                  \/ \E i \in DOMAIN s.segments : Shows(s.segments[i], p)
  BY DEF Published, Shows

\* The view depends on three fields only.
LEMMA SameView ==
    ASSUME NEW s, NEW t, t.segments = s.segments, t.currentSeg = s.currentSeg,
           t.nextMSN = s.nextMSN
    PROVE  OldestMSN(t) = OldestMSN(s) /\ Published(t) = Published(s)
  BY DEF OldestMSN, GetCurrentMSN, Published

-----------------------------------------------------------------------------
(* The view grows by parts of the current segment, then loses the parts of *)
(* at most one segment, the oldest.                                        *)

Grows(s, t) ==
    /\ OldestMSN(t) = OldestMSN(s)
    /\ Published(s) \subseteq Published(t)
    /\ \A p \in Published(t) \ Published(s) : p[1] = GetCurrentMSN(s)

Trims(s, t) ==
    /\ OldestMSN(t) - OldestMSN(s) \in {0, 1}
    /\ Published(t) \subseteq Published(s)
    /\ \A p \in Published(s) : p[1] >= OldestMSN(t) => p \in Published(t)

Slides(s, t) ==
    /\ OldestMSN(t) - OldestMSN(s) \in {0, 1}
    /\ \A p \in Published(s) : p[1] >= OldestMSN(t) => p \in Published(t)
    /\ \A p \in Published(t) \ Published(s) : p[1] = GetCurrentMSN(s)

LEMMA OldestIsNumber ==
    ASSUME NEW s, Sound(s)
    PROVE  OldestMSN(s) \in Int
  BY OldestByLength, CurrentIs

LEMMA GrowsSlides ==
    ASSUME NEW s, Sound(s), NEW t, Grows(s, t)
    PROVE  Slides(s, t)
  BY OldestIsNumber DEF Grows, Slides

LEMMA GrowsTrimsSlides ==
    ASSUME NEW s, NEW g, NEW t, Grows(s, g), Trims(g, t)
    PROVE  Slides(s, t)
  BY DEF Grows, Trims, Slides

LEMMA AccumulateGrows ==
    ASSUME NEW s, Sound(s), NEW id \in Nat,
           NEW frag \in Fragment, NEW lost \in SUBSET Uses
    PROVE  /\ Grows(s, Accumulate(s, id, frag, lost))
           /\ Published(Accumulate(s, id, frag, lost)) = Published(s)
           /\ GetCurrentMSN(Accumulate(s, id, frag, lost)) = GetCurrentMSN(s)
  <1> DEFINE fed == Accumulate(s, id, frag, lost)
  <1>1. /\ Filled(fed) /\ fed.segments = s.segments
        /\ fed.currentSeg = IF s.currentSeg = NoSegment
                            THEN NewSegment(s.nextMSN) ELSE s.currentSeg
    BY AccumulateSound, AccumulateFields DEF Sound
  <1> HIDE DEF fed
  <1>2. GetCurrentMSN(fed) = GetCurrentMSN(s)
    <2>1. fed.currentSeg # NoSegment
      BY <1>1 DEF Filled, NoSegment, NewSegment
    <2> QED BY <1>1, <2>1 DEF GetCurrentMSN, NewSegment
  <1>3. OldestMSN(fed) = OldestMSN(s)
    BY <1>1, <1>2 DEF OldestMSN
  <1>4. fed.currentSeg # s.currentSeg => fed.currentSeg.parts = <<>> /\ s.currentSeg.parts = <<>>
    BY <1>1 DEF NoSegment, NewSegment
  <1>5. \A p : Shows(fed.currentSeg, p) <=> Shows(s.currentSeg, p)
    BY <1>4 DEF Shows
  <1>6. Published(fed) = Published(s)
    <2>1. \A p : p \in Published(fed) <=> p \in Published(s)
      BY <1>1, <1>5, PublishedBy
    <2> QED BY <2>1
  <1> QED BY <1>2, <1>3, <1>6 DEF Grows, fed

LEMMA AppendPartGrows ==
    ASSUME NEW s, Filled(s)
    PROVE  Grows(s, AppendPart(s))
  <1> DEFINE grown == AppendPart(s)
             part == ClosedPart(s)
  <1>1. /\ Sealable(grown) /\ s \in StoreRecord
        /\ grown.segments = s.segments
        /\ grown.currentSeg.msn = s.currentSeg.msn
        /\ grown.currentSeg.parts = Append(s.currentSeg.parts, part)
        /\ part \in Part /\ s.currentSeg.parts \in Seq(Part)
    BY AppendPartSound, AppendPartFields, ClosedPartType, StoreFields
       DEF Filled, Sound, Segment
  <1> HIDE DEF grown, part
  <1>2. s.currentSeg # NoSegment /\ grown.currentSeg # NoSegment
    BY <1>1 DEF Filled, Sealable, NoSegment, NewSegment
  <1>3. GetCurrentMSN(grown) = GetCurrentMSN(s) /\ GetCurrentMSN(s) = s.currentSeg.msn
    BY <1>1, <1>2 DEF GetCurrentMSN
  <1>4. OldestMSN(grown) = OldestMSN(s)
    BY <1>1, <1>3 DEF OldestMSN
  <1> DEFINE n == Len(s.currentSeg.parts)
             parts == Append(s.currentSeg.parts, part)
  <1>5. /\ DOMAIN s.currentSeg.parts = 1 .. n /\ n \in Nat
        /\ DOMAIN parts = 1 .. n + 1
        /\ \A j \in 1 .. n : parts[j] = s.currentSeg.parts[j]
    BY <1>1, AppendProperties, LenProperties
  <1> HIDE DEF n, parts
  <1>6. ASSUME NEW p, Shows(s.currentSeg, p) PROVE Shows(grown.currentSeg, p)
    <2>1. PICK j \in DOMAIN s.currentSeg.parts :
                 p = <<s.currentSeg.msn, s.currentSeg.parts[j]>>
      BY <1>6 DEF Shows
    <2>2. j \in DOMAIN parts /\ parts[j] = s.currentSeg.parts[j]
      BY <1>5
    <2> QED BY <1>1, <2>1, <2>2 DEF Shows, parts
  <1>7. \A p : Shows(grown.currentSeg, p) => p[1] = s.currentSeg.msn
    BY <1>1 DEF Shows
  <1>8. Published(s) \subseteq Published(grown)
    BY <1>1, <1>6, PublishedBy
  <1>9. \A p \in Published(grown) \ Published(s) : p[1] = s.currentSeg.msn
    BY <1>1, <1>7, PublishedBy
  <1> QED BY <1>3, <1>4, <1>8, <1>9 DEF Grows, grown

LEMMA FinalizeSegmentTrims ==
    ASSUME NEW s, Sealable(s)
    PROVE  Trims(s, FinalizeSegment(s))
  <1> DEFINE next == FinalizeSegment(s)
             done == Done(s.currentSeg)
             cur == s.currentSeg.msn
             len == Len(s.segments)
  <1>1. /\ s \in StoreRecord /\ Sound(s) /\ cur >= 0 /\ s.segments \in Seq(Segment)
        /\ s.currentSeg \in Segment
    BY StoreFields DEF Sealable, Filled, Sound
  <1>2. /\ Filled(next) /\ next.currentSeg = NewSegment(cur + 1)
        /\ next.segments = TrimWindow(Append(s.segments, done))
    BY <1>1, FinalizeSegmentSound, FinalizeSegmentFields
  <1>3. done \in Segment /\ done.msn = cur /\ done.parts = s.currentSeg.parts
    BY <1>1, DoneFields
  <1>4. cur \in Int /\ len \in Nat /\ DOMAIN s.segments = 1 .. len
    BY <1>1, CurrentIs
  <1>5. next.segments \in Seq(Segment) /\ Sound(next)
    BY <1>2, StoreFields DEF Filled, Sound
  <1> HIDE DEF next, done
  <1>6. PICK k \in {0, 1} :
           /\ Len(next.segments) = len + 1 - k
           /\ \A i \in 1 .. Len(next.segments) :
                 /\ i + k \in 1 .. len + 1
                 /\ next.segments[i] = IF i + k = len + 1 THEN done ELSE s.segments[i + k]
    BY <1>1, <1>2, <1>3, WindowMoves
  <1>7. DOMAIN next.segments = 1 .. Len(next.segments)
    BY <1>5, LenProperties
  <1> DEFINE all(i) == IF i = len + 1 THEN done ELSE s.segments[i]
  <1>8. OldestMSN(s) = cur - len
    <2>1. GetCurrentMSN(s) = cur
      BY <1>1, CurrentIs
    <2> QED BY <1>1, <2>1, OldestByLength
  <1>9. OldestMSN(next) = cur - len + k
    <2>1. GetCurrentMSN(next) = cur + 1
      <3>1. next.currentSeg.msn = cur + 1
        BY <1>2 DEF NewSegment
      <3> QED BY <1>1, <1>4, <1>5, <3>1, CurrentIs
    <2>2. OldestMSN(next) = GetCurrentMSN(next) - Len(next.segments)
      BY <1>5, OldestByLength
    <2>3. Len(next.segments) = (len + 1) - k
      BY <1>6
    <2> HIDE DEF cur, len
    <2> QED BY <1>4, <2>1, <2>2, <2>3
  <1>10. \A i \in 1 .. len + 1 : all(i).msn = cur - len + i - 1
    <2> SUFFICES ASSUME NEW i \in 1 .. len + 1 PROVE all(i).msn = cur - len + i - 1
      OBVIOUS
    <2>1. CASE i = len + 1
      <3>1. all(i).msn = cur
        BY <1>3, <2>1
      <3> HIDE DEF cur, len, all
      <3> QED BY <1>4, <2>1, <3>1
    <2>2. CASE i # len + 1
      <3>1. i \in 1 .. len
        BY <1>4, <2>2
      <3> QED BY <1>1, <2>2, <3>1 DEF Sound, Windowed
    <2> QED BY <2>1, <2>2
  <1>11. \A p : ~Shows(next.currentSeg, p)
    BY <1>2 DEF Shows, NewSegment
  <1>12. \A p : p \in Published(s) <=> \E i \in 1 .. len + 1 : Shows(all(i), p)
    <2>1. \A p : Shows(done, p) <=> Shows(s.currentSeg, p)
      BY <1>3 DEF Shows
    <2> SUFFICES ASSUME NEW p
                 PROVE  p \in Published(s) <=> \E i \in 1 .. len + 1 : Shows(all(i), p)
      OBVIOUS
    <2>2. ASSUME p \in Published(s) PROVE \E i \in 1 .. len + 1 : Shows(all(i), p)
      <3>1. CASE Shows(s.currentSeg, p)
        <4>1. len + 1 \in 1 .. len + 1 /\ all(len + 1) = done
          BY <1>4
        <4> HIDE DEF all
        <4> QED BY <2>1, <3>1, <4>1
      <3>2. ASSUME NEW i \in DOMAIN s.segments, Shows(s.segments[i], p)
            PROVE  \E j \in 1 .. len + 1 : Shows(all(j), p)
        <4>1. i \in 1 .. len + 1 /\ all(i) = s.segments[i]
          BY <1>4
        <4> HIDE DEF all
        <4> QED BY <3>2, <4>1
      <3> QED BY <2>2, <3>1, <3>2, PublishedBy
    <2>3. ASSUME NEW i \in 1 .. len + 1, Shows(all(i), p) PROVE p \in Published(s)
      <3>1. CASE i = len + 1
        BY <2>1, <2>3, <3>1, PublishedBy
      <3>2. CASE i # len + 1
        <4>1. i \in DOMAIN s.segments /\ all(i) = s.segments[i]
          BY <1>4, <3>2
        <4> HIDE DEF all
        <4> QED BY <2>3, <4>1, PublishedBy
      <3> QED BY <3>1, <3>2
    <2> HIDE DEF all
    <2> QED BY <2>2, <2>3
  <1>13. \A p : p \in Published(next) <=> \E i \in DOMAIN next.segments : Shows(next.segments[i], p)
    BY <1>11, PublishedBy
  <1>14. \A i \in 1 .. Len(next.segments) :
            i + k \in 1 .. len + 1 /\ next.segments[i] = all(i + k)
    BY <1>6
  <1> HIDE DEF all, cur, len
  <1>15. Published(next) \subseteq Published(s)
    BY <1>7, <1>12, <1>13, <1>14
  <1>16. ASSUME NEW p \in Published(s), p[1] >= OldestMSN(next)
         PROVE  p \in Published(next)
    <2>1. PICK i \in 1 .. len + 1 : Shows(all(i), p)
      BY <1>12
    <2>2. p[1] = cur - len + i - 1
      BY <1>10, <2>1 DEF Shows
    <2>3. i - k \in 1 .. Len(next.segments) /\ (i - k) + k = i
      BY <1>4, <1>6, <1>9, <1>16, <2>2
    <2>4. next.segments[i - k] = all(i)
      BY <1>14, <2>3
    <2> QED BY <1>7, <1>13, <2>1, <2>3, <2>4
  <1>17. OldestMSN(next) - OldestMSN(s) \in {0, 1}
    BY <1>4, <1>8, <1>9
  <1> QED BY <1>15, <1>16, <1>17 DEF Trims, next

LEMMA FinalizePartSlides ==
    ASSUME NEW s, Filled(s)
    PROVE  LET next == FinalizePart(s).store
           IN  Slides(s, next) /\ (next.currentSeg.dur > 0 => Grows(s, next))
  <1> DEFINE grown == AppendPart(s)
  <1>1. Sealable(grown) /\ Grows(s, grown) /\ Sound(s)
    BY AppendPartSound, AppendPartGrows DEF Filled
  <1>2. CASE IsFull(grown.currentSeg)
    <2>1. FinalizePart(s).store = FinalizeSegment(grown)
      BY <1>2 DEF FinalizePart
    <2>2. FinalizeSegment(grown).currentSeg.dur = 0
      <3>1. FinalizeSegment(grown).currentSeg = NewSegment(grown.currentSeg.msn + 1)
        BY <1>1, FinalizeSegmentSound
      <3> HIDE DEF grown
      <3> QED BY <3>1 DEF NewSegment
    <2>3. Slides(s, FinalizeSegment(grown))
      BY <1>1, FinalizeSegmentTrims, GrowsTrimsSlides
    <2> QED BY <2>1, <2>2, <2>3
  <1>3. CASE ~IsFull(grown.currentSeg)
    <2>1. FinalizePart(s).store = grown
      BY <1>3 DEF FinalizePart
    <2> QED BY <1>1, <2>1, GrowsSlides
  <1> QED BY <1>2, <1>3

\* Finalize completes one segment at most: after a part that filled its
\* segment the next one has no duration.
LEMMA FlushSlides ==
    ASSUME NEW s, Sound(s)
    PROVE  Slides(s, FlushSegment(FlushPart(s)).store)
  <1> DEFINE f == FlushPart(s)
  <1>1. /\ Sound(f.store) /\ Slides(s, f.store)
        /\ f.store.currentSeg.dur > 0 => Grows(s, f.store)
    <2>1. CASE s.currentPart = NoPart
      <3>1. f.store = s /\ Grows(s, s)
        BY <2>1 DEF FlushPart, Grows
      <3> QED BY <3>1, GrowsSlides
    <2>2. CASE s.currentPart # NoPart
      <3>1. Filled(s)
        BY <2>2, LatestTypes DEF Sound, Windowed, Filled
      <3>2. f = FinalizePart(s)
        BY <2>2 DEF FlushPart
      <3> QED BY <3>1, <3>2, FinalizePartSound, FinalizePartSlides DEF Filled
    <2> QED BY <2>1, <2>2
  <1> HIDE DEF f
  <1>2. CASE f.store.currentSeg.dur > 0
    <2>1. Trims(f.store, FinalizeSegment(f.store))
      BY <1>1, <1>2, HasDuration, FinalizeSegmentTrims
    <2>2. Slides(s, FinalizeSegment(f.store))
      BY <1>1, <1>2, <2>1, GrowsTrimsSlides
    <2> QED BY <1>2, <2>2 DEF FlushSegment, f
  <1>3. CASE ~(f.store.currentSeg.dur > 0)
    BY <1>1, <1>3 DEF FlushSegment, f
  <1> QED BY <1>2, <1>3

LEMMA ViewSlides ==
    ASSUME StoreInv, StoreInv', [Next]_vars
    PROVE  Slides(store, store')
  <1>1. Sound(store) /\ store \in StoreRecord /\ fragments \in Seq(Fragment)
    BY DEF StoreInv, TypeOK
  <1>2. \A t : /\ t.segments = store.segments /\ t.currentSeg = store.currentSeg
               /\ t.nextMSN = store.nextMSN
               => Slides(store, t)
    BY <1>1, SameView, OldestIsNumber DEF Slides
  <1>3. CASE SetInit
    BY <1>1, <1>2, <1>3 DEF SetInit, StoreRecord
  <1>4. ASSUME NEW frag \in Fragment, NEW lost \in SUBSET Uses, AddFragment(frag, lost)
        PROVE  Slides(store, store')
    <2> DEFINE fed == Accumulate(store, Len(fragments'), frag, lost)
    <2>1. Len(fragments') \in Nat
      BY <1>1, <1>4, AppendProperties, LenProperties DEF AddFragment
    <2>2. /\ Filled(fed) /\ Grows(store, fed) /\ Published(fed) = Published(store)
          /\ GetCurrentMSN(fed) = GetCurrentMSN(store)
      BY <1>1, <2>1, AccumulateSound, AccumulateGrows
    <2>3. store' = FinalizePart(fed).store \/ store' = fed
      BY <1>4 DEF AddFragment
    <2> HIDE DEF fed
    <2>4. Slides(fed, FinalizePart(fed).store)
      BY <2>2, FinalizePartSlides
    <2>5. Slides(store, FinalizePart(fed).store)
      BY <2>2, <2>4 DEF Slides, Grows
    <2> QED BY <1>1, <2>2, <2>3, <2>5, GrowsSlides
  <1>5. CASE Finalize
    <2> DEFINE flushed == FlushSegment(FlushPart(store)).store
    <2>1. store' = [flushed EXCEPT !.ended = TRUE] /\ flushed \in StoreRecord
          /\ Slides(store, flushed)
      BY <1>1, <1>5, FlushType, FlushSlides DEF Finalize
    <2> HIDE DEF flushed
    <2>2. /\ store'.segments = flushed.segments /\ store'.currentSeg = flushed.currentSeg
          /\ store'.nextMSN = flushed.nextMSN
      BY <2>1 DEF StoreRecord
    <2>3. OldestMSN(store') = OldestMSN(flushed) /\ Published(store') = Published(flushed)
      BY <2>2, SameView
    <2> QED BY <2>1, <2>3 DEF Slides
  <1>6. CASE Broadcast \/ BroadcastEnded \/ UNCHANGED vars
    BY <1>2, <1>6 DEF Broadcast, BroadcastEnded, vars
  <1> QED BY <1>3, <1>4, <1>5, <1>6 DEF Next

(***************************************************************************)
(* A live playlist gains parts at its end and loses its oldest segment,    *)
(* never more than one in a step, for any window and any durations.        *)
(***************************************************************************)
THEOREM WindowSlides == Spec => PlaylistOnlySlides
  <1>1. StoreInv /\ StoreInv' /\ [Next]_vars
        => [/\ OldestMSN(store') - OldestMSN(store) \in {0, 1}
            /\ \A p \in Published(store) :
                  p[1] >= OldestMSN(store') => p \in Published(store')
            /\ \A p \in Published(store') \ Published(store) :
                  p[1] = GetCurrentMSN(store)]_vars
    BY ViewSlides DEF Slides
  <1> QED BY <1>1, StoreInvInit, StoreInvNext, PTL DEF Spec, PlaylistOnlySlides

=============================================================================

--------------------------- MODULE ContentProofs ---------------------------
(***************************************************************************)
(* No fragment is lost, repeated or reordered by the store, and what it    *)
(* says of them, durations and keyframes, is true of them, for every value *)
(* of the constants.                                                       *)
(*                                                                         *)
(* So the store is the abstract live stream of module LiveStream.          *)
(*                                                                         *)
(* Unbroken is not inductive alone: where a run starts is said by the      *)
(* first byte of the next segment, so there must be one, and finalizePart  *)
(* and Finalize decide by parts and durations what has bytes.              *)
(***************************************************************************)
EXTENDS StoreProofs, StoreLive

-----------------------------------------------------------------------------
(* Runs of consecutive fragments.                                          *)

LEMMA EmptyRun ==
    ASSUME NEW e \in Int
    PROVE  RunTo(<<>>, e) /\ Len(<<>>) = 0
  BY DEF RunTo

LEMMA RunAppended ==
    ASSUME NEW d \in Seq(Nat), NEW e \in Nat, RunTo(d, e)
    PROVE  /\ RunTo(Append(d, e + 1), e + 1)
           /\ Append(d, e + 1) \in Seq(Nat)
           /\ Len(Append(d, e + 1)) = Len(d) + 1
           /\ Append(d, e + 1) # <<>>
  <1> DEFINE a == Append(d, e + 1)
  <1>1. /\ a \in Seq(Nat) /\ a # <<>> /\ Len(a) = Len(d) + 1 /\ Len(d) \in Nat
        /\ \A i \in 1 .. Len(d) : a[i] = d[i]
        /\ a[Len(d) + 1] = e + 1
    <2>1. e + 1 \in Nat
      OBVIOUS
    <2>2. Len(d) \in Nat
      BY LenProperties
    <2> HIDE DEF a
    <2>3. ASSUME NEW b \in Nat, a = Append(d, b)
          PROVE  /\ a \in Seq(Nat) /\ a # <<>> /\ Len(a) = Len(d) + 1
                 /\ \A i \in 1 .. Len(d) : a[i] = d[i]
                 /\ a[Len(d) + 1] = b
      BY <2>3, AppendProperties
    <2>4. a = Append(d, e + 1)
      BY DEF a
    <2> QED BY <2>1, <2>2, <2>3, <2>4
  <1>2. DOMAIN d = 1 .. Len(d) /\ DOMAIN a = 1 .. Len(a)
    BY <1>1, LenProperties
  <1> HIDE DEF a
  <1>3. ASSUME NEW i \in 1 .. Len(a) PROVE a[i] = (e + 1) - Len(a) + i
    <2>1. CASE i = Len(d) + 1
      BY <1>1, <2>1
    <2>2. CASE i \in 1 .. Len(d)
      <3>1. a[i] = d[i] /\ d[i] = e - Len(d) + i
        BY <1>1, <1>2, <2>2 DEF RunTo
      <3> QED BY <1>1, <2>2, <3>1
    <2> QED BY <1>1, <2>1, <2>2
  <1>4. RunTo(a, e + 1)
    BY <1>2, <1>3 DEF RunTo
  <1> QED BY <1>1, <1>4 DEF a

LEMMA RunJoined ==
    ASSUME NEW c \in Seq(Nat), NEW d \in Seq(Nat), NEW e \in Int,
           RunTo(c, e - Len(d)), RunTo(d, e)
    PROVE  RunTo(c \o d, e) /\ Len(c \o d) = Len(c) + Len(d)
  <1> DEFINE j == c \o d
  <1>1. /\ j \in Seq(Nat) /\ Len(j) = Len(c) + Len(d)
        /\ Len(c) \in Nat /\ Len(d) \in Nat
        /\ \A i \in 1 .. Len(c) + Len(d) :
              j[i] = IF i <= Len(c) THEN c[i] ELSE d[i - Len(c)]
    BY ConcatProperties, LenProperties
  <1>2. DOMAIN j = 1 .. Len(j) /\ DOMAIN c = 1 .. Len(c) /\ DOMAIN d = 1 .. Len(d)
    BY <1>1, LenProperties
  <1> HIDE DEF j
  <1>3. ASSUME NEW i \in 1 .. Len(j) PROVE j[i] = e - Len(j) + i
    <2>1. CASE i <= Len(c)
      <3>1. i \in DOMAIN c /\ j[i] = c[i]
        BY <1>1, <1>2, <2>1
      <3>2. c[i] = (e - Len(d)) - Len(c) + i
        BY <3>1 DEF RunTo
      <3> QED BY <1>1, <3>1, <3>2
    <2>2. CASE ~(i <= Len(c))
      <3>1. i - Len(c) \in DOMAIN d /\ j[i] = d[i - Len(c)]
        BY <1>1, <1>2, <2>2
      <3>2. d[i - Len(c)] = e - Len(d) + (i - Len(c))
        BY <3>1 DEF RunTo
      <3> QED BY <1>1, <3>1, <3>2
    <2> QED BY <2>1, <2>2
  <1> QED BY <1>1, <1>2, <1>3 DEF RunTo, j

LEMMA RunFirst ==
    ASSUME NEW d \in Seq(Nat), NEW e \in Int, RunTo(d, e), d # <<>>
    PROVE  d[1] - 1 = e - Len(d)
  <1>1. Len(d) \in Nat \ {0} /\ DOMAIN d = 1 .. Len(d)
    BY EmptySeq, LenProperties
  <1>2. d[1] = e - Len(d) + 1
    BY <1>1 DEF RunTo
  <1> QED BY <1>1, <1>2

-----------------------------------------------------------------------------
(* The segments of the window.                                             *)

WithBytes == {seg \in Segment : seg.data # <<>>}

\* Each segment goes on where the one before it ends; the last ends at `end`.
Chain(segs, end) ==
    \A i \in DOMAIN segs :
        RunTo(segs[i].data, IF i = Len(segs) THEN end ELSE segs[i + 1].data[1] - 1)

FromTheStart(segs) == segs # <<>> /\ segs[1].msn = 0 => segs[1].data[1] = 1

LEMMA ChainGrows ==
    ASSUME NEW segs \in Seq(Segment), NEW end \in Int, Chain(segs, end),
           NEW seg \in WithBytes, RunTo(seg.data, end + Len(seg.data))
    PROVE  Chain(TrimWindow(Append(segs, seg)), end + Len(seg.data))
  <1> DEFINE next == TrimWindow(Append(segs, seg))
             last == end + Len(seg.data)
  <1>0. seg \in Segment /\ seg.data \in Seq(Nat) /\ seg.data # <<>>
        /\ Len(seg.data) \in Nat
    BY LenProperties DEF WithBytes, Segment
  <1>1. next \in Seq(Segment)
    <2>1. Append(segs, seg) \in Seq(Segment) /\ Append(segs, seg) # <<>>
      BY <1>0, AppendProperties
    <2> QED BY <2>1, TrimWindowType
  <1>2. seg.data[1] - 1 = end
    <2>1. seg.data[1] - 1 = last - Len(seg.data)
      BY <1>0, RunFirst
    <2> QED BY <1>0, <2>1
  <1> HIDE DEF next
  <1>3. PICK k \in {0, 1} :
              /\ Len(next) = Len(segs) + 1 - k
              /\ \A i \in 1 .. Len(next) :
                    /\ i + k \in 1 .. Len(segs) + 1
                    /\ next[i] = IF i + k = Len(segs) + 1 THEN seg ELSE segs[i + k]
    BY <1>0, WindowMoves DEF next
  <1>4. /\ DOMAIN next = 1 .. Len(next) /\ DOMAIN segs = 1 .. Len(segs)
        /\ Len(segs) \in Nat /\ Len(next) \in Nat
    BY <1>1, LenProperties
  <1>5. ASSUME NEW i \in DOMAIN next
        PROVE  RunTo(next[i].data, IF i = Len(next) THEN last ELSE next[i + 1].data[1] - 1)
    <2>1. i \in 1 .. Len(next)
      BY <1>4
    <2>2. CASE i = Len(next)
      <3>1. i + k = Len(segs) + 1
        BY <1>3, <1>4, <2>2
      <3>2. next[i] = seg
        BY <1>3, <2>1, <3>1
      <3> QED BY <2>2, <3>2
    <2>3. CASE i # Len(next)
      <3>1. i + k \in 1 .. Len(segs) /\ i + 1 \in 1 .. Len(next)
        BY <1>3, <1>4, <2>1, <2>3
      <3>2. next[i] = segs[i + k]
        <4>1. i + k # Len(segs) + 1
          BY <1>4, <3>1
        <4> QED BY <1>3, <2>1, <4>1
      <3>3. next[i + 1] = IF i + k = Len(segs) THEN seg ELSE segs[i + k + 1]
        <4>1. next[i + 1] = IF (i + 1) + k = Len(segs) + 1 THEN seg ELSE segs[(i + 1) + k]
          BY <1>3, <3>1
        <4>2. (i + 1) + k = (i + k) + 1
          BY <2>1, <1>4
        <4>3. (i + k) + 1 = Len(segs) + 1 <=> i + k = Len(segs)
          BY <3>1, <1>4
        <4> QED BY <4>1, <4>2, <4>3
      <3>4. RunTo(segs[i + k].data,
                  IF i + k = Len(segs) THEN end ELSE segs[i + k + 1].data[1] - 1)
        BY <1>4, <3>1 DEF Chain
      <3> QED BY <1>2, <2>3, <3>2, <3>3, <3>4
    <2> QED BY <2>2, <2>3
  <1> QED BY <1>5 DEF Chain, next

-----------------------------------------------------------------------------
(* The whole store, of n fragments.                                        *)

\* The last fragment that is in a part, and the last one in the window.
Cut(s, n) == n - Len(s.currentPart.data)
SealedTo(s, n) == Cut(s, n) - Len(s.currentSeg.data)

Whole(s, n) ==
    /\ s.currentPart # NoPart => s.currentPart.data # <<>>
    /\ s.currentSeg.parts = <<>> <=> s.currentSeg.data = <<>>
    /\ \A i \in DOMAIN s.segments : s.segments[i] \in WithBytes
    /\ RunTo(s.currentPart.data, n)
    /\ RunTo(s.currentSeg.data, Cut(s, n))
    /\ Chain(s.segments, SealedTo(s, n))
    /\ s.currentSeg.msn <= 0 => SealedTo(s, n) = 0
    /\ FromTheStart(s.segments)

LEMMA WholeTypes ==
    ASSUME NEW s \in StoreRecord, NEW n \in Nat
    PROVE  /\ s.currentPart \in PartAccumulator /\ s.currentPart.data \in Seq(Nat)
           /\ s.currentSeg \in Segment /\ s.currentSeg.data \in Seq(Nat)
           /\ s.currentSeg.parts \in Seq(Part) /\ s.currentSeg.msn \in Int
           /\ s.segments \in Seq(Segment) /\ s.nextMSN \in Nat
           /\ Len(s.currentPart.data) \in Nat /\ Len(s.currentSeg.data) \in Nat
           /\ Cut(s, n) \in Int /\ SealedTo(s, n) \in Int
  <1>1. /\ s.currentPart \in PartAccumulator /\ s.currentSeg \in Segment
        /\ s.segments \in Seq(Segment) /\ s.nextMSN \in Nat
    BY StoreFields
  <1>2. /\ s.currentPart.data \in Seq(Nat) /\ s.currentSeg.data \in Seq(Nat)
        /\ s.currentSeg.parts \in Seq(Part) /\ s.currentSeg.msn \in Int
    BY <1>1 DEF PartAccumulator, Segment
  <1>3. Len(s.currentPart.data) \in Nat /\ Len(s.currentSeg.data) \in Nat
    BY <1>2, LenProperties
  <1> QED BY <1>1, <1>2, <1>3 DEF Cut, SealedTo

LEMMA NilData ==
    /\ NoPart.data = <<>> /\ Len(<<>>) = 0
    /\ NoSegment.data = <<>> /\ NoSegment.parts = <<>> /\ NoSegment.msn = -1
    /\ \A msn \in Int : /\ NewSegment(msn).data = <<>> /\ NewSegment(msn).parts = <<>>
                        /\ NewSegment(msn).msn = msn
    /\ \A key \in BOOLEAN : NewPart(key).data = <<>>
  BY DEF NoPart, NewPart, NoSegment, NewSegment

LEMMA AccumulateWhole ==
    ASSUME NEW s, Sound(s), NEW n \in Nat, Whole(s, n),
           NEW frag \in Fragment, NEW lost \in SUBSET Uses
    PROVE  LET fed == Accumulate(s, n + 1, frag, lost)
           IN  /\ Whole(fed, n + 1)
               /\ fed.currentPart # NoPart
               /\ Cut(fed, n + 1) = Cut(s, n)
               /\ SealedTo(fed, n + 1) = SealedTo(s, n)
  <1> DEFINE fed == Accumulate(s, n + 1, frag, lost)
             acc == IF s.currentPart = NoPart THEN NewPart(frag.key) ELSE s.currentPart
  <1>1. s \in StoreRecord /\ n + 1 \in Nat /\ frag.key \in BOOLEAN
    BY StoreAssumption DEF StoreAssumption, Fragment, Sound
  <1>2. fed \in StoreRecord
    BY <1>1, AccumulateType
  <1>3. /\ fed.segments = s.segments
        /\ fed.currentSeg = IF s.currentSeg = NoSegment
                            THEN NewSegment(s.nextMSN) ELSE s.currentSeg
        /\ fed.currentPart.data = Append(acc.data, n + 1)
    BY <1>1, AccumulateFields
  <1>4. acc.data = s.currentPart.data
    BY <1>1, NilData
  <1> HIDE DEF fed, acc
  <1>5. /\ RunTo(fed.currentPart.data, n + 1)
        /\ Len(fed.currentPart.data) = Len(s.currentPart.data) + 1
        /\ fed.currentPart.data # <<>>
    <2>1. s.currentPart.data \in Seq(Nat) /\ RunTo(s.currentPart.data, n)
      BY <1>1, WholeTypes DEF Whole
    <2>2. fed.currentPart.data = Append(s.currentPart.data, n + 1)
      BY <1>3, <1>4
    <2> QED BY <2>1, <2>2, RunAppended
  <1>6. /\ fed.currentSeg.data = s.currentSeg.data
        /\ fed.currentSeg.parts = s.currentSeg.parts
    <2>1. CASE s.currentSeg = NoSegment
      <3>1. s.nextMSN \in Int
        BY <1>1, WholeTypes
      <3> QED BY <1>3, <2>1, <3>1, NilData
    <2>2. CASE s.currentSeg # NoSegment
      BY <1>3, <2>2
    <2> QED BY <2>1, <2>2
  <1>7. Cut(fed, n + 1) = Cut(s, n) /\ SealedTo(fed, n + 1) = SealedTo(s, n)
    <2>1. Len(s.currentPart.data) \in Nat
      BY <1>1, WholeTypes
    <2>2. Cut(fed, n + 1) = Cut(s, n)
      BY <1>5, <2>1 DEF Cut
    <2> QED BY <1>6, <2>2 DEF SealedTo
  <1>8. fed.currentSeg.msn <= 0 => SealedTo(s, n) = 0
    <2>1. CASE s.currentSeg = NoSegment
      BY <2>1, NilData DEF Whole
    <2>2. CASE s.currentSeg # NoSegment
      BY <1>3, <2>2 DEF Whole
    <2> QED BY <2>1, <2>2
  <1>9. fed.currentPart # NoPart
    BY <1>5, NilData
  <1> QED BY <1>3, <1>5, <1>6, <1>7, <1>8, <1>9 DEF Whole, fed

LEMMA AppendPartWhole ==
    ASSUME NEW s, Filled(s), NEW n \in Nat, Whole(s, n), s.currentPart # NoPart
    PROVE  /\ Whole(AppendPart(s), n)
           /\ Cut(AppendPart(s), n) = n
           /\ SealedTo(AppendPart(s), n) = SealedTo(s, n)
  <1> DEFINE grown == AppendPart(s)
             part == ClosedPart(s)
  <1>1. s \in StoreRecord /\ grown \in StoreRecord /\ part \in Part
    BY AppendPartType, ClosedPartType DEF Filled, Sound
  <1>2. /\ grown.segments = s.segments /\ grown.currentPart = NoPart
        /\ grown.currentSeg.parts = Append(s.currentSeg.parts, part)
        /\ grown.currentSeg.data = s.currentSeg.data \o s.currentPart.data
        /\ grown.currentSeg.msn = s.currentSeg.msn
    BY <1>1, AppendPartFields
  <1> HIDE DEF grown, part
  <1>3. /\ RunTo(grown.currentSeg.data, n)
        /\ Len(grown.currentSeg.data) = Len(s.currentSeg.data) + Len(s.currentPart.data)
    <2> DEFINE c == s.currentSeg.data
               d == s.currentPart.data
    <2>1. c \in Seq(Nat) /\ d \in Seq(Nat) /\ n \in Int
      BY <1>1, WholeTypes
    <2>2. RunTo(c, n - Len(d)) /\ RunTo(d, n)
      BY DEF Whole, Cut
    <2>3. RunTo(c \o d, n) /\ Len(c \o d) = Len(c) + Len(d)
      <3> HIDE DEF c, d
      <3> QED BY <2>1, <2>2, RunJoined
    <2> QED BY <1>2, <2>3
  <1>4. Cut(grown, n) = n /\ SealedTo(grown, n) = SealedTo(s, n)
    <2>1. Cut(grown, n) = n
      BY <1>2, NilData DEF Cut
    <2>2. Len(s.currentSeg.data) \in Nat /\ Len(s.currentPart.data) \in Nat
      BY <1>1, WholeTypes
    <2> QED BY <1>3, <2>1, <2>2 DEF SealedTo, Cut
  <1>5. grown.currentSeg.parts # <<>>
    <2>1. s.currentSeg.parts \in Seq(Part)
      BY <1>1, WholeTypes
    <2>2. Append(s.currentSeg.parts, part) # <<>>
      BY <1>1, <2>1, AppendProperties
    <2> QED BY <1>2, <2>2
  <1>6. grown.currentSeg.data # <<>>
    <2>1. s.currentPart.data # <<>> /\ s.currentPart.data \in Seq(Nat)
          /\ s.currentSeg.data \in Seq(Nat)
      BY <1>1, WholeTypes DEF Whole
    <2> QED BY <1>2, <2>1, ConcatEqualIffEmpty
  <1>7. RunTo(grown.currentPart.data, n)
    BY <1>2, NilData, EmptyRun
  <1> QED BY <1>2, <1>3, <1>4, <1>5, <1>6, <1>7 DEF Whole, grown

LEMMA FinalizeSegmentWhole ==
    ASSUME NEW s, Sealable(s), NEW n \in Nat, Whole(s, n), s.currentPart = NoPart
    PROVE  /\ Whole(FinalizeSegment(s), n)
           /\ Cut(FinalizeSegment(s), n) = n
           /\ SealedTo(FinalizeSegment(s), n) = n
  <1> DEFINE next == FinalizeSegment(s)
             done == Done(s.currentSeg)
  <1>1. s \in StoreRecord /\ Windowed(s) /\ s.currentSeg.msn >= 0
        /\ s.currentSeg.parts # <<>>
    BY DEF Sealable, Filled, Sound
  <1>2. /\ next.segments = TrimWindow(Append(s.segments, done))
        /\ next.currentSeg = NewSegment(s.nextMSN)
        /\ next.currentPart = NoPart
    BY <1>1, FinalizeSegmentFields
  <1>3. /\ done \in Segment /\ done.data = s.currentSeg.data
        /\ done.msn = s.currentSeg.msn
    BY <1>1, WholeTypes, DoneFields
  <1> HIDE DEF next, done
  <1>4. Cut(s, n) = n /\ RunTo(done.data, n) /\ SealedTo(s, n) = n - Len(done.data)
    <2>1. Cut(s, n) = n
      BY NilData DEF Cut
    <2> QED BY <1>3, <2>1 DEF Whole, SealedTo
  <1>5. done \in WithBytes
    BY <1>1, <1>3 DEF Whole, WithBytes
  <1>6. /\ done.data \in Seq(Nat) /\ Len(done.data) \in Nat
        /\ SealedTo(s, n) + Len(done.data) = n
    BY <1>1, <1>3, <1>4, WholeTypes
  <1>7. Chain(next.segments, n)
    <2>1. s.segments \in Seq(Segment) /\ SealedTo(s, n) \in Int
          /\ Chain(s.segments, SealedTo(s, n))
      BY <1>1, WholeTypes DEF Whole
    <2> QED BY <1>2, <1>4, <1>5, <1>6, <2>1, ChainGrows
  <1>8. \A i \in DOMAIN next.segments : next.segments[i] \in WithBytes
    BY <1>1, <1>2, <1>3, <1>5, WholeTypes, WindowKeeps DEF Whole
  <1>9. /\ next.currentSeg.parts = <<>> /\ next.currentSeg.data = <<>>
        /\ next.currentPart.data = <<>> /\ next.currentSeg.msn = s.currentSeg.msn + 1
    <2>1. s.nextMSN \in Int /\ s.nextMSN = s.currentSeg.msn + 1
      BY <1>1, WholeTypes DEF Windowed
    <2> QED BY <1>2, <2>1, NilData
  <1>10. Cut(next, n) = n /\ SealedTo(next, n) = n
    BY <1>9, NilData DEF Cut, SealedTo
  <1>11. ~(next.currentSeg.msn <= 0)
    BY <1>1, <1>9, WholeTypes
  <1>12. FromTheStart(next.segments)
    <2>1. PICK k \in {0, 1} :
                /\ Len(next.segments) = Len(s.segments) + 1 - k
                /\ \A i \in 1 .. Len(next.segments) :
                      /\ i + k \in 1 .. Len(s.segments) + 1
                      /\ next.segments[i] = IF i + k = Len(s.segments) + 1
                                            THEN done ELSE s.segments[i + k]
      <3>1. s.segments \in Seq(Segment) /\ done \in Segment
        BY <1>1, <1>3, WholeTypes
      <3> QED BY <1>2, <3>1, WindowMoves
    <2>2. SUFFICES ASSUME next.segments # <<>>, next.segments[1].msn = 0
                   PROVE  next.segments[1].data[1] = 1
      BY DEF FromTheStart
    <2>3. Len(s.segments) \in Nat /\ 1 \in 1 .. Len(next.segments)
      <3>1. next.segments \in Seq(Segment)
        BY <1>1, <1>2, FinalizeSegmentType, StoreFields DEF next
      <3>2. Len(next.segments) \in Nat \ {0}
        BY <2>2, <3>1, LenProperties, EmptySeq
      <3>3. Len(s.segments) \in Nat
        BY <1>1, StoreFields, LenProperties
      <3> QED BY <3>2, <3>3
    <2>4. /\ 1 + k \in 1 .. Len(s.segments) + 1
          /\ next.segments[1] = IF 1 + k = Len(s.segments) + 1 THEN done ELSE s.segments[1 + k]
      BY <2>1, <2>3
    <2>5. CASE 1 + k = Len(s.segments) + 1
      <3>1. s.currentSeg.msn = 0
        BY <1>3, <2>2, <2>4, <2>5
      <3>2. SealedTo(s, n) = 0
        BY <3>1 DEF Whole
      <3>3. done.data[1] - 1 = n - Len(done.data) /\ done.data[1] \in Nat
        <4>1. done.data # <<>> /\ 1 \in 1 .. Len(done.data)
          BY <1>5, <1>6, EmptySeq DEF WithBytes
        <4> QED BY <1>4, <1>6, <4>1, RunFirst, ElementOfSeq
      <3> QED BY <1>4, <2>4, <2>5, <3>2, <3>3
    <2>6. CASE 1 + k # Len(s.segments) + 1
      <3>1. 1 + k \in 1 .. Len(s.segments) /\ 1 \in 1 .. Len(s.segments)
        BY <2>3, <2>4, <2>6
      <3>2. s.segments[1].msn = s.currentSeg.msn - Len(s.segments) /\ s.segments[1].msn >= 0
            /\ s.segments[1 + k].msn = s.currentSeg.msn - Len(s.segments) + k
        <4>1. \A i \in 1 .. Len(s.segments) :
                 /\ s.segments[i].msn = s.currentSeg.msn - Len(s.segments) + i - 1
                 /\ s.segments[i].msn >= 0
          BY <1>1 DEF Windowed
        <4>2. s.currentSeg.msn \in Int
          BY <1>1, WholeTypes
        <4>3. s.segments[1 + k].msn = s.currentSeg.msn - Len(s.segments) + (1 + k) - 1
          BY <3>1, <4>1
        <4> QED BY <2>3, <3>1, <4>1, <4>2, <4>3
      <3>3. k = 0 /\ s.segments[1].msn = 0 /\ next.segments[1] = s.segments[1]
        <4>1. s.segments[1 + k].msn = 0 /\ next.segments[1] = s.segments[1 + k]
          BY <2>2, <2>4, <2>6
        <4>2. s.currentSeg.msn \in Int
          BY <1>1, WholeTypes
        <4>3. k = 0
          BY <2>3, <3>2, <4>1, <4>2
        <4> QED BY <4>1, <4>3
      <3>4. s.segments # <<>>
        BY <3>1, NilData
      <3> QED BY <3>3, <3>4 DEF Whole, FromTheStart
    <2> QED BY <2>5, <2>6
  <1> QED BY <1>2, <1>7, <1>8, <1>9, <1>10, <1>11, <1>12, EmptyRun DEF Whole, next

LEMMA FinalizePartWhole ==
    ASSUME NEW s, Filled(s), NEW n \in Nat, Whole(s, n), s.currentPart # NoPart
    PROVE  /\ Whole(FinalizePart(s).store, n)
           /\ FinalizePart(s).store.currentPart = NoPart
  <1> DEFINE grown == AppendPart(s)
             closed == FinalizePart(s).store
  <1>1. Sealable(grown) /\ Whole(grown, n)
    BY AppendPartSound, AppendPartWhole
  <1>2. grown.currentPart = NoPart /\ grown \in StoreRecord
    BY AppendPartFields, AppendPartType DEF Filled, Sound
  <1>3. closed = IF IsFull(grown.currentSeg) THEN FinalizeSegment(grown) ELSE grown
    BY DEF FinalizePart
  <1> HIDE DEF grown, closed
  <1>4. Whole(FinalizeSegment(grown), n) /\ FinalizeSegment(grown).currentPart = NoPart
    BY <1>1, <1>2, FinalizeSegmentWhole, FinalizeSegmentFields
  <1> QED BY <1>1, <1>2, <1>3, <1>4 DEF closed

LEMMA FlushWhole ==
    ASSUME NEW s, Sound(s), NEW n \in Nat, Whole(s, n)
    PROVE  Whole(FlushSegment(FlushPart(s)).store, n)
  <1> DEFINE f == FlushPart(s)
  <1>1. Sound(f.store) /\ Whole(f.store, n) /\ f.store.currentPart = NoPart
    <2>1. CASE s.currentPart = NoPart
      BY <2>1 DEF FlushPart
    <2>2. CASE s.currentPart # NoPart
      <3>1. Filled(s)
        BY <2>2, LatestTypes DEF Sound, Windowed, Filled
      <3>2. f = FinalizePart(s)
        BY <2>2 DEF FlushPart
      <3> QED BY <2>2, <3>1, <3>2, FinalizePartSound, FinalizePartWhole DEF Filled
    <2> QED BY <2>1, <2>2
  <1> HIDE DEF f
  <1>2. CASE f.store.currentSeg.dur > 0
    BY <1>1, <1>2, HasDuration, FinalizeSegmentWhole DEF FlushSegment, f
  <1>3. CASE ~(f.store.currentSeg.dur > 0)
    BY <1>1, <1>3 DEF FlushSegment, f
  <1> QED BY <1>2, <1>3

-----------------------------------------------------------------------------
(* The stream.                                                             *)

WholeInv ==
    /\ StoreInv
    /\ Whole(store, Len(fragments))

LEMMA WholeInvInit == Init => WholeInv
  <1> SUFFICES ASSUME Init PROVE WholeInv
    OBVIOUS
  <1>1. /\ store.segments = <<>> /\ store.currentPart = NoPart
        /\ store.currentSeg = NoSegment /\ Len(fragments) = 0
    BY EmptySeq DEF Init, NewStore
  <1>2. Cut(store, 0) = 0 /\ SealedTo(store, 0) = 0
    <2>1. Len(store.currentPart.data) = 0 /\ Len(store.currentSeg.data) = 0
      BY <1>1, NilData
    <2>2. Cut(store, 0) = 0
      BY <2>1 DEF Cut
    <2> QED BY <2>1, <2>2 DEF SealedTo
  <1>3. RunTo(<<>>, 0) /\ Chain(<<>>, 0) /\ FromTheStart(<<>>)
    BY EmptyRun DEF Chain, FromTheStart
  <1> QED BY <1>1, <1>2, <1>3, StoreInvInit, NilData DEF WholeInv, Whole

LEMMA WholeInvNext == WholeInv /\ [Next]_vars => WholeInv'
  <1> SUFFICES ASSUME WholeInv, [Next]_vars PROVE WholeInv'
    OBVIOUS
  <1> DEFINE n == Len(fragments)
  <1>1. /\ StoreInv' /\ Sound(store) /\ store \in StoreRecord
        /\ fragments \in Seq(Fragment) /\ n \in Nat
    BY StoreInvNext, LenProperties DEF WholeInv, StoreInv, Sound, TypeOK
  <1>2. Whole(store, n)
    BY DEF WholeInv
  <1>3. CASE SetInit
    <2>1. /\ store'.segments = store.segments /\ store'.currentSeg = store.currentSeg
          /\ store'.currentPart = store.currentPart /\ fragments' = fragments
      BY <1>1, <1>3 DEF SetInit, StoreRecord
    <2> QED BY <1>1, <1>2, <2>1 DEF WholeInv, Whole, Cut, SealedTo
  <1>4. ASSUME NEW frag \in Fragment, NEW lost \in SUBSET Uses, AddFragment(frag, lost)
        PROVE  WholeInv'
    <2> DEFINE fed == Accumulate(store, Len(fragments'), frag, lost)
    <2>1. Len(fragments') = n + 1 /\ n + 1 \in Nat
      BY <1>1, <1>4, AppendProperties DEF AddFragment
    <2>2. Filled(fed)
      BY <1>1, <1>4, <2>1, AccumulateSound
    <2>3. Whole(fed, n + 1) /\ fed.currentPart # NoPart
      BY <1>1, <1>2, <1>4, <2>1, AccumulateWhole
    <2>4. store' = FinalizePart(fed).store \/ store' = fed
      BY <1>4 DEF AddFragment
    <2> HIDE DEF fed
    <2>5. Whole(FinalizePart(fed).store, n + 1)
      BY <2>1, <2>2, <2>3, FinalizePartWhole
    <2> QED BY <1>1, <2>1, <2>3, <2>4, <2>5 DEF WholeInv
  <1>5. CASE Finalize
    <2> DEFINE flushed == FlushSegment(FlushPart(store)).store
    <2>1. store' = [flushed EXCEPT !.ended = TRUE] /\ fragments' = fragments
      BY <1>5 DEF Finalize
    <2>2. flushed \in StoreRecord /\ Whole(flushed, n)
      BY <1>1, <1>2, FlushType, FlushWhole
    <2> HIDE DEF flushed
    <2>3. /\ store'.segments = flushed.segments /\ store'.currentSeg = flushed.currentSeg
          /\ store'.currentPart = flushed.currentPart
      BY <2>1, <2>2 DEF StoreRecord
    <2> QED BY <1>1, <2>1, <2>2, <2>3 DEF WholeInv, Whole, Cut, SealedTo
  <1>6. CASE Broadcast \/ BroadcastEnded \/ UNCHANGED vars
    BY <1>1, <1>2, <1>6 DEF Broadcast, BroadcastEnded, vars, WholeInv
  <1> QED BY <1>3, <1>4, <1>5, <1>6 DEF Next

(***************************************************************************)
(* No fragment is lost, repeated or reordered on its way into parts,       *)
(* segments and the window, whatever their durations.                      *)
(***************************************************************************)
THEOREM StreamWhole == Spec => []StreamUnbroken
  <1>1. WholeInv => StreamUnbroken
    BY DEF WholeInv, Whole, Chain, Cut, SealedTo, FromTheStart, StreamUnbroken, Unbroken
  <1> QED BY <1>1, WholeInvInit, WholeInvNext, PTL DEF Spec

-----------------------------------------------------------------------------
(* A segment is its parts.                                                 *)

LEMMA RunLast ==
    ASSUME NEW d \in Seq(Nat), NEW e \in Int, RunTo(d, e), d # <<>>
    PROVE  LastOf(d) = e
  <1>1. Len(d) \in Nat \ {0} /\ DOMAIN d = 1 .. Len(d)
    BY EmptySeq, LenProperties
  <1>2. d[Len(d)] = e - Len(d) + Len(d)
    BY <1>1 DEF RunTo
  <1> QED BY <1>1, <1>2 DEF LastOf

LEMMA PartsGrow ==
    ASSUME NEW seg \in Segment, NEW part \in Part, NEW e \in Nat,
           PartsTile(seg), part.data # <<>>,
           part.msn = seg.msn, part.idx = Len(seg.parts),
           RunTo(seg.data, e - Len(part.data)), RunTo(part.data, e)
    PROVE  PartsTile(Extended(seg, part))
  <1> DEFINE grown == Extended(seg, part)
             old == seg.parts
             len == Len(old)
             new == grown.parts
  <1>1. /\ old \in Seq(Part) /\ seg.data \in Seq(Nat) /\ part.data \in Seq(Nat)
        /\ len \in Nat /\ Len(part.data) \in Nat
    BY LenProperties DEF Segment, Part
  <1>2. /\ new = Append(old, part) /\ grown.data = seg.data \o part.data
        /\ grown.msn = seg.msn
    BY DEF Extended, Segment
  <1> HIDE DEF grown
  <1>3. /\ new \in Seq(Part) /\ new # <<>> /\ Len(new) = len + 1 /\ new[len + 1] = part
        /\ \A i \in 1 .. len : new[i] = old[i]
    <2>1. old \in Seq(Part) /\ new = Append(old, part)
      BY <1>1, <1>2
    <2> HIDE DEF old, new
    <2> QED BY <2>1, AppendProperties
  <1>4. DOMAIN new = 1 .. len + 1 /\ DOMAIN old = 1 .. len
    BY <1>1, <1>3, LenProperties
  <1>5. /\ grown.data \in Seq(Nat) /\ grown.data # <<>> /\ LastOf(grown.data) = e
    <2>1. RunTo(grown.data, e)
      <3> DEFINE c == seg.data
                 d == part.data
      <3> HIDE DEF c, d
      <3>1. c \in Seq(Nat) /\ d \in Seq(Nat) /\ RunTo(c, e - Len(d)) /\ RunTo(d, e)
        BY <1>1 DEF c, d
      <3>2. RunTo(c \o d, e)
        BY <3>1, RunJoined
      <3> QED BY <1>2, <3>2 DEF c, d
    <2>2. grown.data \in Seq(Nat) /\ grown.data # <<>>
      BY <1>1, <1>2, ConcatProperties, ConcatEqualIffEmpty
    <2> QED BY <2>1, <2>2, RunLast
  <1>6. part.data[1] - 1 = e - Len(part.data)
    <2> DEFINE d == part.data
    <2>1. d \in Seq(Nat) /\ RunTo(d, e) /\ d # <<>> /\ e \in Int
      BY <1>1
    <2> HIDE DEF d
    <2>2. d[1] - 1 = e - Len(d)
      BY <2>1, RunFirst
    <2> QED BY <2>2 DEF d
  <1>7. ASSUME NEW i \in DOMAIN new
        PROVE  /\ new[i].msn = seg.msn /\ new[i].idx = i - 1 /\ new[i].data # <<>>
               /\ RunTo(new[i].data, IF i = Len(new) THEN e ELSE new[i + 1].data[1] - 1)
    <2>1. CASE i = len + 1
      BY <1>1, <1>3, <2>1
    <2>2. CASE i \in 1 .. len
      <3>1. /\ old[i].msn = seg.msn /\ old[i].idx = i - 1 /\ old[i].data # <<>>
            /\ RunTo(old[i].data, IF i = len THEN LastOf(seg.data) ELSE old[i + 1].data[1] - 1)
        BY <1>4, <2>2 DEF PartsTile
      <3>2. new[i] = old[i] /\ i # Len(new)
        BY <1>1, <1>3, <2>2
      <3>3. CASE i = len
        <4>1. new[i + 1] = part
          BY <1>3, <3>3
        <4>2. LastOf(seg.data) = e - Len(part.data)
          <5>1. old # <<>>
            BY <1>1, <2>2, EmptySeq
          <5>2. seg.data # <<>>
            BY <5>1 DEF PartsTile
          <5> QED BY <1>1, <5>2, RunLast
        <4>3. RunTo(old[i].data, new[i + 1].data[1] - 1)
          BY <1>6, <3>1, <3>3, <4>1, <4>2
        <4>4. new[i].data = old[i].data /\ new[i].msn = old[i].msn /\ new[i].idx = old[i].idx
          BY <3>2
        <4>5. RunTo(new[i].data, IF i = Len(new) THEN e ELSE new[i + 1].data[1] - 1)
          BY <3>2, <4>3, <4>4
        <4> QED BY <3>1, <4>4, <4>5
      <3>4. CASE i # len
        <4>1. i + 1 \in 1 .. len
          BY <1>1, <2>2, <3>4
        <4>2. new[i + 1] = old[i + 1]
          BY <1>3, <4>1
        <4> QED BY <3>1, <3>2, <3>4, <4>2
      <3> QED BY <3>3, <3>4
    <2>3. i = len + 1 \/ i \in 1 .. len
      BY <1>1, <1>4
    <2> QED BY <2>1, <2>2, <2>3
  <1>8. new[1].data[1] = grown.data[1]
    <2>1. CASE old = <<>>
      <3>1. len = 0 /\ seg.data = <<>>
        BY <2>1, EmptySeq DEF PartsTile
      <3>2. new[1] = part /\ grown.data = part.data
        BY <1>1, <1>2, <1>3, <3>1, ConcatEmptySeq
      <3> QED BY <3>2
    <2>2. CASE old # <<>>
      <3>1. 1 \in 1 .. len /\ seg.data # <<>> /\ old[1].data[1] = seg.data[1]
        BY <1>1, <2>2, EmptySeq DEF PartsTile
      <3>2. new[1] = old[1]
        BY <1>3, <3>1
      <3>3. 1 \in 1 .. Len(seg.data)
        BY <1>1, <3>1, EmptySeq, LenProperties
      <3>4. (seg.data \o part.data)[1] = seg.data[1]
        <4> DEFINE c == seg.data
                   d == part.data
        <4>1. c \in Seq(Nat) /\ d \in Seq(Nat) /\ 1 \in 1 .. Len(c) /\ Len(d) \in Nat
          BY <1>1, <3>3
        <4> HIDE DEF c, d
        <4>2. (c \o d)[1] = c[1]
          BY <4>1, LenProperties, ConcatProperties
        <4> QED BY <4>2 DEF c, d
      <3> QED BY <1>2, <3>1, <3>2, <3>4
    <2> QED BY <2>1, <2>2
  <1> QED BY <1>2, <1>3, <1>5, <1>7, <1>8 DEF PartsTile, grown

AsItsParts == {seg \in Segment : PartsTile(seg)}

LEMMA FreshTiles ==
    ASSUME NEW msn \in Int
    PROVE  NewSegment(msn) \in AsItsParts
  <1>1. NewSegment(msn) \in Segment
    BY FreshSegmentType
  <1>2. PartsTile(NewSegment(msn))
    BY DEF NewSegment, PartsTile
  <1> QED BY <1>1, <1>2 DEF AsItsParts

LEMMA AppendPartTiled ==
    ASSUME NEW s, Filled(s), NEW n \in Nat, Whole(s, n), Tiled(s), s.currentPart # NoPart
    PROVE  Tiled(AppendPart(s))
  <1> DEFINE part == ClosedPart(s)
  <1>1. s \in StoreRecord /\ s.currentSeg \in Segment /\ part \in Part
    BY ClosedPartType, StoreFields DEF Filled, Sound
  <1>2. /\ AppendPart(s).segments = s.segments
        /\ AppendPart(s).currentSeg = Extended(s.currentSeg, part)
    BY <1>1 DEF AppendPart, StoreRecord
  <1>3. /\ part.data = s.currentPart.data /\ part.msn = s.currentSeg.msn
        /\ part.idx = Len(s.currentSeg.parts)
    BY DEF ClosedPart, NextIndex
  <1> HIDE DEF part
  <1>4. /\ part.data # <<>> /\ RunTo(s.currentSeg.data, n - Len(part.data))
        /\ RunTo(part.data, n)
    BY <1>3 DEF Whole, Cut
  <1>5. PartsTile(Extended(s.currentSeg, part))
    BY <1>1, <1>3, <1>4, PartsGrow DEF Tiled
  <1> QED BY <1>2, <1>5 DEF Tiled

LEMMA FinalizeSegmentTiled ==
    ASSUME NEW s \in StoreRecord, Tiled(s)
    PROVE  Tiled(FinalizeSegment(s))
  <1> DEFINE next == FinalizeSegment(s)
             done == Done(s.currentSeg)
  <1>1. /\ s.currentSeg \in Segment /\ s.segments \in Seq(Segment) /\ s.nextMSN \in Int
    BY StoreFields
  <1>2. /\ next.segments = TrimWindow(Append(s.segments, done))
        /\ next.currentSeg = NewSegment(s.nextMSN)
    BY FinalizeSegmentFields
  <1>3. /\ done \in Segment /\ done.data = s.currentSeg.data
        /\ done.parts = s.currentSeg.parts /\ done.msn = s.currentSeg.msn
    BY <1>1, DoneFields
  <1> HIDE DEF next, done
  <1>4. done \in AsItsParts
    BY <1>3 DEF Tiled, PartsTile, AsItsParts
  <1>5. \A i \in DOMAIN s.segments : s.segments[i] \in AsItsParts
    <2> TAKE i \in DOMAIN s.segments
    <2>1. s.segments[i] \in Segment
      BY <1>1, ElementOfSeq, LenProperties
    <2> QED BY <2>1 DEF Tiled, AsItsParts
  <1>6. \A i \in DOMAIN next.segments : next.segments[i] \in AsItsParts
    BY <1>1, <1>2, <1>3, <1>4, <1>5, WindowKeeps
  <1>7. next.currentSeg \in AsItsParts
    BY <1>1, <1>2, FreshTiles
  <1> QED BY <1>6, <1>7 DEF Tiled, AsItsParts, next

LEMMA FinalizePartTiled ==
    ASSUME NEW s, Filled(s), NEW n \in Nat, Whole(s, n), Tiled(s), s.currentPart # NoPart
    PROVE  Tiled(FinalizePart(s).store)
  <1>1. AppendPart(s) \in StoreRecord /\ Tiled(AppendPart(s))
    BY AppendPartType, AppendPartTiled DEF Filled, Sound
  <1>2. Tiled(FinalizeSegment(AppendPart(s)))
    BY <1>1, FinalizeSegmentTiled
  <1> QED BY <1>1, <1>2 DEF FinalizePart

LEMMA FlushTiled ==
    ASSUME NEW s, Sound(s), NEW n \in Nat, Whole(s, n), Tiled(s)
    PROVE  Tiled(FlushSegment(FlushPart(s)).store)
  <1> DEFINE f == FlushPart(s)
  <1>1. f.store \in StoreRecord /\ Tiled(f.store)
    <2>1. CASE s.currentPart = NoPart
      BY <2>1 DEF FlushPart, Sound
    <2>2. CASE s.currentPart # NoPart
      <3>1. Filled(s) /\ s \in StoreRecord
        BY <2>2, LatestTypes DEF Sound, Windowed, Filled
      <3>2. f = FinalizePart(s)
        BY <2>2 DEF FlushPart
      <3> QED BY <2>2, <3>1, <3>2, FinalizePartType, FinalizePartTiled
    <2> QED BY <2>1, <2>2
  <1> HIDE DEF f
  <1>2. Tiled(FinalizeSegment(f.store))
    BY <1>1, FinalizeSegmentTiled
  <1> QED BY <1>1, <1>2 DEF FlushSegment, f

TileInv ==
    /\ WholeInv
    /\ Tiled(store)

LEMMA AccumulateTiled ==
    ASSUME NEW s \in StoreRecord, Tiled(s), NEW id \in Nat,
           NEW frag \in Fragment, NEW lost \in SUBSET Uses
    PROVE  Tiled(Accumulate(s, id, frag, lost))
  <1> DEFINE fed == Accumulate(s, id, frag, lost)
  <1>1. /\ fed.segments = s.segments
        /\ fed.currentSeg = IF s.currentSeg = NoSegment
                            THEN NewSegment(s.nextMSN) ELSE s.currentSeg
    BY AccumulateFields
  <1>2. PartsTile(NewSegment(s.nextMSN))
    <2>1. s.nextMSN \in Int
      BY StoreFields
    <2> QED BY <2>1, FreshTiles DEF AsItsParts
  <1> HIDE DEF fed
  <1>3. Tiled(fed)
    BY <1>1, <1>2 DEF Tiled
  <1> QED BY <1>3 DEF fed

LEMMA TileInvInit == Init => TileInv
  <1> SUFFICES ASSUME Init PROVE TileInv
    OBVIOUS
  <1>1. store.segments = <<>> /\ store.currentSeg = NewSegment(-1)
    BY DEF Init, NewStore, NoSegment
  <1>2. PartsTile(store.currentSeg)
    BY <1>1, FreshTiles DEF AsItsParts
  <1> QED BY <1>1, <1>2, WholeInvInit DEF TileInv, Tiled

LEMMA TileInvNext == TileInv /\ [Next]_vars => TileInv'
  <1> SUFFICES ASSUME TileInv, [Next]_vars PROVE TileInv'
    OBVIOUS
  <1> DEFINE n == Len(fragments)
  <1>1. /\ WholeInv' /\ Sound(store) /\ store \in StoreRecord
        /\ fragments \in Seq(Fragment) /\ n \in Nat
    BY WholeInvNext, LenProperties DEF TileInv, WholeInv, StoreInv, Sound, TypeOK
  <1>2. Whole(store, n) /\ Tiled(store)
    BY DEF TileInv, WholeInv
  <1>3. CASE SetInit
    <2>1. store'.segments = store.segments /\ store'.currentSeg = store.currentSeg
      BY <1>1, <1>3 DEF SetInit, StoreRecord
    <2> QED BY <1>1, <1>2, <2>1 DEF TileInv, Tiled
  <1>4. ASSUME NEW frag \in Fragment, NEW lost \in SUBSET Uses, AddFragment(frag, lost)
        PROVE  TileInv'
    <2> DEFINE fed == Accumulate(store, Len(fragments'), frag, lost)
    <2>1. Len(fragments') = n + 1 /\ n + 1 \in Nat
      BY <1>1, <1>4, AppendProperties DEF AddFragment
    <2>2. Filled(fed)
      BY <1>1, <1>4, <2>1, AccumulateSound
    <2>3. Whole(fed, n + 1) /\ fed.currentPart # NoPart
      BY <1>1, <1>2, <1>4, <2>1, AccumulateWhole
    <2>4. store' = FinalizePart(fed).store \/ store' = fed
      BY <1>4 DEF AddFragment
    <2>5. Tiled(fed)
      BY <1>1, <1>2, <2>1, AccumulateTiled
    <2> HIDE DEF fed
    <2>6. Tiled(FinalizePart(fed).store)
      BY <2>1, <2>2, <2>3, <2>5, FinalizePartTiled
    <2> QED BY <1>1, <2>4, <2>5, <2>6 DEF TileInv
  <1>5. CASE Finalize
    <2> DEFINE flushed == FlushSegment(FlushPart(store)).store
    <2>1. store' = [flushed EXCEPT !.ended = TRUE]
      BY <1>5 DEF Finalize
    <2>2. flushed \in StoreRecord /\ Tiled(flushed)
      BY <1>1, <1>2, FlushType, FlushTiled
    <2> HIDE DEF flushed
    <2>3. store'.segments = flushed.segments /\ store'.currentSeg = flushed.currentSeg
      BY <2>1, <2>2 DEF StoreRecord
    <2> QED BY <1>1, <2>2, <2>3 DEF TileInv, Tiled
  <1>6. CASE Broadcast \/ BroadcastEnded \/ UNCHANGED vars
    BY <1>1, <1>2, <1>6 DEF Broadcast, BroadcastEnded, vars, TileInv
  <1> QED BY <1>3, <1>4, <1>5, <1>6 DEF Next

(***************************************************************************)
(* Fetched whole or part by part, a segment is the same bytes, and its     *)
(* parts are numbered from 0 under its number.                             *)
(***************************************************************************)
THEOREM SegmentTiled == Spec => []SegmentIsItsParts
  <1>1. TileInv => SegmentIsItsParts
    BY DEF TileInv, SegmentIsItsParts
  <1> QED BY <1>1, TileInvInit, TileInvNext, PTL DEF Spec

-----------------------------------------------------------------------------
(* The published parts.                                                    *)

\* A published part carries its number and that of its segment; in the
\* current segment the index is less than their number.
LEMMA Numbered ==
    ASSUME NEW s, Sound(s), Tiled(s), NEW p \in Published(s)
    PROVE  /\ p[2].msn = p[1] /\ p[1] \in Int /\ p[2].idx \in Nat /\ p[2] \in Part
           /\ p[1] = s.currentSeg.msn => p[2].idx < Len(s.currentSeg.parts)
           /\ s.currentSeg.parts # <<>> \/ s.segments # <<>>
  <1>1. /\ s.segments \in Seq(Segment) /\ s.currentSeg \in Segment
        /\ DOMAIN s.segments = 1 .. Len(s.segments) /\ Len(s.segments) \in Nat
    BY StoreFields, LenProperties DEF Sound
  <1>2. ASSUME NEW seg \in Segment, PartsTile(seg), Shows(seg, p)
        PROVE  /\ p[2].msn = p[1] /\ p[1] = seg.msn /\ p[1] \in Int
               /\ p[2].idx \in Nat /\ p[2] \in Part /\ p[2].idx < Len(seg.parts)
               /\ seg.parts # <<>>
    <2>1. PICK j \in DOMAIN seg.parts : p = <<seg.msn, seg.parts[j]>>
      BY <1>2 DEF Shows
    <2>2. /\ seg.parts \in Seq(Part) /\ seg.msn \in Int
          /\ j \in 1 .. Len(seg.parts) /\ Len(seg.parts) \in Nat
      BY LenProperties DEF Segment
    <2>3. seg.parts[j] \in Part
      BY <2>2, ElementOfSeq
    <2>4. seg.parts[j].msn = seg.msn /\ seg.parts[j].idx = j - 1
      BY <1>2, <2>1 DEF PartsTile
    <2>5. p[1] = seg.msn /\ p[2] = seg.parts[j]
      BY <2>1
    <2>6. seg.parts # <<>>
      BY <2>2
    <2> QED BY <2>2, <2>3, <2>4, <2>5, <2>6
  <1>3. CASE Shows(s.currentSeg, p)
    BY <1>1, <1>2, <1>3 DEF Tiled
  <1>4. ASSUME NEW i \in DOMAIN s.segments, Shows(s.segments[i], p)
        PROVE  /\ p[2].msn = p[1] /\ p[1] \in Int /\ p[2].idx \in Nat /\ p[2] \in Part
               /\ p[1] # s.currentSeg.msn
    <2>1. s.segments[i] \in Segment /\ PartsTile(s.segments[i])
      BY <1>1, ElementOfSeq DEF Tiled
    <2>2. s.segments[i].msn = s.currentSeg.msn - Len(s.segments) + i - 1
      BY <1>1 DEF Sound, Windowed
    <2>3. s.currentSeg.msn \in Int
      BY <1>1 DEF Segment
    <2>4. s.segments[i].msn # s.currentSeg.msn
      BY <1>1, <2>2, <2>3
    <2> QED BY <1>2, <1>4, <2>1, <2>4
  <1>5. (\E i \in DOMAIN s.segments : Shows(s.segments[i], p)) => s.segments # <<>>
    BY <1>1
  <1> QED BY <1>3, <1>4, <1>5, PublishedBy DEF Shows

\* A closed part is the only one that its segment gains.
LEMMA GainsOnePart ==
    ASSUME NEW s, Filled(s), NEW p \in Published(AppendPart(s)), p \notin Published(s)
    PROVE  p = <<s.currentSeg.msn, ClosedPart(s)>>
  <1> DEFINE grown == AppendPart(s)
             part == ClosedPart(s)
             parts == s.currentSeg.parts
  <1>1. /\ s \in StoreRecord /\ s.currentSeg \in Segment /\ part \in Part
        /\ parts \in Seq(Part)
    BY ClosedPartType, StoreFields DEF Filled, Sound, Segment
  <1>2. /\ grown.segments = s.segments /\ grown.currentSeg.msn = s.currentSeg.msn
        /\ grown.currentSeg.parts = Append(parts, part)
    BY <1>1, AppendPartFields
  <1> HIDE DEF grown, part
  <1>3. Shows(grown.currentSeg, p) /\ ~Shows(s.currentSeg, p)
    BY <1>2, PublishedBy DEF grown
  <1>4. PICK j \in DOMAIN grown.currentSeg.parts :
            p = <<s.currentSeg.msn, grown.currentSeg.parts[j]>>
    BY <1>2, <1>3 DEF Shows
  <1>5. /\ Append(parts, part)[Len(parts) + 1] = part
        /\ \A k \in 1 .. Len(parts) : Append(parts, part)[k] = parts[k]
        /\ DOMAIN Append(parts, part) = 1 .. Len(parts) + 1
        /\ Len(parts) \in Nat /\ DOMAIN parts = 1 .. Len(parts)
    BY <1>1, AppendProperties, LenProperties
  <1>6. CASE j = Len(parts) + 1
    BY <1>2, <1>4, <1>5, <1>6 DEF part
  <1>7. CASE j # Len(parts) + 1
    <2>1. j \in DOMAIN parts /\ grown.currentSeg.parts[j] = parts[j]
      BY <1>2, <1>4, <1>5, <1>7
    <2>2. Shows(s.currentSeg, p)
      BY <1>4, <2>1 DEF Shows
    <2> QED BY <1>3, <2>2
  <1> QED BY <1>6, <1>7

-----------------------------------------------------------------------------
(* What a part says of its first fragment.                                 *)

TrueOf(data, independent, frags) ==
    /\ data # <<>> /\ data[1] \in DOMAIN frags
    /\ independent = frags[data[1]].key

TrueParts(frags) ==
    {seg \in Segment : \A j \in DOMAIN seg.parts :
        TrueOf(seg.parts[j].data, seg.parts[j].independent, frags)}

Truthful(s, frags) ==
    /\ s.currentPart # NoPart =>
          TrueOf(s.currentPart.data, s.currentPart.independent, frags)
    /\ s.currentSeg \in TrueParts(frags)
    /\ \A i \in DOMAIN s.segments : s.segments[i] \in TrueParts(frags)

LEMMA FreshIsTrue ==
    ASSUME NEW msn \in Int, NEW frags
    PROVE  NewSegment(msn) \in TrueParts(frags)
  <1>1. NewSegment(msn) \in Segment /\ NewSegment(msn).parts = <<>>
    BY FreshSegmentType, NilData
  <1> QED BY <1>1 DEF TrueParts

\* Delivering another fragment changes nothing about those before it.
LEMMA StaysTrue ==
    ASSUME NEW s, NEW frags \in Seq(Fragment), NEW frag \in Fragment, Truthful(s, frags)
    PROVE  Truthful(s, Append(frags, frag))
  <1> DEFINE more == Append(frags, frag)
  <1>1. \A i \in DOMAIN frags : i \in DOMAIN more /\ more[i] = frags[i]
    BY AppendProperties, LenProperties
  <1> HIDE DEF more
  <1>2. ASSUME NEW data, NEW independent, TrueOf(data, independent, frags)
        PROVE  TrueOf(data, independent, more)
    BY <1>1, <1>2 DEF TrueOf
  <1>3. TrueParts(frags) \subseteq TrueParts(more)
    BY <1>2 DEF TrueParts
  <1> QED BY <1>2, <1>3 DEF Truthful, more

LEMMA AccumulateTrue ==
    ASSUME NEW s, Sound(s), NEW frags \in Seq(Fragment),
           NEW frag \in Fragment, NEW lost \in SUBSET Uses,
           Truthful(s, frags)
    PROVE  LET more == Append(frags, frag)
               fed == Accumulate(s, Len(more), frag, lost)
           IN  Truthful(fed, more) /\ fed.currentPart # NoPart
  <1> DEFINE more == Append(frags, frag)
             n == Len(more)
             fed == Accumulate(s, n, frag, lost)
             acc == IF s.currentPart = NoPart THEN NewPart(frag.key) ELSE s.currentPart
  <1>1. s \in StoreRecord /\ n \in Nat /\ n \in DOMAIN more /\ more[n] = frag
        /\ Truthful(s, more) /\ frag.key \in BOOLEAN
    <2>1. /\ more \in Seq(Fragment) /\ n = Len(frags) + 1 /\ Len(frags) \in Nat
          /\ more[Len(frags) + 1] = frag
      BY AppendProperties, LenProperties
    <2>2. frag.key \in BOOLEAN
      BY StoreAssumption DEF StoreAssumption, Fragment
    <2> QED BY <2>1, <2>2, StaysTrue, LenProperties DEF Sound
  <1>2. /\ fed.segments = s.segments /\ acc \in PartAccumulator
        /\ fed.currentSeg = IF s.currentSeg = NoSegment
                            THEN NewSegment(s.nextMSN) ELSE s.currentSeg
        /\ fed.currentPart.data = Append(acc.data, n)
    BY <1>1, AccumulateFields
  <1>3. fed.currentPart.independent = acc.independent
    BY <1>1, <1>2 DEF Accumulate, StoreRecord, PartAccumulator
  <1> HIDE DEF fed, n, more
  <1>4. TrueOf(fed.currentPart.data, fed.currentPart.independent, more)
    <2>1. acc.data \in Seq(Nat)
      BY <1>2 DEF PartAccumulator
    <2> HIDE DEF acc
    <2>2. /\ fed.currentPart.data # <<>>
          /\ fed.currentPart.data[1] = IF acc.data = <<>> THEN n ELSE acc.data[1]
      <3>1. /\ Append(acc.data, n) # <<>> /\ Len(acc.data) \in Nat
            /\ \A i \in 1 .. Len(acc.data) : Append(acc.data, n)[i] = acc.data[i]
            /\ Append(acc.data, n)[Len(acc.data) + 1] = n
        BY <1>1, <2>1, AppendProperties, LenProperties
      <3>2. acc.data = <<>> <=> Len(acc.data) = 0
        BY <2>1, EmptySeq
      <3> QED BY <1>2, <3>1, <3>2
    <2>3. CASE s.currentPart = NoPart
      <3>1. acc.data = <<>> /\ acc.independent = frag.key
        BY <1>1, <2>3, NilData DEF acc, NewPart
      <3> QED BY <1>1, <1>3, <2>2, <3>1 DEF TrueOf
    <2>4. CASE s.currentPart # NoPart
      <3>1. TrueOf(acc.data, acc.independent, more)
        BY <1>1, <2>4 DEF Truthful, acc
      <3> QED BY <1>3, <2>2, <3>1 DEF TrueOf
    <2> QED BY <2>3, <2>4
  <1>5. fed.currentSeg \in TrueParts(more)
    BY <1>1, <1>2, StoreFields, FreshIsTrue DEF Truthful
  <1>6. fed.currentPart # NoPart
    BY <1>4, NilData DEF TrueOf
  <1> QED BY <1>1, <1>2, <1>4, <1>5, <1>6 DEF Truthful, fed, n, more

LEMMA AppendPartTrue ==
    ASSUME NEW s \in StoreRecord, NEW frags, Truthful(s, frags), s.currentPart # NoPart
    PROVE  Truthful(AppendPart(s), frags)
  <1> DEFINE grown == AppendPart(s)
             part == ClosedPart(s)
             seg == s.currentSeg
  <1>1. /\ grown \in StoreRecord /\ part \in Part /\ seg \in Segment
        /\ grown.segments = s.segments /\ grown.currentPart = NoPart
        /\ grown.currentSeg.parts = Append(seg.parts, part)
        /\ part.data = s.currentPart.data
    BY AppendPartType, AppendPartFields, ClosedPartType, StoreFields
  <1>2. part.independent = s.currentPart.independent
    BY DEF ClosedPart
  <1> HIDE DEF grown, part
  <1>3. grown.currentSeg \in Segment /\ seg.parts \in Seq(Part)
    BY <1>1, StoreFields DEF Segment
  <1>4. ASSUME NEW j \in DOMAIN grown.currentSeg.parts
        PROVE  TrueOf(grown.currentSeg.parts[j].data,
                      grown.currentSeg.parts[j].independent, frags)
    <2>1. /\ j \in 1 .. Len(seg.parts) + 1 /\ Len(seg.parts) \in Nat
          /\ DOMAIN seg.parts = 1 .. Len(seg.parts)
          /\ \A i \in 1 .. Len(seg.parts) : grown.currentSeg.parts[i] = seg.parts[i]
          /\ grown.currentSeg.parts[Len(seg.parts) + 1] = part
      BY <1>1, <1>3, <1>4, AppendProperties, LenProperties
    <2>2. CASE j = Len(seg.parts) + 1
      BY <1>1, <1>2, <2>1, <2>2 DEF Truthful
    <2>3. CASE j \in 1 .. Len(seg.parts)
      <3>1. TrueOf(seg.parts[j].data, seg.parts[j].independent, frags)
        BY <2>1, <2>3 DEF Truthful, TrueParts
      <3> QED BY <2>1, <2>3, <3>1
    <2> QED BY <2>1, <2>2, <2>3
  <1>5. grown.currentSeg \in TrueParts(frags)
    BY <1>3, <1>4 DEF TrueParts
  <1> QED BY <1>1, <1>5 DEF Truthful, grown

LEMMA FinalizeSegmentTrue ==
    ASSUME NEW s \in StoreRecord, NEW frags, Truthful(s, frags)
    PROVE  Truthful(FinalizeSegment(s), frags)
  <1> DEFINE next == FinalizeSegment(s)
             done == Done(s.currentSeg)
  <1>1. /\ s.currentSeg \in Segment /\ s.segments \in Seq(Segment) /\ s.nextMSN \in Int
        /\ next.segments = TrimWindow(Append(s.segments, done))
        /\ next.currentSeg = NewSegment(s.nextMSN)
        /\ next.currentPart = s.currentPart
    BY StoreFields, FinalizeSegmentFields
  <1>2. done \in Segment /\ done.parts = s.currentSeg.parts
    BY <1>1, DoneFields
  <1> HIDE DEF next, done
  <1>3. done \in TrueParts(frags)
    BY <1>2 DEF Truthful, TrueParts
  <1>4. \A i \in DOMAIN next.segments : next.segments[i] \in TrueParts(frags)
    BY <1>1, <1>2, <1>3, WindowKeeps DEF Truthful
  <1> QED BY <1>1, <1>4, FreshIsTrue DEF Truthful, next

LEMMA FinalizePartTrue ==
    ASSUME NEW s \in StoreRecord, NEW frags, Truthful(s, frags), s.currentPart # NoPart
    PROVE  Truthful(FinalizePart(s).store, frags)
  <1>1. AppendPart(s) \in StoreRecord /\ Truthful(AppendPart(s), frags)
    BY AppendPartType, AppendPartTrue
  <1>2. Truthful(FinalizeSegment(AppendPart(s)), frags)
    BY <1>1, FinalizeSegmentTrue
  <1> QED BY <1>1, <1>2 DEF FinalizePart

LEMMA FlushTrue ==
    ASSUME NEW s \in StoreRecord, NEW frags, Truthful(s, frags)
    PROVE  Truthful(FlushSegment(FlushPart(s)).store, frags)
  <1> DEFINE f == FlushPart(s)
  <1>1. f.store \in StoreRecord /\ Truthful(f.store, frags)
    BY FinalizePartType, FinalizePartTrue DEF FlushPart
  <1> HIDE DEF f
  <1>2. Truthful(FinalizeSegment(f.store), frags)
    BY <1>1, FinalizeSegmentTrue
  <1> QED BY <1>1, <1>2 DEF FlushSegment, f

TruthInv == StoreInv /\ Truthful(store, fragments)

LEMMA TruthInvInit == Init => TruthInv
  <1> SUFFICES ASSUME Init PROVE TruthInv
    OBVIOUS
  <1>1. /\ store.segments = <<>> /\ store.currentSeg = NewSegment(-1)
        /\ store.currentPart = NoPart
    BY DEF Init, NewStore, NoSegment
  <1> QED BY <1>1, StoreInvInit, FreshIsTrue DEF TruthInv, Truthful

LEMMA TruthInvNext == TruthInv /\ [Next]_vars => TruthInv'
  <1> SUFFICES ASSUME TruthInv, [Next]_vars PROVE TruthInv'
    OBVIOUS
  <1>1. /\ StoreInv' /\ Sound(store) /\ store \in StoreRecord
        /\ fragments \in Seq(Fragment) /\ Truthful(store, fragments)
    BY StoreInvNext DEF TruthInv, StoreInv, Sound, TypeOK
  <1>2. CASE SetInit
    <2>1. /\ store'.segments = store.segments /\ store'.currentSeg = store.currentSeg
          /\ store'.currentPart = store.currentPart /\ fragments' = fragments
      BY <1>1, <1>2 DEF SetInit, StoreRecord
    <2> QED BY <1>1, <2>1 DEF TruthInv, Truthful
  <1>3. ASSUME NEW frag \in Fragment, NEW lost \in SUBSET Uses, AddFragment(frag, lost)
        PROVE  TruthInv'
    <2> DEFINE fed == Accumulate(store, Len(fragments'), frag, lost)
    <2>1. fragments' = Append(fragments, frag) /\ Len(fragments') \in Nat
      BY <1>1, <1>3, AppendProperties, LenProperties DEF AddFragment
    <2>2. Truthful(fed, fragments') /\ fed.currentPart # NoPart /\ fed \in StoreRecord
      BY <1>1, <2>1, AccumulateTrue, AccumulateType
    <2>3. store' = FinalizePart(fed).store \/ store' = fed
      BY <1>3 DEF AddFragment
    <2> HIDE DEF fed
    <2> QED BY <1>1, <2>2, <2>3, FinalizePartTrue DEF TruthInv
  <1>4. CASE Finalize
    <2> DEFINE flushed == FlushSegment(FlushPart(store)).store
    <2>1. store' = [flushed EXCEPT !.ended = TRUE] /\ fragments' = fragments
      BY <1>4 DEF Finalize
    <2>2. flushed \in StoreRecord /\ Truthful(flushed, fragments)
      BY <1>1, FlushType, FlushTrue
    <2> HIDE DEF flushed
    <2>3. /\ store'.segments = flushed.segments /\ store'.currentSeg = flushed.currentSeg
          /\ store'.currentPart = flushed.currentPart
      BY <2>1, <2>2 DEF StoreRecord
    <2> QED BY <1>1, <2>1, <2>2, <2>3 DEF TruthInv, Truthful
  <1>5. CASE Broadcast \/ BroadcastEnded \/ UNCHANGED vars
    BY <1>1, <1>5 DEF Broadcast, BroadcastEnded, vars, TruthInv
  <1> QED BY <1>2, <1>3, <1>4, <1>5 DEF Next

(***************************************************************************)
(* INDEPENDENT=YES is told of exactly the parts that start with a          *)
(* keyframe, however many fragments a part is made of.                     *)
(***************************************************************************)
THEOREM IndependentTruthful == Spec => []IndependentIsTrue
  <1>1. TruthInv => IndependentIsTrue
    <2> SUFFICES ASSUME TruthInv PROVE IndependentIsTrue
      OBVIOUS
    <2>1. Truthful(store, fragments)
      BY DEF TruthInv
    <2> QED BY <2>1 DEF Truthful, TrueParts, TrueOf, IndependentIsTrue
  <1> QED BY <1>1, TruthInvInit, TruthInvNext, PTL DEF Spec

-----------------------------------------------------------------------------
(* How long the media plays, and how long it is said to play.              *)

\* f[k] is the media time of the first k fragments.
Counts(f, frags) ==
    f = [k \in 0 .. Len(frags) |-> IF k = 0 THEN 0 ELSE f[k - 1] + frags[k].ticks]

Timeline(f, n) == \A k \in 0 .. n : f[k] \in Int

Within(data, n) == data # <<>> => data[1] \in 1 .. n /\ LastOf(data) \in 1 .. n

Reporting(f, n) ==
    {seg \in Segment : /\ Within(seg.data, n)
                       /\ \A j \in DOMAIN seg.parts : Within(seg.parts[j].data, n)
                       /\ Reports(seg, f)}

Accurate(s, f, n) ==
    /\ Timeline(f, n)
    /\ SealedTo(s, n) >= 0
    /\ s.currentPart.ticks = f[n] - f[Cut(s, n)]
    /\ s.currentSeg \in Reporting(f, n)
    /\ \A i \in DOMAIN s.segments : s.segments[i] \in Reporting(f, n)

LEMMA RunSpan ==
    ASSUME NEW d \in Seq(Nat), NEW n \in Nat, NEW e \in 0 .. n, RunTo(d, e),
           NEW f, Timeline(f, n), e - Len(d) >= 0
    PROVE  Span(f, d) = f[e] - f[e - Len(d)] /\ Span(f, d) \in Int /\ Within(d, n)
  <1>1. Len(d) \in Nat /\ e \in Int /\ e - Len(d) \in 0 .. n
    BY LenProperties
  <1>2. f[e] \in Int /\ f[e - Len(d)] \in Int
    BY <1>1 DEF Timeline
  <1>3. CASE d = <<>>
    <2>1. Len(d) = 0
      BY <1>3, EmptySeq
    <2>2. Span(f, d) = 0
      BY <1>3 DEF Span
    <2>3. e - Len(d) = e
      BY <1>1, <2>1
    <2> QED BY <1>2, <1>3, <2>2, <2>3 DEF Within
  <1>4. CASE d # <<>>
    <2>1. LastOf(d) = e /\ d[1] - 1 = e - Len(d)
      BY <1>1, <1>4, RunLast, RunFirst
    <2>2. Span(f, d) = f[e] - f[e - Len(d)]
      BY <1>4, <2>1 DEF Span
    <2>3. Len(d) \in Nat \ {0} /\ d[1] \in Nat
      BY <1>4, EmptySeq, LenProperties, ElementOfSeq
    <2>4. d[1] \in 1 .. n /\ LastOf(d) \in 1 .. n
      BY <1>1, <2>1, <2>3
    <2> QED BY <1>2, <2>2, <2>4 DEF Within
  <1> QED BY <1>3, <1>4

\* A whole number of milliseconds, from m ticks each.
LEMMA RoundedDown ==
    ASSUME NEW t \in Nat, NEW m \in Nat \ {0}
    PROVE  t \div m \in Nat /\ (t \div m) * m <= t /\ t - (t \div m) * m < m
  OBVIOUS

LEMMA Distributes ==
    ASSUME NEW a \in Int, NEW b \in Int, NEW m \in Int
    PROVE  (a + b) * m = a * m + b * m /\ m * (a + b) = m * a + m * b
           /\ a * m \in Int /\ m * a \in Int
  OBVIOUS

\* What an accumulator's milliseconds fall short of it by.
LEMMA MillisecondsShort ==
    ASSUME NEW acc \in PartAccumulator
    PROVE  acc.ticks - Milliseconds(acc) * TicksPerMs \in 0 .. TicksPerMs
  <1> DEFINE sum == SumRead(acc, "ms")
             ticks == acc.ticks
             m == TicksPerMs
             q == sum \div m
             b == q * m
  <1>1. m \in Nat \ {0}
    BY StoreAssumption DEF StoreAssumption
  <1>2. sum \in Nat /\ ticks \in Nat /\ sum <= ticks /\ ticks - 1 <= sum
    BY SumReadBounds
  <1>3. Milliseconds(acc) = q
    BY DEF Milliseconds
  <1> HIDE DEF sum, ticks, m
  <1>4. q \in Nat /\ q * m <= sum /\ sum - q * m < m
    BY <1>1, <1>2, RoundedDown
  <1> HIDE DEF q
  <1>5. b \in Int /\ b <= sum /\ sum - b < m
    BY <1>1, <1>4
  <1> HIDE DEF b
  <1>6. ticks - b \in 0 .. m
    BY <1>1, <1>2, <1>5
  <1> QED BY <1>3, <1>6 DEF b, ticks, m

\* A segment of len parts, and one more part.
LEMMA OneMoreRounded ==
    ASSUME NEW dur \in Nat, NEW len \in Nat, NEW span \in Int,
           NEW ticks \in Nat, NEW q \in Nat, NEW m \in Nat \ {0},
           dur * m <= span, span - dur * m <= m * len, ticks - q * m \in 0 .. m
    PROVE  LET new == dur + q
           IN  new * m <= span + ticks /\ span + ticks - new * m <= m * (len + 1)
  <1>1. /\ (dur + q) * m = dur * m + q * m /\ m * (len + 1) = m * len + m * 1
        /\ dur * m \in Int /\ q * m \in Int /\ m * len \in Int
    BY Distributes
  <1>2. m * 1 = m
    OBVIOUS
  <1> DEFINE a == dur * m
             b == q * m
             c == m * len
             total == (dur + q) * m
             most == m * (len + 1)
  <1>3. total = a + b /\ most = c + m /\ a \in Int /\ b \in Int /\ c \in Int
    BY <1>1, <1>2
  <1>4. a <= span /\ ticks - b \in 0 .. m /\ span - a <= c
    OBVIOUS
  <1> HIDE DEF a, b, c, total, most
  <1>5. total <= span + ticks /\ span + ticks - total <= most
    BY <1>3, <1>4
  <1> QED BY <1>5 DEF total, most

\* Delivering another fragment changes nothing about those before it.
LEMMA StaysReported ==
    ASSUME NEW n \in Nat, NEW f, NEW g, \A k \in 0 .. n : g[k] = f[k],
           NEW seg \in Reporting(f, n)
    PROVE  seg \in Reporting(g, n + 1)
  <1>1. /\ seg \in Segment /\ seg.data \in Seq(Nat) /\ seg.parts \in Seq(Part)
        /\ DOMAIN seg.parts = 1 .. Len(seg.parts)
    BY LenProperties DEF Reporting, Segment
  <1>2. ASSUME NEW d \in Seq(Nat), Within(d, n)
        PROVE  Within(d, n + 1) /\ Span(g, d) = Span(f, d)
    <2>1. CASE d = <<>>
      BY <2>1 DEF Within, Span
    <2>2. CASE d # <<>>
      <3>1. d[1] \in 1 .. n /\ LastOf(d) \in 1 .. n
        BY <1>2, <2>2 DEF Within
      <3>2. d[1] \in 1 .. n + 1 /\ LastOf(d) \in 1 .. n + 1
            /\ d[1] - 1 \in 0 .. n /\ LastOf(d) \in 0 .. n
        BY <3>1
      <3> QED BY <2>2, <3>2 DEF Within, Span
    <2> QED BY <2>1, <2>2
  <1>3. Within(seg.data, n + 1) /\ Span(g, seg.data) = Span(f, seg.data)
    BY <1>1, <1>2 DEF Reporting
  <1>4. ASSUME NEW j \in DOMAIN seg.parts
        PROVE  /\ Within(seg.parts[j].data, n + 1)
               /\ Span(g, seg.parts[j].data) = Span(f, seg.parts[j].data)
    <2>1. seg.parts[j] \in Part
      BY <1>1, ElementOfSeq
    <2>2. seg.parts[j].data \in Seq(Nat)
      BY <2>1 DEF Part
    <2> QED BY <1>2, <2>2 DEF Reporting
  <1> QED BY <1>1, <1>3, <1>4 DEF Reporting, Reports

LEMMA FreshReports ==
    ASSUME NEW msn \in Int, NEW f, NEW n
    PROVE  NewSegment(msn) \in Reporting(f, n)
  <1>1. /\ NewSegment(msn) \in Segment /\ NewSegment(msn).parts = <<>>
        /\ NewSegment(msn).data = <<>> /\ NewSegment(msn).dur = 0
    BY FreshSegmentType DEF NewSegment
  <1>2. 0 * TicksPerMs = 0 /\ TicksPerMs * 0 = 0
    BY StoreAssumption DEF StoreAssumption
  <1>3. DOMAIN <<>> = {} /\ Len(<<>>) = 0 /\ Span(f, <<>>) = 0
    BY DEF Span
  <1>4. Reports(NewSegment(msn), f)
    BY <1>1, <1>2, <1>3 DEF Reports
  <1> QED BY <1>1, <1>4 DEF Reporting, Within

LEMMA AccumulateAccurate ==
    ASSUME NEW s, Sound(s), NEW n \in Nat, Whole(s, n),
           NEW frag \in Fragment, NEW lost \in SUBSET Uses,
           NEW f, Accurate(s, f, n),
           NEW g, \A k \in 0 .. n : g[k] = f[k], g[n + 1] = g[n] + frag.ticks
    PROVE  Accurate(Accumulate(s, n + 1, frag, lost), g, n + 1)
  <1> DEFINE fed == Accumulate(s, n + 1, frag, lost)
             acc == IF s.currentPart = NoPart THEN NewPart(frag.key) ELSE s.currentPart
  <1>1. /\ s \in StoreRecord /\ frag.ticks \in Nat
        /\ Cut(s, n) \in Int /\ SealedTo(s, n) \in Int
        /\ s.currentSeg.data \in Seq(Nat) /\ s.currentPart.data \in Seq(Nat)
        /\ s.currentPart \in PartAccumulator
    BY StoreAssumption, WholeTypes DEF StoreAssumption, Fragment, Sound
  <1>2. /\ Cut(fed, n + 1) = Cut(s, n) /\ SealedTo(fed, n + 1) = SealedTo(s, n)
    BY AccumulateWhole
  <1>3. /\ fed.segments = s.segments
        /\ fed.currentSeg = IF s.currentSeg = NoSegment
                            THEN NewSegment(s.nextMSN) ELSE s.currentSeg
        /\ fed.currentPart.ticks = acc.ticks + frag.ticks
    BY <1>1, AccumulateFields
  <1>4. acc.ticks = s.currentPart.ticks /\ acc.ticks \in Nat
    BY <1>1 DEF NewPart, NoPart, PartAccumulator
  <1> HIDE DEF fed, acc
  <1>5. Timeline(g, n + 1)
    <2>1. \A k \in 0 .. n : g[k] \in Int
      BY DEF Accurate, Timeline
    <2>2. n \in 0 .. n /\ g[n + 1] \in Int
      BY <1>1, <2>1
    <2>3. \A k \in 0 .. n + 1 : k \in 0 .. n \/ k = n + 1
      OBVIOUS
    <2> QED BY <2>1, <2>2, <2>3 DEF Timeline
  <1>6. Cut(s, n) \in 0 .. n
    <2> DEFINE open == Len(s.currentPart.data)
               closed == Len(s.currentSeg.data)
               cut == Cut(s, n)
    <2>1. open \in Nat /\ closed \in Nat
      BY <1>1, LenProperties
    <2>2. cut = n - open /\ cut - closed >= 0
      BY DEF SealedTo, Cut, Accurate
    <2> HIDE DEF open, closed, cut
    <2>3. cut \in 0 .. n
      BY <2>1, <2>2
    <2> QED BY <2>3 DEF cut
  <1>7. fed.currentPart.ticks = g[n + 1] - g[Cut(s, n)]
    <2>1. /\ g[n] = f[n] /\ g[Cut(s, n)] = f[Cut(s, n)]
          /\ f[n] \in Int /\ f[Cut(s, n)] \in Int
      <3>1. n \in 0 .. n
        OBVIOUS
      <3> QED BY <1>6, <3>1 DEF Accurate, Timeline
    <2>2. s.currentPart.ticks = f[n] - f[Cut(s, n)]
      BY DEF Accurate
    <2> QED BY <1>1, <1>3, <1>4, <2>1, <2>2
  <1>8. fed.currentSeg \in Reporting(g, n + 1)
    <2>1. s.currentSeg \in Reporting(g, n + 1)
      BY StaysReported DEF Accurate
    <2>2. NewSegment(s.nextMSN) \in Reporting(g, n + 1)
      <3>1. s.nextMSN \in Int
        BY <1>1, StoreFields
      <3> QED BY <3>1, FreshReports
    <2> QED BY <1>3, <2>1, <2>2
  <1>9. \A i \in DOMAIN fed.segments : fed.segments[i] \in Reporting(g, n + 1)
    BY <1>3, StaysReported DEF Accurate
  <1>10. SealedTo(s, n) >= 0
    BY DEF Accurate
  <1>11. Accurate(fed, g, n + 1)
    BY <1>2, <1>5, <1>7, <1>8, <1>9, <1>10 DEF Accurate
  <1> QED BY <1>11 DEF fed

LEMMA AppendPartAccurate ==
    ASSUME NEW s, Filled(s), NEW n \in Nat, Whole(s, n), s.currentPart # NoPart,
           NEW f, Accurate(s, f, n)
    PROVE  Accurate(AppendPart(s), f, n)
  <1> DEFINE grown == AppendPart(s)
             part == ClosedPart(s)
             seg == s.currentSeg
             sealed == SealedTo(s, n)
             cut == Cut(s, n)
             ticks == s.currentPart.ticks
             d == s.currentPart.data
  <1>1. /\ s \in StoreRecord /\ grown \in StoreRecord /\ part \in Part /\ seg \in Segment
        /\ s.currentPart \in PartAccumulator
    BY AppendPartType, ClosedPartType, StoreFields DEF Filled, Sound
  <1>2. /\ grown.segments = s.segments /\ grown.currentPart = NoPart
        /\ grown.currentSeg.dur = seg.dur + part.dur
        /\ grown.currentSeg.parts = Append(seg.parts, part)
        /\ part.data = d
        /\ part.dur \in Nat /\ ticks - part.dur * TicksPerMs \in 0 .. TicksPerMs
    BY <1>1, AppendPartFields, MillisecondsShort DEF Part
  <1>3. /\ Whole(grown, n) /\ Cut(grown, n) = n /\ SealedTo(grown, n) = sealed
    BY AppendPartWhole
  <1>4. /\ d \in Seq(Nat) /\ seg.data \in Seq(Nat) /\ grown.currentSeg.data \in Seq(Nat)
        /\ seg.parts \in Seq(Part) /\ seg.dur \in Nat /\ ticks \in Nat
        /\ grown.currentSeg \in Segment
    BY <1>1, WholeTypes DEF Segment, PartAccumulator
  <1>5. /\ Timeline(f, n) /\ sealed >= 0 /\ ticks = f[n] - f[cut]
        /\ Within(seg.data, n) /\ Reports(seg, f)
        /\ \A j \in DOMAIN seg.parts : Within(seg.parts[j].data, n)
    BY DEF Accurate, Reporting
  <1>6. /\ cut = n - Len(d) /\ sealed = cut - Len(seg.data)
        /\ sealed = n - Len(grown.currentSeg.data)
        /\ RunTo(d, n) /\ RunTo(seg.data, cut) /\ RunTo(grown.currentSeg.data, n)
    BY <1>3 DEF Whole, Cut, SealedTo
  <1>7. cut \in 0 .. n /\ sealed \in 0 .. n /\ n \in 0 .. n
    <2> DEFINE open == Len(d)
               closed == Len(seg.data)
    <2>1. open \in Nat /\ closed \in Nat
      BY <1>4, LenProperties
    <2>2. cut = n - open /\ sealed = cut - closed /\ sealed >= 0
      BY <1>5, <1>6
    <2> HIDE DEF open, closed, cut, sealed
    <2> QED BY <2>1, <2>2
  <1>8. f[n] \in Int /\ f[cut] \in Int /\ f[sealed] \in Int
    BY <1>5, <1>7 DEF Timeline
  <1> HIDE DEF grown, part, seg, sealed, cut, ticks, d
  <1>9. /\ Span(f, d) = f[n] - f[cut] /\ Within(d, n)
    BY <1>4, <1>5, <1>6, <1>7, RunSpan
  <1>10. Span(f, seg.data) = f[cut] - f[sealed]
    <2> DEFINE c == seg.data
    <2>1. c \in Seq(Nat) /\ RunTo(c, cut) /\ cut - Len(c) = sealed /\ cut - Len(c) >= 0
      BY <1>4, <1>5, <1>6
    <2> HIDE DEF c
    <2>2. Span(f, c) = f[cut] - f[cut - Len(c)]
      BY <1>5, <1>7, <2>1, RunSpan
    <2> QED BY <2>1, <2>2 DEF c
  <1>11. /\ Span(f, grown.currentSeg.data) = f[n] - f[sealed]
         /\ Within(grown.currentSeg.data, n)
    <2> DEFINE c == grown.currentSeg.data
    <2>1. c \in Seq(Nat) /\ RunTo(c, n) /\ n - Len(c) = sealed /\ n - Len(c) >= 0
      BY <1>4, <1>5, <1>6
    <2> HIDE DEF c
    <2>2. Span(f, c) = f[n] - f[n - Len(c)] /\ Within(c, n)
      BY <1>5, <1>7, <2>1, RunSpan
    <2> QED BY <2>1, <2>2 DEF c
  <1>12. Span(f, grown.currentSeg.data) = Span(f, seg.data) + ticks
    BY <1>5, <1>8, <1>10, <1>11
  <1>13. /\ Len(grown.currentSeg.parts) = Len(seg.parts) + 1
         /\ DOMAIN grown.currentSeg.parts = 1 .. Len(seg.parts) + 1
         /\ \A j \in 1 .. Len(seg.parts) : grown.currentSeg.parts[j] = seg.parts[j]
         /\ grown.currentSeg.parts[Len(seg.parts) + 1] = part
         /\ Len(seg.parts) \in Nat /\ DOMAIN seg.parts = 1 .. Len(seg.parts)
    <2>1. /\ grown.currentSeg.parts \in Seq(Part)
          /\ Len(grown.currentSeg.parts) = Len(seg.parts) + 1
          /\ \A j \in 1 .. Len(seg.parts) : grown.currentSeg.parts[j] = seg.parts[j]
          /\ grown.currentSeg.parts[Len(seg.parts) + 1] = part
      BY <1>1, <1>2, <1>4, AppendProperties
    <2>2. DOMAIN grown.currentSeg.parts = 1 .. Len(grown.currentSeg.parts)
      BY <2>1, LenProperties
    <2> QED BY <1>4, <2>1, <2>2, LenProperties
  <1>14. ASSUME NEW j \in DOMAIN grown.currentSeg.parts
         PROVE  /\ Within(grown.currentSeg.parts[j].data, n)
                /\ Span(f, grown.currentSeg.parts[j].data)
                      - grown.currentSeg.parts[j].dur * TicksPerMs \in 0 .. TicksPerMs
    <2>1. j \in 1 .. Len(seg.parts) \/ j = Len(seg.parts) + 1
      BY <1>13
    <2>2. CASE j \in 1 .. Len(seg.parts)
      <3>1. grown.currentSeg.parts[j] = seg.parts[j] /\ j \in DOMAIN seg.parts
        BY <1>13, <2>2
      <3>2. /\ Within(seg.parts[j].data, n)
            /\ Span(f, seg.parts[j].data) - seg.parts[j].dur * TicksPerMs
                  \in 0 .. TicksPerMs
        BY <1>5, <3>1 DEF Reports
      <3> QED BY <3>1, <3>2
    <2>3. CASE j = Len(seg.parts) + 1
      <3>1. grown.currentSeg.parts[j] = part
        BY <1>13, <2>3
      <3>2. Span(f, d) - part.dur * TicksPerMs \in 0 .. TicksPerMs
        BY <1>2, <1>5, <1>9
      <3> QED BY <1>2, <1>9, <3>1, <3>2
    <2> QED BY <2>1, <2>2, <2>3
  <1>15. /\ grown.currentSeg.dur * TicksPerMs <= Span(f, grown.currentSeg.data)
         /\ Span(f, grown.currentSeg.data) - grown.currentSeg.dur * TicksPerMs
               <= TicksPerMs * Len(grown.currentSeg.parts)
    <2> DEFINE span == Span(f, seg.data)
               len == Len(seg.parts)
               dur == seg.dur
               q == part.dur
               Falls(d0, s0, l0) == /\ d0 * TicksPerMs <= s0
                                    /\ s0 - d0 * TicksPerMs <= TicksPerMs * l0
    <2>1. TicksPerMs \in Nat \ {0} /\ len \in Nat /\ dur \in Nat /\ ticks \in Nat
      BY StoreAssumption, <1>4, <1>13 DEF StoreAssumption
    <2>2. span \in Int
      BY <1>8, <1>10
    <2>3. dur * TicksPerMs <= span /\ span - dur * TicksPerMs <= TicksPerMs * len
      BY <1>5 DEF Reports
    <2>4. q \in Nat /\ ticks - q * TicksPerMs \in 0 .. TicksPerMs
      BY <1>2
    <2> HIDE DEF span, len, dur, q
    <2>5. Falls(dur + q, span + ticks, len + 1)
      BY <2>1, <2>2, <2>3, <2>4, OneMoreRounded
    <2>6. /\ grown.currentSeg.dur = dur + q
          /\ Span(f, grown.currentSeg.data) = span + ticks
          /\ Len(grown.currentSeg.parts) = len + 1
      BY <1>2, <1>12, <1>13 DEF dur, span, len, q
    <2> HIDE DEF Falls
    <2>7. Falls(grown.currentSeg.dur, Span(f, grown.currentSeg.data),
                Len(grown.currentSeg.parts))
      BY <2>5, <2>6
    <2> QED BY <2>7 DEF Falls
  <1>16. grown.currentSeg \in Reporting(f, n)
    BY <1>4, <1>11, <1>14, <1>15 DEF Reporting, Reports
  <1>17. grown.currentPart.ticks = f[n] - f[Cut(grown, n)]
    <2>1. NoPart.ticks = 0
      BY DEF NoPart, NewPart
    <2> QED BY <1>2, <1>3, <1>8, <2>1
  <1>18. \A i \in DOMAIN grown.segments : grown.segments[i] \in Reporting(f, n)
    BY <1>2 DEF Accurate
  <1> QED BY <1>3, <1>5, <1>16, <1>17, <1>18 DEF Accurate, grown

LEMMA FinalizeSegmentAccurate ==
    ASSUME NEW s, Sealable(s), NEW n \in Nat, Whole(s, n), s.currentPart = NoPart,
           NEW f, Accurate(s, f, n)
    PROVE  Accurate(FinalizeSegment(s), f, n)
  <1> DEFINE next == FinalizeSegment(s)
             done == Done(s.currentSeg)
  <1>1. /\ s \in StoreRecord /\ s.currentSeg \in Segment /\ s.segments \in Seq(Segment)
        /\ s.nextMSN \in Int
    BY StoreFields DEF Sealable, Filled, Sound
  <1>2. /\ next.segments = TrimWindow(Append(s.segments, done))
        /\ next.currentSeg = NewSegment(s.nextMSN)
        /\ next.currentPart = NoPart
    BY <1>1, FinalizeSegmentFields
  <1>3. /\ done \in Segment /\ done.data = s.currentSeg.data
        /\ done.parts = s.currentSeg.parts /\ done.dur = s.currentSeg.dur
    BY <1>1, DoneFields
  <1>4. Cut(next, n) = n /\ SealedTo(next, n) = n
    BY FinalizeSegmentWhole
  <1> HIDE DEF next, done
  <1>5. done \in Reporting(f, n)
    BY <1>3 DEF Accurate, Reporting, Reports
  <1>6. \A i \in DOMAIN next.segments : next.segments[i] \in Reporting(f, n)
    BY <1>1, <1>2, <1>3, <1>5, WindowKeeps DEF Accurate
  <1>7. next.currentSeg \in Reporting(f, n)
    BY <1>1, <1>2, FreshReports
  <1>8. next.currentPart.ticks = f[n] - f[Cut(next, n)]
    <2>1. n \in 0 .. n /\ NoPart.ticks = 0
      BY DEF NoPart, NewPart
    <2>2. f[n] \in Int
      BY <2>1 DEF Accurate, Timeline
    <2> QED BY <1>2, <1>4, <2>1, <2>2
  <1>9. Timeline(f, n) /\ SealedTo(next, n) >= 0
    BY <1>4 DEF Accurate
  <1> QED BY <1>6, <1>7, <1>8, <1>9 DEF Accurate, next

LEMMA FinalizePartAccurate ==
    ASSUME NEW s, Filled(s), NEW n \in Nat, Whole(s, n), s.currentPart # NoPart,
           NEW f, Accurate(s, f, n)
    PROVE  Accurate(FinalizePart(s).store, f, n)
  <1> DEFINE grown == AppendPart(s)
  <1>1. Sealable(grown) /\ Whole(grown, n) /\ Accurate(grown, f, n)
    BY AppendPartSound, AppendPartWhole, AppendPartAccurate
  <1>2. grown.currentPart = NoPart
    BY AppendPartFields DEF Filled, Sound
  <1>3. FinalizePart(s).store = IF IsFull(grown.currentSeg) THEN FinalizeSegment(grown)
                                                            ELSE grown
    BY DEF FinalizePart
  <1> HIDE DEF grown
  <1>4. Accurate(FinalizeSegment(grown), f, n)
    BY <1>1, <1>2, FinalizeSegmentAccurate
  <1> QED BY <1>1, <1>3, <1>4

LEMMA FlushAccurate ==
    ASSUME NEW s, Sound(s), NEW n \in Nat, Whole(s, n), NEW f, Accurate(s, f, n)
    PROVE  Accurate(FlushSegment(FlushPart(s)).store, f, n)
  <1> DEFINE p == FlushPart(s)
  <1>1. /\ Sound(p.store) /\ Whole(p.store, n) /\ p.store.currentPart = NoPart
        /\ Accurate(p.store, f, n)
    <2>1. CASE s.currentPart = NoPart
      BY <2>1 DEF FlushPart
    <2>2. CASE s.currentPart # NoPart
      <3>1. Filled(s)
        BY <2>2, LatestTypes DEF Sound, Windowed, Filled
      <3>2. p = FinalizePart(s)
        BY <2>2 DEF FlushPart
      <3> QED BY <2>2, <3>1, <3>2, FinalizePartSound, FinalizePartWhole,
                 FinalizePartAccurate DEF Filled
    <2> QED BY <2>1, <2>2
  <1> HIDE DEF p
  <1>2. CASE p.store.currentSeg.dur > 0
    BY <1>1, <1>2, HasDuration, FinalizeSegmentAccurate DEF FlushSegment, p
  <1>3. CASE ~(p.store.currentSeg.dur > 0)
    BY <1>1, <1>3 DEF FlushSegment, p
  <1> QED BY <1>2, <1>3

\* A count of more fragments counts the first ones, and there is one.
LEMMA CountsFirst ==
    ASSUME NEW frags \in Seq(Fragment), NEW frag \in Fragment,
           NEW g, Counts(g, Append(frags, frag))
    PROVE  \E f : /\ Counts(f, frags)
                  /\ \A k \in 0 .. Len(frags) : g[k] = f[k]
                  /\ g[Len(frags) + 1] = g[Len(frags)] + frag.ticks
  <1> DEFINE more == Append(frags, frag)
             n == Len(frags)
             f == [k \in 0 .. n |-> g[k]]
  <1>1. /\ n \in Nat /\ Len(more) = n + 1 /\ more[n + 1] = frag
        /\ \A k \in 1 .. n : more[k] = frags[k]
    BY AppendProperties, LenProperties
  <1>2. g = [k \in 0 .. Len(more) |-> IF k = 0 THEN 0 ELSE g[k - 1] + more[k].ticks]
    BY DEF Counts
  <1> HIDE DEF more, n
  <1>3. \A k \in 0 .. n + 1 : g[k] = IF k = 0 THEN 0 ELSE g[k - 1] + more[k].ticks
    BY <1>1, <1>2
  <1>4. ASSUME NEW k \in 0 .. n
        PROVE  f[k] = IF k = 0 THEN 0 ELSE f[k - 1] + frags[k].ticks
    <2>1. k \in 0 .. n + 1 /\ f[k] = g[k]
      BY <1>1
    <2>2. CASE k = 0
      BY <1>3, <2>1, <2>2
    <2>3. CASE k # 0
      <3>1. k \in 1 .. n /\ k - 1 \in 0 .. n
        BY <1>1, <2>3
      <3>2. f[k - 1] = g[k - 1] /\ more[k] = frags[k]
        BY <1>1, <3>1
      <3> QED BY <1>3, <2>1, <2>3, <3>2
    <2> QED BY <2>2, <2>3
  <1>5. f = [k \in 0 .. n |-> IF k = 0 THEN 0 ELSE f[k - 1] + frags[k].ticks]
    BY <1>4
  <1>6. Counts(f, frags) /\ \A k \in 0 .. n : g[k] = f[k]
    BY <1>5 DEF Counts, n
  <1>7. g[n + 1] = g[n] + frag.ticks
    <2>1. n + 1 \in 0 .. n + 1 /\ n + 1 # 0 /\ (n + 1) - 1 = n
      BY <1>1
    <2> QED BY <1>1, <1>3, <2>1
  <1> HIDE DEF f
  <1> QED BY <1>6, <1>7 DEF n

LEMMA CountsOn ==
    ASSUME NEW frags \in Seq(Fragment), NEW frag \in Fragment, NEW f, Counts(f, frags)
    PROVE  \E g : Counts(g, Append(frags, frag))
  <1> DEFINE more == Append(frags, frag)
             n == Len(frags)
             g == [k \in 0 .. n + 1 |-> IF k = n + 1 THEN f[n] + frag.ticks ELSE f[k]]
  <1>1. /\ n \in Nat /\ Len(more) = n + 1 /\ more[n + 1] = frag
        /\ \A k \in 1 .. n : more[k] = frags[k]
    BY AppendProperties, LenProperties
  <1>2. f = [k \in 0 .. n |-> IF k = 0 THEN 0 ELSE f[k - 1] + frags[k].ticks]
    BY DEF Counts
  <1> HIDE DEF more, n
  <1>3. \A k \in 0 .. n : f[k] = IF k = 0 THEN 0 ELSE f[k - 1] + frags[k].ticks
    BY <1>2
  <1>4. ASSUME NEW k \in 0 .. n + 1
        PROVE  g[k] = IF k = 0 THEN 0 ELSE g[k - 1] + more[k].ticks
    <2>1. CASE k = n + 1
      <3>1. k # 0 /\ k - 1 = n /\ n \in 0 .. n + 1 /\ n # n + 1
        BY <1>1, <2>1
      <3>2. g[k] = f[n] + frag.ticks /\ g[k - 1] = f[n]
        BY <2>1, <3>1
      <3> QED BY <1>1, <2>1, <3>1, <3>2
    <2>2. CASE k # n + 1
      <3>1. k \in 0 .. n /\ g[k] = f[k]
        BY <1>1, <2>2
      <3>2. CASE k = 0
        BY <1>3, <3>1, <3>2
      <3>3. CASE k # 0
        <4>1. k \in 1 .. n /\ k - 1 \in 0 .. n + 1 /\ k - 1 # n + 1
          BY <1>1, <3>1, <3>3
        <4>2. g[k - 1] = f[k - 1] /\ more[k] = frags[k]
          BY <1>1, <4>1
        <4> QED BY <1>3, <3>1, <3>3, <4>2
      <3> QED BY <3>2, <3>3
    <2> QED BY <2>1, <2>2
  <1>5. g = [k \in 0 .. n + 1 |-> IF k = 0 THEN 0 ELSE g[k - 1] + more[k].ticks]
    BY <1>4
  <1>6. Counts(g, more)
    BY <1>1, <1>5 DEF Counts
  <1> HIDE DEF g
  <1> QED BY <1>6 DEF more

DriftInv ==
    /\ WholeInv
    /\ \E f : Counts(f, fragments)
    /\ \A f : Counts(f, fragments) => Accurate(store, f, Len(fragments))

LEMMA DriftInvInit == Init => DriftInv
  <1> SUFFICES ASSUME Init PROVE DriftInv
    OBVIOUS
  <1>1. /\ store.segments = <<>> /\ store.currentSeg = NewSegment(-1)
        /\ store.currentPart = NoPart /\ Len(fragments) = 0
    BY EmptySeq DEF Init, NewStore, NoSegment
  <1>2. Cut(store, 0) = 0 /\ SealedTo(store, 0) = 0
    <2>1. Len(store.currentPart.data) = 0 /\ Len(store.currentSeg.data) = 0
      BY <1>1, NilData
    <2>2. Cut(store, 0) = 0
      BY <2>1 DEF Cut
    <2> QED BY <2>1, <2>2 DEF SealedTo
  <1>3. \E f : Counts(f, fragments)
    <2> DEFINE f == [k \in 0 .. 0 |-> 0]
    <2>1. \A k \in 0 .. 0 : k = 0
      OBVIOUS
    <2>2. f = [k \in 0 .. 0 |-> IF k = 0 THEN 0 ELSE f[k - 1] + fragments[k].ticks]
      BY <2>1
    <2>3. Counts(f, fragments)
      BY <1>1, <2>2 DEF Counts
    <2> HIDE DEF f
    <2> QED BY <2>3
  <1>4. ASSUME NEW f, Counts(f, fragments)
        PROVE  Accurate(store, f, 0)
    <2>1. f[0] = 0 /\ \A k \in 0 .. 0 : k = 0
      <3>1. f = [k \in 0 .. 0 |-> IF k = 0 THEN 0 ELSE f[k - 1] + fragments[k].ticks]
        BY <1>1, <1>4 DEF Counts
      <3> QED BY <3>1
    <2>2. Timeline(f, 0)
      BY <2>1 DEF Timeline
    <2>3. store.currentPart.ticks = f[0] - f[Cut(store, 0)]
      BY <1>1, <1>2, <2>1 DEF NoPart, NewPart
    <2>4. store.currentSeg \in Reporting(f, 0)
      BY <1>1, FreshReports
    <2> QED BY <1>1, <1>2, <2>2, <2>3, <2>4 DEF Accurate
  <1> QED BY <1>1, <1>3, <1>4, WholeInvInit DEF DriftInv

LEMMA DriftInvNext == DriftInv /\ [Next]_vars => DriftInv'
  <1> SUFFICES ASSUME DriftInv, [Next]_vars PROVE DriftInv'
    OBVIOUS
  <1> DEFINE n == Len(fragments)
  <1>1. /\ WholeInv' /\ Sound(store) /\ store \in StoreRecord
        /\ fragments \in Seq(Fragment) /\ n \in Nat
    BY WholeInvNext, LenProperties DEF DriftInv, WholeInv, StoreInv, Sound, TypeOK
  <1>2. Whole(store, n)
    BY DEF DriftInv, WholeInv
  <1>3. ASSUME NEW s, s.segments = store.segments, s.currentSeg = store.currentSeg,
               s.currentPart = store.currentPart, NEW f, Accurate(store, f, n)
        PROVE  Accurate(s, f, n)
    BY <1>3 DEF Accurate, Cut, SealedTo
  <1>4. CASE SetInit
    <2>1. /\ store'.segments = store.segments /\ store'.currentSeg = store.currentSeg
          /\ store'.currentPart = store.currentPart /\ fragments' = fragments
      BY <1>1, <1>4 DEF SetInit, StoreRecord
    <2>2. ASSUME NEW f, Counts(f, fragments) PROVE Accurate(store', f, n)
      <3>1. Accurate(store, f, n)
        BY <2>2 DEF DriftInv
      <3> QED BY <1>3, <2>1, <3>1
    <2> QED BY <1>1, <2>1, <2>2 DEF DriftInv
  <1>5. ASSUME NEW frag \in Fragment, NEW lost \in SUBSET Uses, AddFragment(frag, lost)
        PROVE  DriftInv'
    <2> DEFINE fed == Accumulate(store, Len(fragments'), frag, lost)
    <2>1. fragments' = Append(fragments, frag) /\ Len(fragments') = n + 1 /\ n + 1 \in Nat
      BY <1>1, <1>5, AppendProperties DEF AddFragment
    <2>2. Filled(fed)
      BY <1>1, <1>5, <2>1, AccumulateSound
    <2>3. Whole(fed, n + 1) /\ fed.currentPart # NoPart
      BY <1>1, <1>2, <1>5, <2>1, AccumulateWhole
    <2>4. store' = FinalizePart(fed).store \/ store' = fed
      BY <1>5 DEF AddFragment
    <2>5. ASSUME NEW g, Counts(g, fragments') PROVE Accurate(fed, g, n + 1)
      <3>1. PICK f : /\ Counts(f, fragments)
                     /\ \A k \in 0 .. n : g[k] = f[k]
                     /\ g[n + 1] = g[n] + frag.ticks
        BY <1>1, <1>5, <2>1, <2>5, CountsFirst
      <3>2. Accurate(store, f, n)
        BY <3>1 DEF DriftInv
      <3> QED BY <1>1, <1>2, <1>5, <2>1, <3>1, <3>2, AccumulateAccurate
    <2> HIDE DEF fed
    <2>6. ASSUME NEW g, Counts(g, fragments') PROVE Accurate(store', g, Len(fragments'))
      <3>1. Accurate(FinalizePart(fed).store, g, n + 1)
        BY <2>1, <2>2, <2>3, <2>5, <2>6, FinalizePartAccurate
      <3> QED BY <2>1, <2>4, <2>5, <2>6, <3>1
    <2>7. \E g : Counts(g, fragments')
      BY <1>1, <1>5, <2>1, CountsOn DEF DriftInv
    <2> QED BY <1>1, <2>6, <2>7 DEF DriftInv
  <1>6. CASE Finalize
    <2> DEFINE flushed == FlushSegment(FlushPart(store)).store
    <2>1. store' = [flushed EXCEPT !.ended = TRUE] /\ fragments' = fragments
      BY <1>6 DEF Finalize
    <2>2. flushed \in StoreRecord
      BY <1>1, FlushType
    <2>3. ASSUME NEW f, Counts(f, fragments) PROVE Accurate(flushed, f, n)
      <3>1. Accurate(store, f, n)
        BY <2>3 DEF DriftInv
      <3> QED BY <1>1, <1>2, <3>1, FlushAccurate
    <2> HIDE DEF flushed
    <2>4. /\ store'.segments = flushed.segments /\ store'.currentSeg = flushed.currentSeg
          /\ store'.currentPart = flushed.currentPart
      BY <2>1, <2>2 DEF StoreRecord
    <2>5. ASSUME NEW f, Counts(f, fragments) PROVE Accurate(store', f, n)
      <3>1. Accurate(flushed, f, n)
        BY <2>3, <2>5
      <3> QED BY <2>4, <3>1 DEF Accurate, Cut, SealedTo
    <2> QED BY <1>1, <2>1, <2>5 DEF DriftInv
  <1>7. CASE Broadcast \/ BroadcastEnded \/ UNCHANGED vars
    BY <1>1, <1>7 DEF Broadcast, BroadcastEnded, vars, DriftInv
  <1> QED BY <1>4, <1>5, <1>6, <1>7 DEF Next

(***************************************************************************)
(* EXTINF and EXT-X-PART durations never exceed the media, and fall short  *)
(* of it by at most a millisecond per part, whatever fragments a segment   *)
(* is made of and wherever float64 loses the last bit of a sum.            *)
(***************************************************************************)
THEOREM DurationsDrift == Spec => []ReportedDurationsDrift
  <1>1. DriftInv => ReportedDurationsDrift
    <2> SUFFICES ASSUME DriftInv PROVE ReportedDurationsDrift
      OBVIOUS
    <2> DEFINE upto == CHOOSE f : f = [k \in 0 .. Len(fragments) |->
                           IF k = 0 THEN 0 ELSE f[k - 1] + fragments[k].ticks]
    <2>1. Counts(upto, fragments)
      BY DEF Counts, DriftInv
    <2> HIDE DEF upto
    <2>2. Accurate(store, upto, Len(fragments))
      BY <2>1 DEF DriftInv
    <2>3. /\ Reports(store.currentSeg, upto)
          /\ \A i \in DOMAIN store.segments : Reports(store.segments[i], upto)
      BY <2>2 DEF Accurate, Reporting
    <2> QED BY <2>3 DEF upto, ReportedDurationsDrift
  <1> QED BY <1>1, DriftInvInit, DriftInvNext, PTL DEF Spec

-----------------------------------------------------------------------------
(***************************************************************************)
(* The store implements the abstract live stream, for fragments longer     *)
(* than a millisecond.  The refinement mapping of module StoreLive shows   *)
(* a client the bytes of parts and segments.  The lemmas say, of each      *)
(* internal operation, what it does to what is shown; that the accumulator *)
(* is one run of fragments (Whole) makes it the piece the abstract stream  *)
(* publishes, and that every part has a duration (Timed, of module         *)
(* StoreProofs) makes the end of the store the end of the stream.          *)
(***************************************************************************)

(* What is shown of a segment and of the window.                           *)

\* The sequences a part, and a segment, is shown as.
Bytes == Seq(Nat)
Pieces == Seq(Bytes)

WindowData(segs) == [i \in DOMAIN segs |-> PartsData(segs[i])]

LEMMA PartsDataType ==
    ASSUME NEW seg \in Segment
    PROVE  /\ PartsData(seg) \in Pieces
           /\ Len(PartsData(seg)) = Len(seg.parts)
           /\ \A j \in 1 .. Len(seg.parts) : PartsData(seg)[j] = seg.parts[j].data
           /\ PartsData(seg) = <<>> <=> seg.parts = <<>>
  <1>1. seg.parts \in Seq(Part) /\ Len(seg.parts) \in Nat /\ DOMAIN seg.parts = 1 .. Len(seg.parts)
    BY LenProperties DEF Segment
  <1>2. \A j \in 1 .. Len(seg.parts) : seg.parts[j].data \in Bytes
    <2> SUFFICES ASSUME NEW j \in 1 .. Len(seg.parts) PROVE seg.parts[j] \in Part
      BY DEF Part, Bytes
    <2> QED BY <1>1, ElementOfSeq
  <1>3. PartsData(seg) \in [1 .. Len(seg.parts) -> Bytes]
    BY <1>1, <1>2 DEF PartsData
  <1>4. PartsData(seg) \in Pieces /\ Len(PartsData(seg)) = Len(seg.parts)
    BY <1>1, <1>3, SeqDef, LenProperties DEF Pieces
  <1>5. PartsData(seg) = <<>> <=> seg.parts = <<>>
    BY <1>1, <1>4, EmptySeq DEF Pieces
  <1> QED BY <1>1, <1>4, <1>5 DEF PartsData

LEMMA WindowDataType ==
    ASSUME NEW segs \in Seq(Segment)
    PROVE  /\ WindowData(segs) \in Seq(Pieces)
           /\ Len(WindowData(segs)) = Len(segs)
           /\ \A i \in 1 .. Len(segs) : WindowData(segs)[i] = PartsData(segs[i])
  <1>1. Len(segs) \in Nat /\ DOMAIN segs = 1 .. Len(segs)
    BY LenProperties
  <1>2. \A i \in 1 .. Len(segs) : PartsData(segs[i]) \in Pieces
    BY <1>1, ElementOfSeq, PartsDataType
  <1>3. WindowData(segs) \in [1 .. Len(segs) -> Pieces]
    BY <1>1, <1>2 DEF WindowData
  <1> QED BY <1>1, <1>3, SeqDef, LenProperties DEF WindowData

\* finalizePart shows one more piece in the segment.
LEMMA AppendPartShown ==
    ASSUME NEW s \in StoreRecord
    PROVE  PartsData(AppendPart(s).currentSeg)
              = Append(PartsData(s.currentSeg), s.currentPart.data)
  <1> DEFINE seg == s.currentSeg
             grown == AppendPart(s).currentSeg
             part == ClosedPart(s)
  <1>1. /\ seg \in Segment /\ grown \in Segment /\ part \in Part
        /\ seg.parts \in Seq(Part) /\ grown.parts = Append(seg.parts, part)
        /\ part.data = s.currentPart.data /\ part.data \in Bytes
    BY StoreFields, AppendPartType, AppendPartFields, ClosedPartType DEF Segment, Part, Bytes
  <1> HIDE DEF seg, grown, part
  <1>2. /\ Len(grown.parts) = Len(seg.parts) + 1 /\ Len(seg.parts) \in Nat
        /\ \A j \in 1 .. Len(seg.parts) : grown.parts[j] = seg.parts[j]
        /\ grown.parts[Len(seg.parts) + 1] = part
    BY <1>1, AppendProperties, LenProperties
  <1>3. /\ PartsData(seg) \in Pieces /\ Len(PartsData(seg)) = Len(seg.parts)
        /\ \A j \in 1 .. Len(seg.parts) : PartsData(seg)[j] = seg.parts[j].data
    BY <1>1, PartsDataType
  <1>4. /\ PartsData(grown) \in Pieces /\ Len(PartsData(grown)) = Len(grown.parts)
        /\ \A j \in 1 .. Len(grown.parts) : PartsData(grown)[j] = grown.parts[j].data
    BY <1>1, PartsDataType
  <1> DEFINE more == Append(PartsData(seg), part.data)
  <1>5. /\ more \in Pieces /\ Len(more) = Len(seg.parts) + 1
        /\ \A j \in 1 .. Len(seg.parts) : more[j] = PartsData(seg)[j]
        /\ more[Len(seg.parts) + 1] = part.data
    BY <1>1, <1>3, AppendProperties DEF Pieces
  <1> HIDE DEF more
  <1>6. \A j \in 1 .. Len(grown.parts) : PartsData(grown)[j] = more[j]
    BY <1>2, <1>3, <1>4, <1>5
  <1>7. PartsData(grown) = more
    BY <1>2, <1>4, <1>5, <1>6, SeqEqual DEF Pieces
  <1> QED BY <1>1, <1>7 DEF more, seg, grown

\* What enters the window is shown at its end, and the oldest leaves.
LEMMA TrimWindowShown ==
    ASSUME NEW segs \in Seq(Segment), NEW seg \in Segment
    PROVE  WindowData(TrimWindow(Append(segs, seg)))
              = Live!Listed(Append(WindowData(segs), PartsData(seg)))
  <1> DEFINE all == Append(segs, seg)
             shown == Append(WindowData(segs), PartsData(seg))
  <1>1. /\ all \in Seq(Segment) /\ all # <<>> /\ Len(all) = Len(segs) + 1
        /\ \A i \in 1 .. Len(segs) : all[i] = segs[i]
        /\ all[Len(segs) + 1] = seg /\ Len(segs) \in Nat
    BY AppendProperties, LenProperties
  <1>2. /\ WindowData(segs) \in Seq(Pieces) /\ Len(WindowData(segs)) = Len(segs)
        /\ \A i \in 1 .. Len(segs) : WindowData(segs)[i] = PartsData(segs[i])
        /\ PartsData(seg) \in Pieces
    BY WindowDataType, PartsDataType
  <1>3. /\ shown \in Seq(Pieces) /\ shown # <<>> /\ Len(shown) = Len(segs) + 1
        /\ \A i \in 1 .. Len(segs) : shown[i] = WindowData(segs)[i]
        /\ shown[Len(segs) + 1] = PartsData(seg)
    BY <1>2, AppendProperties
  <1> HIDE DEF all, shown
  <1>4. /\ WindowData(all) \in Seq(Pieces) /\ Len(WindowData(all)) = Len(all)
        /\ \A i \in 1 .. Len(all) : WindowData(all)[i] = PartsData(all[i])
    BY <1>1, WindowDataType
  <1>5. WindowData(all) = shown
    <2>1. \A i \in 1 .. Len(all) : WindowData(all)[i] = shown[i]
      BY <1>1, <1>2, <1>3, <1>4
    <2> QED BY <1>1, <1>3, <1>4, <2>1, SeqEqual
  <1>6. WindowData(Tail(all)) = Tail(shown)
    <2>1. /\ Tail(all) \in Seq(Segment) /\ Len(Tail(all)) = Len(segs)
          /\ \A i \in 1 .. Len(segs) : Tail(all)[i] = all[i + 1]
      BY <1>1, HeadTailProperties
    <2>2. /\ Tail(shown) \in Seq(Pieces) /\ Len(Tail(shown)) = Len(segs)
          /\ \A i \in 1 .. Len(segs) : Tail(shown)[i] = shown[i + 1]
      BY <1>1, <1>3, HeadTailProperties
    <2>3. /\ WindowData(Tail(all)) \in Seq(Pieces) /\ Len(WindowData(Tail(all))) = Len(segs)
          /\ \A i \in 1 .. Len(segs) : WindowData(Tail(all))[i] = PartsData(Tail(all)[i])
      BY <2>1, WindowDataType
    <2>4. ASSUME NEW i \in 1 .. Len(segs) PROVE WindowData(Tail(all))[i] = Tail(shown)[i]
      <3>1. i + 1 \in 1 .. Len(all)
        BY <1>1
      <3> QED BY <1>4, <1>5, <2>1, <2>2, <2>3, <3>1
    <2> QED BY <2>2, <2>3, <2>4, SeqEqual
  <1>7. Len(shown) > PlaylistWindow - 1 <=> Len(all) >= PlaylistWindow
    BY <1>1, <1>3, StoreAssumption DEF StoreAssumption
  <1> QED BY <1>5, <1>6, <1>7 DEF TrimWindow, Live!Listed, all, shown

\* A run of fragments is the piece the abstract stream speaks of.
LEMMA RunIsPiece ==
    ASSUME NEW d \in Seq(Nat), NEW e \in Int, RunTo(d, e)
    PROVE  d = Live!Piece(e - Len(d), e)
  <1>1. Len(d) \in Nat /\ DOMAIN d = 1 .. Len(d)
    BY LenProperties
  <1>2. d = [i \in 1 .. Len(d) |-> d[i]]
    BY <1>1, SeqDef
  <1>3. e - (e - Len(d)) = Len(d)
    BY <1>1
  <1>4. \A i \in 1 .. Len(d) : d[i] = e - Len(d) + i
    BY <1>1 DEF RunTo
  <1> QED BY <1>2, <1>3, <1>4 DEF Live!Piece

-----------------------------------------------------------------------------
(* What the operations do to what is shown: the open segment becomes       *)
(* `parts` and is sealed, or is left open with them.                       *)

Seals(s, parts, next) ==
    /\ WindowData(next.segments) = Live!Listed(Append(WindowData(s.segments), parts))
    /\ GetCurrentMSN(next) = GetCurrentMSN(s) + 1
    /\ PartsData(next.currentSeg) = <<>>

LeavesOpen(s, parts, next) ==
    /\ WindowData(next.segments) = WindowData(s.segments)
    /\ GetCurrentMSN(next) = GetCurrentMSN(s)
    /\ PartsData(next.currentSeg) = parts

LEMMA NumberOfCurrent ==
    ASSUME NEW s, Filled(s)
    PROVE  GetCurrentMSN(s) = s.currentSeg.msn
  BY NilData DEF Filled, GetCurrentMSN

LEMMA AccumulateShown ==
    ASSUME NEW s, Sound(s), NEW id \in Nat,
           NEW frag \in Fragment, NEW lost \in SUBSET Uses
    PROVE  LeavesOpen(s, PartsData(s.currentSeg), Accumulate(s, id, frag, lost))
  <1> DEFINE fed == Accumulate(s, id, frag, lost)
  <1>1. s \in StoreRecord /\ s.nextMSN \in Int
    BY StoreFields DEF Sound
  <1>2. /\ fed.segments = s.segments
        /\ fed.currentSeg = IF s.currentSeg = NoSegment
                            THEN NewSegment(s.nextMSN) ELSE s.currentSeg
    BY <1>1, AccumulateFields
  <1>3. Filled(fed)
    BY AccumulateSound
  <1>4. GetCurrentMSN(fed) = fed.currentSeg.msn
    BY <1>3, NumberOfCurrent
  <1> HIDE DEF fed
  <1>5. fed.currentSeg.parts = s.currentSeg.parts
    BY <1>1, <1>2, NilData
  <1>6. fed.currentSeg.msn = GetCurrentMSN(s)
    BY <1>1, <1>2, NilData DEF GetCurrentMSN
  <1> QED BY <1>2, <1>4, <1>5, <1>6 DEF LeavesOpen, PartsData, fed

LEMMA FinalizeSegmentShown ==
    ASSUME NEW s, Sealable(s)
    PROVE  Seals(s, PartsData(s.currentSeg), FinalizeSegment(s))
  <1> DEFINE next == FinalizeSegment(s)
             done == Done(s.currentSeg)
  <1>1. s \in StoreRecord /\ s.currentSeg \in Segment /\ s.segments \in Seq(Segment)
        /\ s.currentSeg.msn \in Int
    BY StoreFields DEF Sealable, Filled, Sound, Segment
  <1>2. next.segments = TrimWindow(Append(s.segments, done))
    BY <1>1, FinalizeSegmentFields
  <1>3. done \in Segment /\ done.parts = s.currentSeg.parts
    BY <1>1, DoneFields
  <1>4. Filled(next) /\ next.currentSeg = NewSegment(s.currentSeg.msn + 1)
    BY FinalizeSegmentSound
  <1>5. GetCurrentMSN(s) = s.currentSeg.msn /\ GetCurrentMSN(next) = next.currentSeg.msn
    BY <1>4, NumberOfCurrent DEF Sealable
  <1> HIDE DEF next, done
  <1>6. PartsData(done) = PartsData(s.currentSeg)
    BY <1>3 DEF PartsData
  <1>7. next.currentSeg \in Segment /\ next.currentSeg.parts = <<>>
        /\ next.currentSeg.msn = s.currentSeg.msn + 1
    BY <1>1, <1>4, NilData, FreshSegmentType
  <1>8. PartsData(next.currentSeg) = <<>>
    BY <1>7, PartsDataType
  <1>9. WindowData(next.segments)
           = Live!Listed(Append(WindowData(s.segments), PartsData(s.currentSeg)))
    BY <1>1, <1>2, <1>3, <1>6, TrimWindowShown
  <1> QED BY <1>5, <1>7, <1>8, <1>9 DEF Seals, next

LEMMA FinalizePartShown ==
    ASSUME NEW s, Filled(s)
    PROVE  LET parts == Append(PartsData(s.currentSeg), s.currentPart.data)
               grown == AppendPart(s)
               closed == FinalizePart(s).store
           IN  IF IsFull(grown.currentSeg)
               THEN Seals(s, parts, closed) /\ closed.currentSeg.dur = 0
               ELSE LeavesOpen(s, parts, closed) /\ closed = grown
  <1> DEFINE parts == Append(PartsData(s.currentSeg), s.currentPart.data)
             grown == AppendPart(s)
             closed == FinalizePart(s).store
  <1>1. s \in StoreRecord /\ grown \in StoreRecord
    BY AppendPartType DEF Filled, Sound
  <1>2. Sealable(grown) /\ grown.currentSeg.msn = s.currentSeg.msn
    BY AppendPartSound
  <1>3. PartsData(grown.currentSeg) = parts /\ grown.segments = s.segments
    BY <1>1, AppendPartShown, AppendPartFields
  <1>4. GetCurrentMSN(grown) = GetCurrentMSN(s)
    BY <1>2, NumberOfCurrent DEF Sealable
  <1>5. closed = IF IsFull(grown.currentSeg) THEN FinalizeSegment(grown) ELSE grown
    BY DEF FinalizePart
  <1>6. Seals(grown, parts, FinalizeSegment(grown))
    BY <1>2, <1>3, FinalizeSegmentShown
  <1> HIDE DEF parts, grown, closed
  <1>7. FinalizeSegment(grown).currentSeg.dur = 0
    <2>1. FinalizeSegment(grown).currentSeg = NewSegment(grown.nextMSN)
      BY <1>1, FinalizeSegmentFields
    <2> QED BY <2>1 DEF NewSegment
  <1> QED BY <1>3, <1>4, <1>5, <1>6, <1>7 DEF Seals, LeavesOpen, parts, grown, closed

\* What the accumulator holds back.
Rest(s) == IF s.currentPart = NoPart THEN <<>> ELSE <<s.currentPart.data>>

LEMMA FlushShown ==
    ASSUME NEW s, Sound(s), Timed(s)
    PROVE  LET parts == PartsData(s.currentSeg) \o Rest(s)
               flushed == FlushSegment(FlushPart(s)).store
           IN  IF parts # <<>> THEN Seals(s, parts, flushed)
                               ELSE LeavesOpen(s, parts, flushed)
  <1> DEFINE shown == PartsData(s.currentSeg)
             flushed == FlushSegment(FlushPart(s)).store
  <1>1. /\ s \in StoreRecord /\ s.currentSeg \in Segment
        /\ s.currentPart \in PartAccumulator /\ s.currentPart.data \in Bytes
    BY StoreFields DEF Sound, PartAccumulator, Bytes
  <1>2. shown \in Pieces /\ (shown = <<>> <=> s.currentSeg.parts = <<>>)
    BY <1>1, PartsDataType
  <1> HIDE DEF shown
  <1>3. CASE s.currentPart = NoPart
    <2>1. shown \o Rest(s) = shown
      BY <1>2, <1>3, ConcatEmptySeq DEF Rest, Pieces
    <2>2. flushed = IF s.currentSeg.dur > 0 THEN FinalizeSegment(s) ELSE s
      BY <1>3 DEF FlushPart, FlushSegment
    <2>3. s.currentSeg.dur > 0 <=> shown # <<>>
      BY <1>2 DEF Timed, Sound
    <2> HIDE DEF flushed
    <2>4. CASE shown # <<>>
      <3>1. Sealable(s)
        BY <2>3, <2>4, HasDuration
      <3> QED BY <2>1, <2>2, <2>3, <2>4, <3>1, FinalizeSegmentShown DEF shown, flushed
    <2>5. CASE shown = <<>>
      BY <2>1, <2>2, <2>3, <2>5 DEF LeavesOpen, shown, flushed
    <2> QED BY <2>4, <2>5
  <1>4. CASE s.currentPart # NoPart
    <2> DEFINE parts == Append(shown, s.currentPart.data)
               grown == AppendPart(s)
               closed == FinalizePart(s).store
    <2>1. parts = shown \o Rest(s) /\ parts # <<>>
      BY <1>1, <1>2, <1>4, AppendIsConcat, AppendProperties DEF Rest, Pieces
    <2>2. Filled(s)
      BY <1>4, LatestTypes DEF Sound, Windowed, Filled
    <2>3. flushed = IF closed.currentSeg.dur > 0 THEN FinalizeSegment(closed) ELSE closed
      BY <1>4 DEF FlushPart, FlushSegment
    <2>4. IF IsFull(grown.currentSeg)
          THEN Seals(s, parts, closed) /\ closed.currentSeg.dur = 0
          ELSE LeavesOpen(s, parts, closed) /\ closed = grown
      BY <2>2, FinalizePartShown DEF shown
    <2>5. Sealable(grown) /\ Timed(closed)
      BY <1>4, <2>2, AppendPartSound, FinalizePartTimed
    <2> HIDE DEF parts, grown, closed, flushed
    <2>6. CASE IsFull(grown.currentSeg)
      BY <2>1, <2>3, <2>4, <2>6 DEF shown, flushed
    <2>7. CASE ~IsFull(grown.currentSeg)
      <3>1. closed.currentSeg.dur > 0
        BY <2>4, <2>5, <2>7 DEF Timed, Sealable
      <3>2. Seals(closed, parts, flushed)
        BY <2>3, <2>4, <2>5, <2>7, <3>1, FinalizeSegmentShown DEF LeavesOpen
      <3>3. Seals(s, parts, flushed)
        BY <2>4, <2>7, <3>2 DEF LeavesOpen, Seals
      <3> QED BY <2>1, <3>3 DEF shown, flushed
    <2> QED BY <2>6, <2>7
  <1> QED BY <1>3, <1>4

-----------------------------------------------------------------------------
(* The refinement.                                                         *)

LiveInv == WholeInv /\ EndInv

LEMMA LiveInvariant == Spec => []LiveInv
  <1>1. Init => LiveInv
    BY WholeInvInit, EndInvInit DEF LiveInv
  <1>2. LiveInv /\ [Next]_vars => LiveInv'
    BY WholeInvNext, EndInvNext DEF LiveInv
  <1> QED BY <1>1, <1>2, PTL DEF Spec

LEMMA LiveInit == Init => Live!Init
  <1> SUFFICES ASSUME Init PROVE Live!Init
    OBVIOUS
  <1>1. /\ Len(fragments) = 0 /\ Len(store.currentPart.data) = 0
        /\ store.segments = <<>> /\ store.currentSeg = NoSegment
        /\ store.nextMSN = 0 /\ ~store.ended
    BY NilData, EmptySeq DEF Init, NewStore
  <1>2. PartsData(store.currentSeg) = <<>> /\ WindowData(store.segments) = <<>>
    <2>1. store.currentSeg \in Segment /\ store.segments \in Seq(Segment)
      BY <1>1, NilTypes
    <2>2. WindowData(store.segments) \in Seq(Pieces) /\ Len(WindowData(store.segments)) = 0
      BY <1>1, <2>1, WindowDataType, EmptySeq
    <2> QED BY <1>1, <2>1, <2>2, PartsDataType, NilData, EmptySeq
  <1> QED BY <1>1, <1>2 DEF Live!Init, WindowData, GetCurrentMSN

\* AddFragment is Hold, or Publish when it closes a part.
LEMMA LiveAddFragment ==
    ASSUME LiveInv,
           NEW frag \in Fragment, NEW lost \in SUBSET Uses, AddFragment(frag, lost)
    PROVE  Live!Next
  <1> DEFINE n == Len(fragments)
             fed == Accumulate(store, n + 1, frag, lost)
             closed == FinalizePart(fed).store
             held == Len(store.currentPart.data)
  <1>1. /\ Sound(store) /\ store \in StoreRecord /\ Whole(store, n)
        /\ n \in Nat /\ Len(fragments') = n + 1 /\ ~store.ended
    BY LenProperties, AppendProperties
    DEF LiveInv, WholeInv, StoreInv, Sound, TypeOK, AddFragment
  <1>2. store' = fed \/ store' = closed
    BY <1>1 DEF AddFragment
  <1>3. /\ Filled(fed) /\ Whole(fed, n + 1) /\ fed.currentPart # NoPart
        /\ fed \in StoreRecord /\ fed.ended = store.ended
    BY <1>1, AccumulateSound, AccumulateWhole, AccumulateFields DEF Filled, Sound
  <1>4. LeavesOpen(store, PartsData(store.currentSeg), fed)
    BY <1>1, AccumulateShown
  <1>5. /\ fed.currentPart.data \in Seq(Nat) /\ held \in Nat
        /\ Len(fed.currentPart.data) = held + 1
    <2>1. fed.currentPart.data \in Seq(Nat) /\ store.currentPart \in PartAccumulator
      BY <1>1, <1>3, WholeTypes
    <2> DEFINE acc == IF store.currentPart = NoPart THEN NewPart(frag.key)
                                                    ELSE store.currentPart
    <2>2. fed.currentPart.data = Append(acc.data, n + 1)
      BY <1>1, AccumulateFields
    <2>3. acc.data = store.currentPart.data
      BY NilData, StoreAssumption DEF StoreAssumption, Fragment
    <2>4. store.currentPart.data \in Seq(Nat)
      BY <1>1, WholeTypes
    <2> HIDE DEF fed, acc
    <2> QED BY <1>1, <2>1, <2>2, <2>3, <2>4, AppendProperties, LenProperties
  <1>6. fed.currentPart.data = Live!Piece(n - held, n + 1)
    <2>1. RunTo(fed.currentPart.data, n + 1)
      BY <1>3 DEF Whole
    <2>2. PICK e \in Int : e = n + 1 /\ e - (held + 1) = n - held
      BY <1>1, <1>5
    <2> HIDE DEF fed
    <2>3. fed.currentPart.data = Live!Piece(e - Len(fed.currentPart.data), e)
      BY <1>5, <2>1, <2>2, RunIsPiece
    <2> QED BY <1>5, <2>2, <2>3
  <1> HIDE DEF fed, closed
  <1>7. CASE store' = fed
    <2>1. Len(fragments') - Len(store'.currentPart.data) = n - held
      <3>1. n + 1 - (held + 1) = n - held
        BY <1>1, <1>5
      <3>2. Len(fragments') = n + 1 /\ Len(store'.currentPart.data) = held + 1
        BY <1>1, <1>5, <1>7
      <3> QED BY <3>1, <3>2
    <2>2. /\ WindowData(store'.segments) = WindowData(store.segments)
          /\ GetCurrentMSN(store') = GetCurrentMSN(store)
          /\ PartsData(store'.currentSeg) = PartsData(store.currentSeg)
          /\ store'.ended = store.ended
      BY <1>3, <1>4, <1>7 DEF LeavesOpen
    <2>3. Live!Hold
      BY <1>1, <2>1, <2>2 DEF Live!Hold, WindowData
    <2> QED BY <2>3 DEF Live!Next
  <1>8. CASE store' = closed
    <2> DEFINE parts == Append(PartsData(store.currentSeg), Live!Piece(n - held, n + 1))
    <2>1. Seals(fed, parts, closed) \/ LeavesOpen(fed, parts, closed)
      BY <1>3, <1>4, <1>6, FinalizePartShown DEF LeavesOpen, closed
    <2>2. Seals(store, parts, closed) \/ LeavesOpen(store, parts, closed)
      BY <1>4, <2>1 DEF Seals, LeavesOpen
    <2>3. closed.currentPart = NoPart /\ closed.ended = FALSE
      <3>1. closed.ended = fed.ended
        BY <1>3, FinalizePartEnded DEF closed
      <3>2. closed.ended \in BOOLEAN
        BY <1>3, FinalizePartType DEF closed, StoreRecord
      <3> QED BY <1>1, <1>3, <3>1, <3>2, FinalizePartWhole DEF closed
    <2>4. Len(fragments') - Len(store'.currentPart.data) = n + 1
      <3>1. Len(fragments') = n + 1 /\ Len(store'.currentPart.data) = 0
        BY <1>1, <1>8, <2>3, NilData
      <3>2. n + 1 - 0 = n + 1
        BY <1>1
      <3> QED BY <3>1, <3>2
    <2>5. store.ended = FALSE
      BY <1>1 DEF StoreRecord
    <2> HIDE DEF parts
    <2>6. \/ Live!Seal(parts)
          \/ /\ PartsData(store'.currentSeg) = parts
             /\ WindowData(store'.segments) = WindowData(store.segments)
             /\ GetCurrentMSN(store') = GetCurrentMSN(store)
      BY <1>8, <2>2 DEF Live!Seal, Seals, LeavesOpen, WindowData
    <2>7. store'.ended = store.ended
      BY <1>8, <2>3, <2>5
    <2>8. Live!Publish
      BY <1>1, <2>4, <2>6, <2>7 DEF Live!Publish, WindowData, parts
    <2> QED BY <2>8 DEF Live!Next
  <1> QED BY <1>2, <1>7, <1>8

LEMMA LiveFinalize ==
    ASSUME LiveInv, NoneTooShort, Finalize
    PROVE  Live!End
  <1> DEFINE n == Len(fragments)
             held == Len(store.currentPart.data)
             parts == PartsData(store.currentSeg) \o Rest(store)
             flushed == FlushSegment(FlushPart(store)).store
  <1>1. /\ Sound(store) /\ store \in StoreRecord /\ Whole(store, n) /\ Timed(store)
        /\ n \in Nat /\ fragments' = fragments /\ ~store.ended
    BY LenProperties
    DEF LiveInv, WholeInv, EndInv, StoreInv, Sound, TypeOK, Finalize
  <1>2. store' = [flushed EXCEPT !.ended = TRUE]
    BY DEF Finalize
  <1>3. flushed \in StoreRecord /\ flushed.currentPart = NoPart
    BY <1>1, FlushType, FlushSealed DEF Sealed
  <1>4. IF parts # <<>> THEN Seals(store, parts, flushed)
                        ELSE LeavesOpen(store, parts, flushed)
    BY <1>1, FlushShown
  <1>5. Rest(store) = IF n > n - held THEN <<Live!Piece(n - held, n)>> ELSE <<>>
    <2>1. store.currentPart.data \in Seq(Nat) /\ held \in Nat
      BY <1>1, WholeTypes
    <2>2. store.currentPart = NoPart <=> held = 0
      BY <1>1, <2>1, NilData, EmptySeq DEF Whole
    <2>3. store.currentPart.data = Live!Piece(n - held, n)
      <3>1. RunTo(store.currentPart.data, n) /\ n \in Int
        BY <1>1 DEF Whole
      <3> QED BY <2>1, <3>1, RunIsPiece
    <2>4. n > n - held <=> held # 0
      BY <1>1, <2>1
    <2> QED BY <2>2, <2>3, <2>4 DEF Rest
  <1> HIDE DEF flushed
  <1>6. /\ store'.segments = flushed.segments /\ store'.currentSeg = flushed.currentSeg
        /\ store'.currentPart = NoPart /\ store'.ended = TRUE
        /\ GetCurrentMSN(store') = GetCurrentMSN(flushed)
    BY <1>2, <1>3 DEF StoreRecord, GetCurrentMSN
  <1>7. Len(fragments') - Len(store'.currentPart.data) = n
    BY <1>1, <1>6, NilData
  <1>8. CASE parts # <<>>
    <2>1. Live!Seal(parts)
      BY <1>4, <1>6, <1>8 DEF Live!Seal, Seals, WindowData
    <2> QED BY <1>1, <1>5, <1>6, <1>7, <1>8, <2>1 DEF Live!End
  <1>9. CASE parts = <<>>
    <2>1. /\ PartsData(store'.currentSeg) = PartsData(store.currentSeg)
          /\ WindowData(store'.segments) = WindowData(store.segments)
          /\ GetCurrentMSN(store') = GetCurrentMSN(store)
      <3>1. store.currentSeg \in Segment
        BY <1>1, StoreFields
      <3>2. PartsData(store.currentSeg) = parts
        <4>1. PartsData(store.currentSeg) \in Pieces /\ Rest(store) \in Pieces
          BY <1>1, <3>1, PartsDataType, StoreFields DEF Rest, Pieces, Bytes, PartAccumulator
        <4> QED BY <1>9, <4>1, ConcatEqualIffEmpty DEF Pieces
      <3> QED BY <1>4, <1>6, <1>9, <3>2 DEF LeavesOpen
    <2> QED BY <1>1, <1>5, <1>6, <1>7, <1>9, <2>1 DEF Live!End, WindowData
  <1> QED BY <1>8, <1>9

(***************************************************************************)
(* The store implements the abstract live stream, given fragments longer   *)
(* than a millisecond: every AddFragment is a Hold or a Publish, Finalize  *)
(* is the End, and a broadcast is nothing a playlist shows.                *)
(***************************************************************************)
THEOREM StoreIsLiveStream ==
    ASSUME NoneTooShort
    PROVE  Spec => ImplementsLiveStream
  <1>1. LiveInv /\ [Next]_vars => [Live!Next]_(Live!vars)
    <2> SUFFICES ASSUME LiveInv, [Next]_vars PROVE [Live!Next]_(Live!vars)
      OBVIOUS
    <2>1. CASE \E frag \in Fragment, lost \in SUBSET Uses : AddFragment(frag, lost)
      BY <2>1, LiveAddFragment
    <2>2. CASE Finalize
      BY <2>2, LiveFinalize DEF Live!Next
    <2>3. CASE SetInit
      <3>1. store \in StoreRecord
        BY DEF LiveInv, WholeInv, StoreInv, Sound
      <3> QED BY <2>3, <3>1 DEF SetInit, StoreRecord, Live!vars, GetCurrentMSN
    <2>4. CASE Broadcast \/ BroadcastEnded \/ UNCHANGED vars
      BY <2>4 DEF Broadcast, BroadcastEnded, vars, Live!vars
    <2> QED BY <2>1, <2>2, <2>3, <2>4 DEF Next
  <1> QED BY <1>1, LiveInit, LiveInvariant, PTL DEF Spec, ImplementsLiveStream, Live!Spec

=============================================================================

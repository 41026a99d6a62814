-------------------------- MODULE RecordingProofs --------------------------
(***************************************************************************)
(* What is on disk, for every configuration of the store, any number of    *)
(* sessions in the directory and any failed writes.                        *)
(*                                                                         *)
(* The segments that were listed, and the one the call in progress still   *)
(* has to list, are the completed segments of the store; a playlist file   *)
(* lists the first of them, and a listed segment's file is never touched   *)
(* again, because its number is not used again.                            *)
(***************************************************************************)
EXTENDS Recording, ContentProofs

-----------------------------------------------------------------------------
(* Names.                                                                  *)

WriteRecord == [name : Names, media : Seq(Nat), final : BOOLEAN]

LEMMA NameTypes ==
    /\ InitName \in Names /\ PlaylistName \in Names
    /\ \A msn \in Nat, idx \in Nat : PartName(msn, idx) \in Names
    /\ \A msn \in Nat : SegmentName(msn) \in Names
  BY DEF Names, InitName, PlaylistName, PartName, SegmentName

LEMMA NamesDiffer ==
    /\ InitName # PlaylistName
    /\ \A m \in Nat : SegmentName(m) \notin {InitName, PlaylistName}
    /\ \A m \in Nat, i \in Nat : PartName(m, i) \notin {InitName, PlaylistName}
    /\ \A m \in Nat, k \in Nat : SegmentName(m) = SegmentName(k) => m = k
    /\ \A m \in Nat : SegmentName(m)[1] = "segment"
    /\ \A m \in Nat, i \in Nat : PartName(m, i)[1] # "segment"
    /\ InitName[1] # "segment" /\ PlaylistName[1] # "segment"
  BY DEF InitName, PlaylistName, SegmentName, PartName

LEMMA WriteTypes ==
    /\ WriteInit \in WriteRecord
    /\ \A final \in BOOLEAN : WriteList(final) \in WriteRecord
    /\ \A seg \in Segment : seg.msn \in Nat =>
          Write(SegmentName(seg.msn), seg.data, FALSE) \in WriteRecord
    /\ \A part \in Part : part.msn \in Nat => WritePart(part) \in WriteRecord
  BY NameTypes DEF WriteRecord, WriteInit, WriteList, WritePart, Write, Segment, Part

-----------------------------------------------------------------------------
(* A list of segments in order, from the first of the stream.              *)

Row(es) ==
    \A i \in 1 .. Len(es) :
        /\ es[i].name = SegmentName(i - 1)
        /\ es[i].media # <<>>
        /\ RunTo(es[i].media, LastOf(es[i].media))
        /\ es[i].media[1] = IF i = 1 THEN 1 ELSE LastOf(es[i - 1].media) + 1

\* How many fragments it names.
Upto(es) == IF es = <<>> THEN 0 ELSE LastOf(LastOf(es).media)

Prefix(a, b) == Len(a) <= Len(b) /\ \A i \in 1 .. Len(a) : a[i] = b[i]

LEMMA LastIsNumber ==
    ASSUME NEW d \in Seq(Nat), d # <<>>
    PROVE  LastOf(d) \in Nat /\ d[1] \in Nat
  <1>1. Len(d) \in Nat \ {0} /\ DOMAIN d = 1 .. Len(d)
    BY EmptySeq, LenProperties
  <1>2. Len(d) \in DOMAIN d /\ 1 \in DOMAIN d
    BY <1>1
  <1> QED BY <1>2 DEF LastOf

LEMMA EntryFields ==
    ASSUME NEW es \in Seq(Entry), NEW i \in 1 .. Len(es)
    PROVE  es[i] \in Entry /\ es[i].media \in Seq(Nat)
  <1>1. es[i] \in Entry
    BY LenProperties
  <1> QED BY <1>1 DEF Entry

LEMMA UptoType ==
    ASSUME NEW es \in Seq(Entry), Row(es)
    PROVE  Upto(es) \in Nat
  <1>1. CASE es = <<>>
    BY <1>1 DEF Upto
  <1>2. CASE es # <<>>
    <2>1. Len(es) \in 1 .. Len(es)
      BY <1>2, EmptySeq, LenProperties
    <2>2. es[Len(es)].media \in Seq(Nat) /\ es[Len(es)].media # <<>>
      BY <2>1, EntryFields DEF Row
    <2>3. LastOf(es[Len(es)].media) \in Nat
      BY <2>2, LastIsNumber
    <2> QED BY <1>2, <2>3 DEF Upto, LastOf
  <1> QED BY <1>1, <1>2

LEMMA RowGrows ==
    ASSUME NEW es \in Seq(Entry), Row(es), NEW e \in Entry,
           e.name = SegmentName(Len(es)), e.media # <<>>,
           RunTo(e.media, Upto(es) + Len(e.media))
    PROVE  /\ Row(Append(es, e)) /\ Append(es, e) \in Seq(Entry)
           /\ Len(Append(es, e)) = Len(es) + 1
           /\ Upto(Append(es, e)) = Upto(es) + Len(e.media)
  <1> DEFINE all == Append(es, e)
             end == Upto(es) + Len(e.media)
  <1>1. /\ all \in Seq(Entry) /\ all # <<>> /\ Len(all) = Len(es) + 1 /\ Len(es) \in Nat
        /\ \A i \in 1 .. Len(es) : all[i] = es[i]
        /\ all[Len(es) + 1] = e
    BY AppendProperties, LenProperties
  <1>2. Upto(es) \in Nat /\ e.media \in Seq(Nat) /\ Len(e.media) \in Nat /\ end \in Int
    <2>1. Upto(es) \in Nat
      BY UptoType
    <2>2. e.media \in Seq(Nat)
      BY DEF Entry
    <2>3. Len(e.media) \in Nat
      BY <2>2, LenProperties
    <2> QED BY <2>1, <2>2, <2>3
  <1>3. LastOf(e.media) = end /\ e.media[1] - 1 = end - Len(e.media)
    BY <1>2, RunLast, RunFirst
  <1>4. e.media[1] = Upto(es) + 1
    BY <1>2, <1>3, LastIsNumber
  <1>5. Upto(es) = IF Len(es) = 0 THEN 0 ELSE LastOf(es[Len(es)].media)
    BY <1>1, EmptySeq DEF Upto, LastOf
  <1> HIDE DEF all, end
  <1>6. ASSUME NEW i \in 1 .. Len(all)
        PROVE  /\ all[i].name = SegmentName(i - 1)
               /\ all[i].media # <<>>
               /\ RunTo(all[i].media, LastOf(all[i].media))
               /\ all[i].media[1] = IF i = 1 THEN 1 ELSE LastOf(all[i - 1].media) + 1
    <2>1. CASE i = Len(es) + 1
      <3>1. all[i] = e /\ i - 1 = Len(es)
        BY <1>1, <2>1
      <3>2. i # 1 => all[i - 1] = es[Len(es)]
        BY <1>1, <2>1
      <3>3. all[i].media[1] = IF i = 1 THEN 1 ELSE LastOf(all[i - 1].media) + 1
        BY <1>1, <1>4, <1>5, <2>1, <3>1, <3>2
      <3> QED BY <1>3, <3>1, <3>3 DEF end
    <2>2. CASE i # Len(es) + 1
      <3>1. i \in 1 .. Len(es) /\ (i # 1 => i - 1 \in 1 .. Len(es))
        BY <1>1, <2>2
      <3>2. all[i] = es[i] /\ (i # 1 => all[i - 1] = es[i - 1])
        BY <1>1, <3>1
      <3> QED BY <3>1, <3>2 DEF Row
    <2> QED BY <2>1, <2>2
  <1>7. Row(all)
    BY <1>6 DEF Row
  <1>8. Upto(all) = end
    BY <1>1, <1>3 DEF Upto, LastOf
  <1> QED BY <1>1, <1>7, <1>8 DEF all, end

LEMMA RowPrefix ==
    ASSUME NEW b, Row(b), NEW a, Prefix(a, b), Len(a) \in Nat, Len(b) \in Nat
    PROVE  Row(a)
  <1> SUFFICES ASSUME NEW i \in 1 .. Len(a)
               PROVE  /\ a[i].name = SegmentName(i - 1)
                      /\ a[i].media # <<>>
                      /\ RunTo(a[i].media, LastOf(a[i].media))
                      /\ a[i].media[1] = IF i = 1 THEN 1 ELSE LastOf(a[i - 1].media) + 1
    BY DEF Row
  <1>1. i \in 1 .. Len(b) /\ (i # 1 => i - 1 \in 1 .. Len(a))
    BY DEF Prefix
  <1>2. a[i] = b[i] /\ (i # 1 => a[i - 1] = b[i - 1])
    BY <1>1 DEF Prefix
  <1> QED BY <1>1, <1>2 DEF Row

LEMMA RowHasNoGap ==
    ASSUME NEW es \in Seq(Entry), Row(es), NEW i \in DOMAIN es
    PROVE  /\ RunTo(es[i].media, IF i = Len(es) THEN LastOf(es[i].media)
                                               ELSE es[i + 1].media[1] - 1)
           /\ es[1].media[1] = 1
  <1>1. i \in 1 .. Len(es) /\ Len(es) \in Nat
    BY LenProperties
  <1>2. es[1].media[1] = 1
    BY <1>1 DEF Row
  <1>3. CASE i = Len(es)
    BY <1>1, <1>2, <1>3 DEF Row
  <1>4. CASE i # Len(es)
    <2>1. i + 1 \in 1 .. Len(es) /\ i + 1 # 1 /\ (i + 1) - 1 = i
      BY <1>1, <1>4
    <2>2. es[i + 1].media[1] = LastOf(es[i].media) + 1
      BY <2>1 DEF Row
    <2>3. LastOf(es[i].media) \in Nat
      <3>1. es[i].media \in Seq(Nat) /\ es[i].media # <<>>
        BY <1>1, EntryFields DEF Row
      <3> QED BY <3>1, LastIsNumber
    <2>4. es[i + 1].media[1] - 1 = LastOf(es[i].media)
      BY <2>2, <2>3
    <2>5. RunTo(es[i].media, LastOf(es[i].media))
      BY <1>1 DEF Row
    <2> QED BY <1>2, <1>4, <2>4, <2>5
  <1> QED BY <1>3, <1>4

-----------------------------------------------------------------------------
(* What the pending writes add to the list: one segment at most.           *)

Named(w) == [name |-> w.name, media |-> w.media]

Unlisted(ws) == \A i \in DOMAIN ws : ~IsSegment(ws[i])

Lists(ws, es, next) ==
    \/ next = es /\ Unlisted(ws)
    \/ \E p \in DOMAIN ws :
          /\ IsSegment(ws[p])
          /\ \A i \in DOMAIN ws : i # p => ~IsSegment(ws[i])
          /\ next = Append(es, Named(ws[p]))

LEMMA ListsTail ==
    ASSUME NEW ws \in Seq(WriteRecord), ws # <<>>, NEW es, NEW next, Lists(ws, es, next)
    PROVE  IF IsSegment(Head(ws))
           THEN next = Append(es, Named(Head(ws))) /\ Lists(Tail(ws), next, next)
           ELSE Lists(Tail(ws), es, next)
  <1> DEFINE t == Tail(ws)
  <1>1. /\ Head(ws) = ws[1] /\ Len(ws) \in Nat \ {0} /\ DOMAIN ws = 1 .. Len(ws)
        /\ t \in Seq(WriteRecord) /\ Len(t) = Len(ws) - 1
        /\ \A i \in 1 .. Len(t) : t[i] = ws[i + 1]
    BY EmptySeq, LenProperties, HeadTailProperties
  <1>2. DOMAIN t = 1 .. Len(t)
    BY <1>1, LenProperties
  <1> HIDE DEF t
  <1>3. \A i \in DOMAIN t : i + 1 \in DOMAIN ws /\ i + 1 # 1 /\ t[i] = ws[i + 1]
    BY <1>1, <1>2
  <1>4. CASE next = es /\ Unlisted(ws)
    <2>1. ~IsSegment(ws[1])
      BY <1>1, <1>4 DEF Unlisted
    <2>2. Unlisted(t)
      BY <1>3, <1>4 DEF Unlisted
    <2> QED BY <1>1, <1>4, <2>1, <2>2 DEF Lists, t
  <1>5. ASSUME NEW p \in DOMAIN ws, IsSegment(ws[p]),
               \A i \in DOMAIN ws : i # p => ~IsSegment(ws[i]),
               next = Append(es, Named(ws[p]))
        PROVE  IF IsSegment(Head(ws))
               THEN next = Append(es, Named(Head(ws))) /\ Lists(t, next, next)
               ELSE Lists(t, es, next)
    <2>1. CASE p = 1
      <3>1. Unlisted(t)
        BY <1>3, <1>5, <2>1 DEF Unlisted
      <3> QED BY <1>1, <1>5, <2>1, <3>1 DEF Lists
    <2>2. CASE p # 1
      <3>1. ~IsSegment(ws[1])
        BY <1>1, <1>5, <2>2
      <3>2. p - 1 \in DOMAIN t /\ t[p - 1] = ws[p]
        BY <1>1, <1>2, <2>2
      <3>3. \A i \in DOMAIN t : i # p - 1 => ~IsSegment(t[i])
        <4> SUFFICES ASSUME NEW i \in DOMAIN t, i # p - 1 PROVE ~IsSegment(t[i])
          OBVIOUS
        <4>1. i + 1 # p
          BY <1>1, <1>2
        <4> QED BY <1>3, <1>5, <4>1
      <3> QED BY <1>1, <1>5, <3>1, <3>2, <3>3 DEF Lists
    <2> QED BY <2>1, <2>2
  <1> QED BY <1>4, <1>5 DEF Lists, t

LEMMA ListsJoined ==
    ASSUME NEW a \in Seq(WriteRecord), NEW b \in Seq(WriteRecord), NEW es, NEW next,
           \/ Unlisted(a) /\ Lists(b, es, next)
           \/ Lists(a, es, next) /\ Unlisted(b)
    PROVE  Lists(a \o b, es, next) /\ a \o b \in Seq(WriteRecord)
  <1> DEFINE j == a \o b
  <1>1. /\ j \in Seq(WriteRecord) /\ Len(j) = Len(a) + Len(b)
        /\ Len(a) \in Nat /\ Len(b) \in Nat
        /\ \A i \in 1 .. Len(a) + Len(b) : j[i] = IF i <= Len(a) THEN a[i] ELSE b[i - Len(a)]
    BY ConcatProperties, LenProperties
  <1>2. DOMAIN j = 1 .. Len(j) /\ DOMAIN a = 1 .. Len(a) /\ DOMAIN b = 1 .. Len(b)
    BY <1>1, LenProperties
  <1> HIDE DEF j
  <1>3. \A i \in DOMAIN j : \/ i \in DOMAIN a /\ j[i] = a[i]
                            \/ i - Len(a) \in DOMAIN b /\ j[i] = b[i - Len(a)]
    BY <1>1, <1>2
  <1>4. CASE Unlisted(a) /\ next = es /\ Unlisted(b)
    <2>1. Unlisted(j)
      BY <1>3, <1>4 DEF Unlisted
    <2> QED BY <1>1, <1>4, <2>1 DEF Lists, j
  <1>5. ASSUME Unlisted(a), NEW p \in DOMAIN b, IsSegment(b[p]),
               \A i \in DOMAIN b : i # p => ~IsSegment(b[i]),
               next = Append(es, Named(b[p]))
        PROVE  Lists(j, es, next)
    <2> DEFINE q == p + Len(a)
    <2>1. q \in DOMAIN j /\ j[q] = b[p]
      BY <1>1, <1>2
    <2>2. ASSUME NEW i \in DOMAIN j, i # q PROVE ~IsSegment(j[i])
      <3>1. CASE i \in DOMAIN a /\ j[i] = a[i]
        BY <1>5, <3>1 DEF Unlisted
      <3>2. CASE i - Len(a) \in DOMAIN b /\ j[i] = b[i - Len(a)]
        <4>1. i - Len(a) # p
          BY <1>1, <1>2, <2>2
        <4> QED BY <1>5, <3>2, <4>1
      <3> QED BY <1>3, <3>1, <3>2
    <2> HIDE DEF q
    <2> QED BY <1>5, <2>1, <2>2 DEF Lists
  <1>6. ASSUME Unlisted(b), NEW p \in DOMAIN a, IsSegment(a[p]),
               \A i \in DOMAIN a : i # p => ~IsSegment(a[i]),
               next = Append(es, Named(a[p]))
        PROVE  Lists(j, es, next)
    <2>1. p \in DOMAIN j /\ j[p] = a[p]
      BY <1>1, <1>2
    <2>2. ASSUME NEW i \in DOMAIN j, i # p PROVE ~IsSegment(j[i])
      BY <1>3, <1>6, <2>2 DEF Unlisted
    <2> QED BY <1>6, <2>1, <2>2 DEF Lists
  <1> QED BY <1>1, <1>4, <1>5, <1>6 DEF Lists, j

-----------------------------------------------------------------------------
(* The writes of the store's operations list what the operations complete. *)

Complete(es, s, n) ==
    /\ es \in Seq(Entry) /\ Row(es)
    /\ Len(es) = GetCurrentMSN(s)
    /\ Upto(es) = SealedTo(s, n)

\* ws are writes that bring a list from store s to store t.
Follow(ws, s, t, n) ==
    /\ ws \in Seq(WriteRecord)
    /\ \A i \in DOMAIN ws : ws[i].name # InitName /\ ~ws[i].final
    /\ \A es : Complete(es, s, n) =>
                 \E next : Lists(ws, es, next) /\ Complete(next, t, n)

LEMMA FollowsNothing ==
    ASSUME NEW s, NEW n
    PROVE  Follow(<<>>, s, s, n)
  BY DEF Follow, Lists, Unlisted

LEMMA FilledIs ==
    ASSUME NEW s, Filled(s)
    PROVE  /\ s \in StoreRecord /\ s.currentSeg \in Segment /\ s.currentSeg.msn \in Nat
           /\ GetCurrentMSN(s) = s.currentSeg.msn
           /\ s.currentSeg.data \in Seq(Nat) /\ s.currentSeg.parts \in Seq(Part)
  <1>1. s \in StoreRecord /\ s.currentSeg \in Segment
    BY StoreFields DEF Filled, Sound
  <1>2. s.currentSeg.msn \in Int
    BY <1>1 DEF Segment
  <1>3. s.currentSeg # NoSegment
    BY NilData DEF Filled
  <1> QED BY <1>1, <1>2, <1>3 DEF Filled, GetCurrentMSN, Segment

LEMMA SegmentWrites ==
    ASSUME NEW s, Sealable(s), NEW n \in Nat, Whole(s, n), s.currentPart = NoPart
    PROVE  Follow(WriteSegment(s.currentSeg), s, FinalizeSegment(s), n)
  <1> DEFINE seg == s.currentSeg
             next == FinalizeSegment(s)
             ws == WriteSegment(seg)
             e == [name |-> SegmentName(seg.msn), media |-> seg.data]
  <1>1. /\ seg \in Segment /\ seg.msn \in Nat /\ GetCurrentMSN(s) = seg.msn
        /\ seg.data \in Seq(Nat) /\ s \in StoreRecord
    BY FilledIs DEF Sealable
  <1>2. ws = <<Write(SegmentName(seg.msn), seg.data, FALSE), WriteList(FALSE)>>
    BY DEF WriteSegment
  <1>3. ws \in Seq(WriteRecord)
    <2>1. Write(SegmentName(seg.msn), seg.data, FALSE) \in WriteRecord
      BY <1>1, WriteTypes
    <2>2. WriteList(FALSE) \in WriteRecord
      BY WriteTypes
    <2>3. \A x \in WriteRecord, y \in WriteRecord : <<x, y>> \in Seq(WriteRecord)
      OBVIOUS
    <2> HIDE DEF ws
    <2> QED BY <1>2, <2>1, <2>2, <2>3
  <1>4. /\ ws[1].name = SegmentName(seg.msn) /\ ws[1].media = seg.data /\ ~ws[1].final
        /\ ws[2].name = PlaylistName /\ ~ws[2].final
        /\ DOMAIN ws = {1, 2}
    BY <1>2 DEF Write, WriteList
  <1>5. Filled(next) /\ next.currentSeg = NewSegment(seg.msn + 1)
        /\ next.currentPart = NoPart
    BY <1>1, FinalizeSegmentSound, FinalizeSegmentFields
  <1>6. GetCurrentMSN(next) = seg.msn + 1
    BY <1>1, <1>5, FilledIs, NilData
  <1> HIDE DEF next, ws
  <1>7. /\ Len(seg.data) \in Nat /\ Cut(s, n) = n
        /\ SealedTo(s, n) = n - Len(seg.data) /\ SealedTo(next, n) = n
    <2>1. Len(seg.data) \in Nat /\ Len(s.currentPart.data) = 0
      BY <1>1, LenProperties, NilData
    <2>2. Len(next.currentPart.data) = 0 /\ Len(next.currentSeg.data) = 0
      BY <1>1, <1>5, NilData
    <2> QED BY <2>1, <2>2 DEF Cut, SealedTo
  <1>8. seg.data # <<>> /\ RunTo(seg.data, n)
    BY <1>7 DEF Whole, Sealable
  <1>9. e \in Entry
    BY <1>1, NameTypes DEF Entry
  <1>10. ASSUME NEW es, Complete(es, s, n)
         PROVE  \E list : Lists(ws, es, list) /\ Complete(list, next, n)
    <2>1. /\ es \in Seq(Entry) /\ Row(es) /\ Len(es) = seg.msn
          /\ Upto(es) + Len(seg.data) = n
      BY <1>1, <1>7, <1>10 DEF Complete
    <2>2. /\ Row(Append(es, e)) /\ Append(es, e) \in Seq(Entry)
          /\ Len(Append(es, e)) = Len(es) + 1
          /\ Upto(Append(es, e)) = n
      <3>1. e.name = SegmentName(Len(es)) /\ e.media = seg.data
        BY <2>1
      <3> HIDE DEF e, seg
      <3> QED BY <1>8, <1>9, <2>1, <3>1, RowGrows
    <2>3. Complete(Append(es, e), next, n)
      BY <1>6, <1>7, <2>1, <2>2 DEF Complete
    <2>4. Lists(ws, es, Append(es, e))
      <3>1. IsSegment(ws[1]) /\ ~IsSegment(ws[2])
        BY <1>1, <1>4, NamesDiffer DEF IsSegment
      <3>2. Named(ws[1]) = e
        BY <1>4 DEF Named
      <3> QED BY <1>4, <3>1, <3>2 DEF Lists
    <2> QED BY <2>3, <2>4
  <1>11. \A i \in DOMAIN ws : ws[i].name # InitName /\ ~ws[i].final
    BY <1>1, <1>4, NamesDiffer
  <1> QED BY <1>3, <1>10, <1>11 DEF Follow, next, ws

\* The part's own file lists nothing.
LEMMA PartWrites ==
    ASSUME NEW s, Filled(s), NEW n \in Nat, Whole(s, n), s.currentPart # NoPart
    PROVE  LET grown == AppendPart(s)
               ws == <<WritePart(LastOf(grown.currentSeg.parts))>>
           IN  /\ ws \in Seq(WriteRecord) /\ Unlisted(ws)
               /\ \A i \in DOMAIN ws : ws[i].name # InitName /\ ~ws[i].final
               /\ Follow(<<>>, s, grown, n)
  <1> DEFINE grown == AppendPart(s)
             part == ClosedPart(s)
             ws == <<WritePart(LastOf(grown.currentSeg.parts))>>
  <1>1. /\ s \in StoreRecord /\ s.currentSeg.msn \in Nat
        /\ GetCurrentMSN(s) = s.currentSeg.msn
        /\ s.currentSeg.parts \in Seq(Part) /\ s.currentSeg.data \in Seq(Nat)
    BY FilledIs
  <1>2. /\ part \in Part /\ part.msn = s.currentSeg.msn
        /\ part.idx \in Nat
    <2>1. part \in Part
      BY <1>1, ClosedPartType
    <2> QED BY <2>1 DEF ClosedPart, Part
  <1>3. /\ grown.currentSeg.parts = Append(s.currentSeg.parts, part)
        /\ grown.currentSeg.data = s.currentSeg.data \o s.currentPart.data
        /\ grown.currentPart = NoPart
        /\ Sealable(grown) /\ grown.currentSeg.msn = s.currentSeg.msn
    BY <1>1, AppendPartFields, AppendPartSound
  <1> HIDE DEF grown, part
  <1>4. LastOf(grown.currentSeg.parts) = part
    BY <1>1, <1>2, <1>3, AppendProperties DEF LastOf
  <1>5. WritePart(part) \in WriteRecord
    BY <1>1, <1>2, WriteTypes
  <1>6. WritePart(part).name = PartName(part.msn, part.idx) /\ ~WritePart(part).final
    BY DEF WritePart, Write
  <1>7. ws = <<WritePart(part)>> /\ ws \in Seq(WriteRecord) /\ DOMAIN ws = {1}
        /\ ws[1] = WritePart(part)
    BY <1>4, <1>5
  <1> HIDE DEF ws
  <1>8. Unlisted(ws) /\ \A i \in DOMAIN ws : ws[i].name # InitName /\ ~ws[i].final
    BY <1>1, <1>2, <1>6, <1>7, NamesDiffer DEF Unlisted, IsSegment
  <1>9. GetCurrentMSN(grown) = GetCurrentMSN(s)
    BY <1>1, <1>3, FilledIs DEF Sealable
  <1>10. SealedTo(grown, n) = SealedTo(s, n)
    <2>1. s.currentPart.data \in Seq(Nat)
      BY <1>1, StoreFields DEF PartAccumulator
    <2>2. /\ Len(grown.currentSeg.data) = Len(s.currentSeg.data) + Len(s.currentPart.data)
          /\ Len(s.currentSeg.data) \in Nat /\ Len(s.currentPart.data) \in Nat
      BY <1>1, <1>3, <2>1, ConcatProperties, LenProperties
    <2>3. Len(grown.currentPart.data) = 0
      BY <1>3, NilData
    <2> QED BY <2>2, <2>3 DEF Cut, SealedTo
  <1>11. \A es : Complete(es, s, n) => Lists(<<>>, es, es) /\ Complete(es, grown, n)
    BY <1>9, <1>10 DEF Complete, Lists, Unlisted
  <1> QED BY <1>7, <1>8, <1>11 DEF Follow, grown, ws

LEMMA QuietFollows ==
    ASSUME NEW ws \in Seq(WriteRecord), Unlisted(ws), NEW s, NEW n,
           \A i \in DOMAIN ws : ws[i].name # InitName /\ ~ws[i].final
    PROVE  Follow(ws, s, s, n)
  BY DEF Follow, Lists

LEMMA FollowFrom ==
    ASSUME NEW ws, NEW s, NEW t, NEW u, NEW n,
           Follow(<<>>, s, t, n), Follow(ws, t, u, n)
    PROVE  Follow(ws, s, u, n)
  <1>1. \A es, mid : Lists(<<>>, es, mid) => mid = es
    BY DEF Lists
  <1>2. \A es : Complete(es, s, n) => Complete(es, t, n)
    BY <1>1 DEF Follow
  <1> QED BY <1>2 DEF Follow

\* One of two batches of writes lists nothing: together they do what the
\* stores do.
LEMMA FollowBoth ==
    ASSUME NEW a, NEW b, NEW s, NEW t, NEW u, NEW n,
           Follow(a, s, t, n), Follow(b, t, u, n), Unlisted(a) \/ Unlisted(b)
    PROVE  Follow(a \o b, s, u, n)
  <1>1. a \in Seq(WriteRecord) /\ b \in Seq(WriteRecord)
    BY DEF Follow
  <1>2. ASSUME NEW i \in DOMAIN (a \o b)
        PROVE  (a \o b)[i].name # InitName /\ ~(a \o b)[i].final
    <2>1. \/ i \in DOMAIN a /\ (a \o b)[i] = a[i]
          \/ i - Len(a) \in DOMAIN b /\ (a \o b)[i] = b[i - Len(a)]
      <3>1. /\ Len(a) \in Nat /\ Len(b) \in Nat /\ Len(a \o b) = Len(a) + Len(b)
            /\ \A k \in 1 .. Len(a) + Len(b) :
                  (a \o b)[k] = IF k <= Len(a) THEN a[k] ELSE b[k - Len(a)]
            /\ a \o b \in Seq(WriteRecord)
        BY <1>1, ConcatProperties, LenProperties
      <3>2. /\ DOMAIN (a \o b) = 1 .. Len(a \o b) /\ DOMAIN a = 1 .. Len(a)
            /\ DOMAIN b = 1 .. Len(b)
        BY <1>1, <3>1, LenProperties
      <3> QED BY <3>1, <3>2
    <2> QED BY <2>1 DEF Follow
  <1>3. ASSUME NEW es, Complete(es, s, n)
        PROVE  \E next : Lists(a \o b, es, next) /\ Complete(next, u, n)
    <2>1. PICK mid : Lists(a, es, mid) /\ Complete(mid, t, n)
      BY <1>3 DEF Follow
    <2>2. PICK next : Lists(b, mid, next) /\ Complete(next, u, n)
      BY <2>1 DEF Follow
    <2>3. CASE Unlisted(a)
      <3>1. mid = es
        BY <2>1, <2>3 DEF Lists, Unlisted
      <3> QED BY <1>1, <2>2, <2>3, <3>1, ListsJoined
    <2>4. CASE Unlisted(b)
      <3>1. next = mid
        BY <2>2, <2>4 DEF Lists, Unlisted
      <3> QED BY <1>1, <2>1, <2>2, <2>4, <3>1, ListsJoined
    <2> QED BY <2>3, <2>4
  <1> QED BY <1>1, <1>2, <1>3, ConcatProperties DEF Follow

LEMMA FinalizePartFollows ==
    ASSUME NEW s, Filled(s), NEW n \in Nat, Whole(s, n), s.currentPart # NoPart
    PROVE  /\ Follow(FinalizePartWrites(s), s, FinalizePart(s).store, n)
           /\ \/ Unlisted(FinalizePartWrites(s))
              \/ FinalizePart(s).store.currentSeg.dur = 0
  <1> DEFINE grown == AppendPart(s)
             seg == grown.currentSeg
             part == <<WritePart(LastOf(seg.parts))>>
             next == FinalizePart(s).store
  <1>1. /\ part \in Seq(WriteRecord) /\ Unlisted(part)
        /\ \A i \in DOMAIN part : part[i].name # InitName /\ ~part[i].final
        /\ Follow(<<>>, s, grown, n)
    BY PartWrites
  <1>2. FinalizePartWrites(s) = (IF IsFull(seg) THEN WriteSegment(seg) ELSE <<>>) \o part
    BY DEF FinalizePartWrites
  <1>3. /\ Sealable(grown) /\ Whole(grown, n) /\ grown.currentPart = NoPart
    BY AppendPartSound, AppendPartWhole, AppendPartFields DEF Filled, Sound
  <1>4. next = IF IsFull(seg) THEN FinalizeSegment(grown) ELSE grown
    BY DEF FinalizePart
  <1> HIDE DEF part, next, grown
  <1>5. \A t : Follow(part, t, t, n)
    BY <1>1, QuietFollows
  <1>6. CASE IsFull(seg)
    <2>1. Follow(WriteSegment(seg), grown, FinalizeSegment(grown), n)
      BY <1>3, SegmentWrites
    <2>2. Follow(WriteSegment(seg), s, next, n)
      BY <1>1, <1>4, <1>6, <2>1, FollowFrom
    <2>3. Follow(WriteSegment(seg) \o part, s, next, n)
      BY <1>1, <1>5, <2>2, FollowBoth
    <2>4. next.currentSeg.dur = 0
      <3>1. next.currentSeg = NewSegment(seg.msn + 1)
        BY <1>3, <1>4, <1>6, FinalizeSegmentSound
      <3> QED BY <3>1 DEF NewSegment
    <2> QED BY <1>2, <1>6, <2>3, <2>4 DEF next
  <1>7. CASE ~IsFull(seg)
    <2>1. FinalizePartWrites(s) = part
      BY <1>1, <1>2, <1>7
    <2>2. Follow(part, s, next, n)
      BY <1>1, <1>4, <1>5, <1>7, FollowFrom
    <2> QED BY <1>1, <2>1, <2>2 DEF next
  <1> QED BY <1>6, <1>7

LEMMA FlushFollows ==
    ASSUME NEW s, Sound(s), NEW n \in Nat, Whole(s, n)
    PROVE  LET next == FlushSegment(FlushPart(s)).store
           IN  Follow(FlushWrites(s), s, next, n)
  <1> DEFINE f == FlushPart(s)
             seg == f.store.currentSeg
             ws == FlushPartWrites(s)
             rest == IF seg.dur > 0 THEN WriteSegment(seg) ELSE <<>>
             next == FlushSegment(f).store
  <1>1. /\ Sound(f.store) /\ Whole(f.store, n) /\ f.store.currentPart = NoPart
        /\ Follow(ws, s, f.store, n)
        /\ Unlisted(ws) \/ seg.dur = 0
    <2>1. CASE s.currentPart = NoPart
      <3>1. f.store = s /\ ws = <<>>
        BY <2>1 DEF FlushPart, FlushPartWrites
      <3>2. Unlisted(<<>>)
        BY DEF Unlisted
      <3> QED BY <2>1, <3>1, <3>2, FollowsNothing
    <2>2. CASE s.currentPart # NoPart
      <3>1. Filled(s)
        BY <2>2, LatestTypes DEF Sound, Windowed, Filled
      <3>2. f = FinalizePart(s) /\ ws = FinalizePartWrites(s)
        BY <2>2 DEF FlushPart, FlushPartWrites
      <3> QED BY <2>2, <3>1, <3>2, FinalizePartSound, FinalizePartWhole, FinalizePartFollows
              DEF Filled
    <2> QED BY <2>1, <2>2
  <1>2. FlushWrites(s) = ws \o rest
    BY DEF FlushWrites
  <1> HIDE DEF f, ws
  <1>3. CASE seg.dur > 0
    <2>1. next = FinalizeSegment(f.store)
      BY <1>3 DEF FlushSegment
    <2>2. Follow(rest, f.store, next, n)
      BY <1>1, <1>3, <2>1, HasDuration, SegmentWrites
    <2>3. Unlisted(ws)
      BY <1>1, <1>3
    <2> QED BY <1>1, <1>2, <2>2, <2>3, FollowBoth DEF f
  <1>4. CASE ~(seg.dur > 0)
    <2>1. next = f.store
      BY <1>4 DEF FlushSegment
    <2>2. ws \o <<>> = ws
      BY <1>1, ConcatEmptySeq DEF Follow
    <2> QED BY <1>1, <1>2, <1>4, <2>1, <2>2 DEF f
  <1> QED BY <1>3, <1>4

-----------------------------------------------------------------------------
(* The invariant.                                                          *)

Safe(e) == e.name \in failed \/ (Intact(e.name) /\ files[e.name].media = e.media)

InitSafe == InitName \in failed \/ Intact(InitName)

\* What holds of the directory, whether or not a session is running.
Kept ==
    /\ \A name \in DOMAIN files : files[name].session <= session
    /\ Intact(PlaylistName) => Prefix(files[PlaylistName].listed, written)
    /\ Row(written)
    /\ \A i \in 1 .. Len(written) : Safe(written[i])
    /\ written # <<>> => InitSafe

\* The only write that seals the playlist is the last of the session.
Finishing == pending = <<WriteList(TRUE)>> /\ store.ended /\ owed = Nothing

\* What holds while a session is recorded.
InStep ==
    /\ \E es : Lists(pending, written, es) /\ Complete(es, store, Len(fragments))
    /\ store.init => pending = <<WriteInit>> \/ InitSafe
    /\ store.currentSeg.msn >= 0 => store.init /\ pending # <<WriteInit>>
    /\ pending = <<WriteInit>> \/ \A i \in DOMAIN pending : pending[i].name # InitName
    /\ \A i \in DOMAIN pending : pending[i].final => Finishing

RecordingInv ==
    /\ RecordingTypeOK
    /\ WholeInv
    /\ open => session >= 1
    /\ Kept
    /\ IF open /\ recording THEN InStep ELSE pending = <<>>

FileRecord ==
    [session : 1 .. MaxSessions, whole : BOOLEAN, media : Seq(Nat),
     listed : Seq(Entry), endList : BOOLEAN]

LEMMA RecordingTypes ==
    ASSUME RecordingTypeOK
    PROVE  /\ session \in Nat /\ session <= MaxSessions /\ MaxSessions \in Nat
           /\ pending \in Seq(WriteRecord) /\ written \in Seq(Entry)
           /\ Len(pending) \in Nat /\ Len(written) \in Nat
           /\ DOMAIN files \subseteq Names
           /\ \A name \in DOMAIN files : files[name] \in FileRecord
           /\ pending # <<>> => Head(pending) \in WriteRecord /\ Tail(pending) \in Seq(WriteRecord)
  <1>1. pending \in Seq(WriteRecord) /\ written \in Seq(Entry)
    BY DEF RecordingTypeOK, WriteRecord
  <1>2. Len(pending) \in Nat /\ Len(written) \in Nat
    BY <1>1, LenProperties
  <1>3. pending # <<>> => Head(pending) \in WriteRecord /\ Tail(pending) \in Seq(WriteRecord)
    BY <1>1, HeadTailProperties
  <1>4. session \in Nat /\ session <= MaxSessions /\ MaxSessions \in Nat
    BY RecordingAssumption DEF RecordingAssumption, RecordingTypeOK
  <1>5. DOMAIN files \subseteq Names /\ \A name \in DOMAIN files : files[name] \in FileRecord
    BY DEF RecordingTypeOK, FileRecord
  <1> QED BY <1>1, <1>2, <1>3, <1>4, <1>5

-----------------------------------------------------------------------------
(* The calls of the store.                                                 *)

LEMMA InitFlagStays ==
    ASSUME NEW s \in StoreRecord
    PROVE  /\ \A id \in Nat, frag \in Fragment, lost \in SUBSET Uses :
                  Accumulate(s, id, frag, lost).init = s.init
           /\ FinalizePart(s).store.init = s.init
           /\ FlushSegment(FlushPart(s)).store.init = s.init
  <1>1. \A id \in Nat, frag \in Fragment, lost \in SUBSET Uses :
            Accumulate(s, id, frag, lost).init = s.init
    BY DEF Accumulate, StoreRecord
  <1>2. \A t \in StoreRecord : /\ AppendPart(t).init = t.init
                               /\ FinalizeSegment(t).init = t.init
    BY DEF AppendPart, FinalizeSegment, StoreRecord
  <1>3. FinalizePart(s).store.init = s.init
    BY <1>2, AppendPartType DEF FinalizePart
  <1>4. FlushPart(s).store \in StoreRecord /\ FlushPart(s).store.init = s.init
    BY <1>3, FinalizePartType DEF FlushPart
  <1>5. FlushSegment(FlushPart(s)).store.init = s.init
    BY <1>2, <1>4 DEF FlushSegment
  <1> QED BY <1>1, <1>3, <1>5

\* A store that was never fed has nothing to flush.
LEMMA NothingToFlush ==
    ASSUME NEW s, Sound(s), s.currentSeg.msn < 0
    PROVE  FlushSegment(FlushPart(s)).store = s
  <1>1. s.currentSeg.msn = -1
    BY LatestTypes
  <1>2. s.currentPart = NoPart /\ s.currentSeg.dur = 0
    BY <1>1 DEF Sound, Windowed, NoSegment, NewSegment
  <1> QED BY <1>2 DEF FlushPart, FlushSegment

\* Taking a fragment in seals nothing.
LEMMA AccumulateSealed ==
    ASSUME NEW s, Sound(s), NEW n \in Nat,
           NEW frag \in Fragment, NEW lost \in SUBSET Uses
    PROVE  SealedTo(Accumulate(s, n + 1, frag, lost), n + 1) = SealedTo(s, n)
  <1> DEFINE fed == Accumulate(s, n + 1, frag, lost)
             acc == IF s.currentPart = NoPart THEN NewPart(frag.key) ELSE s.currentPart
  <1>1. s \in StoreRecord /\ n + 1 \in Nat /\ frag.key \in BOOLEAN
    BY StoreAssumption DEF StoreAssumption, Fragment, Sound
  <1>2. /\ fed.currentSeg = IF s.currentSeg = NoSegment
                            THEN NewSegment(s.nextMSN) ELSE s.currentSeg
        /\ fed.currentPart.data = Append(acc.data, n + 1)
    BY <1>1, AccumulateFields
  <1>3. acc.data = s.currentPart.data /\ s.currentPart.data \in Seq(Nat) /\ s.nextMSN \in Int
    <2>1. CASE s.currentPart = NoPart
      <3>1. NewPart(frag.key).data = <<>> /\ s.currentPart.data = <<>>
        BY <1>1, <2>1, NilData
      <3>2. acc = NewPart(frag.key)
        BY <2>1
      <3> HIDE DEF acc
      <3> QED BY <1>1, <3>1, <3>2, WholeTypes
    <2>2. CASE s.currentPart # NoPart
      <3>1. acc = s.currentPart
        BY <2>2
      <3> HIDE DEF acc
      <3> QED BY <1>1, <3>1, WholeTypes
    <2> QED BY <2>1, <2>2
  <1> HIDE DEF fed, acc
  <1>4. Len(fed.currentPart.data) = Len(s.currentPart.data) + 1
    BY <1>1, <1>2, <1>3, AppendProperties
  <1>5. fed.currentSeg.data = s.currentSeg.data
    BY <1>2, <1>3, NilData
  <1>6. /\ Len(s.currentPart.data) \in Nat
    BY <1>3, LenProperties
  <1>7. Cut(fed, n + 1) = Cut(s, n)
    BY <1>4, <1>6 DEF Cut
  <1> QED BY <1>5, <1>7 DEF SealedTo, fed

\* A step that leaves the directory as it is.
LEMMA DirectoryStays ==
    ASSUME RecordingInv, UNCHANGED <<session, written, files, failed>>
    PROVE  Kept' /\ (InitSafe <=> InitSafe')
  BY DEF RecordingInv, Kept, Safe, InitSafe, Intact

\* A call of the store, which owes the writes ws.
CallStep(ws) ==
    /\ Quiet
    /\ Makes(ws)
    /\ UNCHANGED <<session, open, recording, opened, written, files, failed>>

LEMMA CallKeeps ==
    ASSUME RecordingInv, [Next]_vars, NEW ws, CallStep(ws),
           ws \in Seq(WriteRecord),
           recording => InStep'
    PROVE  RecordingInv'
  <1>1. WholeInv'
    BY WholeInvNext DEF RecordingInv
  <1>2. Kept'
    BY DirectoryStays DEF CallStep
  <1>3. RecordingTypeOK'
    <2>1. pending' \in Seq(WriteRecord)
      BY DEF CallStep, Makes
    <2>2. ~opened
      BY DEF CallStep, Quiet, RecordingInv, RecordingTypeOK
    <2> QED BY <2>1, <2>2 DEF CallStep, RecordingInv, RecordingTypeOK, WriteRecord
  <1>4. (IF open /\ recording THEN InStep ELSE pending = <<>>)'
    <2>1. open' /\ (recording' <=> recording)
      BY DEF CallStep, Quiet
    <2>2. ~recording => pending' = <<>>
      BY DEF CallStep, Makes
    <2> QED BY <2>1, <2>2
  <1>5. (open => session >= 1)'
    BY DEF CallStep, RecordingInv
  <1> QED BY <1>1, <1>2, <1>3, <1>4, <1>5 DEF RecordingInv

\* Between two calls, the list is complete.
LEMMA QuietIsComplete ==
    ASSUME RecordingInv, Quiet, recording
    PROVE  /\ Complete(written, store, Len(fragments))
           /\ store.init => InitSafe
           /\ store.currentSeg.msn >= 0 => store.init
  <1>1. InStep /\ pending = <<>>
    BY DEF RecordingInv, Quiet
  <1>2. PICK es : Lists(pending, written, es) /\ Complete(es, store, Len(fragments))
    BY <1>1 DEF InStep
  <1>3. es = written
    BY <1>1, <1>2 DEF Lists
  <1> QED BY <1>1, <1>2, <1>3 DEF InStep

LEMMA NotTheInit ==
    ASSUME NEW ws, \A i \in DOMAIN ws : ws[i].name # InitName
    PROVE  ws # <<WriteInit>>
  BY DEF WriteInit, Write

LEMMA TakeInitKeeps ==
    ASSUME RecordingInv, TakeInit
    PROVE  RecordingInv'
  <1> DEFINE ws == <<WriteInit>>
  <1>1. CallStep(ws) /\ SetInit /\ Next
    BY DEF TakeInit, CallStep, Next
  <1>2. ws \in Seq(WriteRecord) /\ Unlisted(ws)
    <2>1. WriteInit \in WriteRecord /\ ~IsSegment(WriteInit)
      BY WriteTypes, NamesDiffer DEF IsSegment, WriteInit, Write
    <2> QED BY <2>1 DEF Unlisted
  <1>3. ASSUME recording PROVE InStep'
    <2>1. /\ store'.segments = store.segments /\ store'.currentSeg = store.currentSeg
          /\ store'.currentPart = store.currentPart /\ store'.nextMSN = store.nextMSN
          /\ ~store.init /\ store'.init /\ fragments' = fragments
      BY <1>1 DEF SetInit, RecordingInv, WholeInv, StoreInv, TypeOK, StoreRecord
    <2>2. pending' = ws /\ written' = written
      BY <1>1, <1>3 DEF CallStep, Makes
    <2>3. Complete(written, store, Len(fragments)) /\ ~(store.currentSeg.msn >= 0)
      BY <1>1, <1>3, <2>1, QuietIsComplete DEF CallStep
    <2>4. Complete(written', store', Len(fragments'))
      BY <2>1, <2>2, <2>3 DEF Complete, GetCurrentMSN, SealedTo, Cut
    <2>5. Lists(pending', written', written')
      BY <1>2, <2>2 DEF Lists
    <2>6. \A i \in DOMAIN pending' : ~(pending'[i]).final
      BY <2>2 DEF WriteInit, Write
    <2> QED BY <2>1, <2>2, <2>3, <2>4, <2>5, <2>6 DEF InStep
  <1> QED BY <1>1, <1>2, <1>3, CallKeeps

\* The writes that a call owes list what it completed.
LEMMA CallFollows ==
    ASSUME RecordingInv, recording, NEW ws, CallStep(ws),
           NEW s, Follow(ws, s, store', Len(fragments')),
           Complete(written, s, Len(fragments')),
           store'.init = store.init, store'.currentSeg.msn >= 0 => store.init
    PROVE  InStep'
  <1>1. pending' = ws /\ written' = written
    BY DEF CallStep, Makes
  <1>2. \E es : Lists(pending', written', es) /\ Complete(es, store', Len(fragments'))
    BY <1>1 DEF Follow
  <1>3. store.init => InitSafe'
    BY QuietIsComplete, DirectoryStays DEF CallStep
  <1>4. /\ \A i \in DOMAIN pending' : (pending'[i]).name # InitName /\ ~(pending'[i]).final
        /\ pending' # <<WriteInit>>
    BY <1>1, NotTheInit DEF Follow
  <1> QED BY <1>2, <1>3, <1>4 DEF InStep

LEMMA TakeFragmentKeeps ==
    ASSUME RecordingInv,
           NEW frag \in Fragment, NEW lost \in SUBSET Uses, TakeFragment(frag, lost)
    PROVE  RecordingInv'
  <1> DEFINE n == Len(fragments')
             fed == Accumulate(store, n, frag, lost)
             ws == IF ReachesTarget(fed.currentPart)
                   THEN FinalizePartWrites(fed) ELSE <<>>
  <1>1. CallStep(ws) /\ AddFragment(frag, lost) /\ Next
    BY DEF TakeFragment, CallStep, Next
  <1>2. /\ Sound(store) /\ store \in StoreRecord /\ fragments \in Seq(Fragment)
        /\ Whole(store, Len(fragments)) /\ Len(fragments) \in Nat
    BY LenProperties DEF RecordingInv, WholeInv, StoreInv, Sound, TypeOK
  <1>3. n = Len(fragments) + 1 /\ n \in Nat
    BY <1>1, <1>2, AppendProperties DEF AddFragment
  <1>4. /\ Filled(fed) /\ Whole(fed, n) /\ fed.currentPart # NoPart
        /\ fed \in StoreRecord /\ fed.init = store.init
    <2>1. n \in Nat /\ fed = Accumulate(store, Len(fragments) + 1, frag, lost)
      BY <1>3
    <2>2. Filled(fed)
      BY <1>2, <2>1, AccumulateSound
    <2>3. Whole(fed, n) /\ fed.currentPart # NoPart
      BY <1>2, <1>3, <2>1, AccumulateWhole
    <2>4. fed \in StoreRecord
      BY <1>2, <1>3, AccumulateType
    <2>5. fed.init = store.init
      BY <1>2, <1>3, InitFlagStays
    <2> QED BY <2>2, <2>3, <2>4, <2>5
  <1>5. /\ GetCurrentMSN(fed) = GetCurrentMSN(store)
        /\ SealedTo(fed, n) = SealedTo(store, Len(fragments))
    <2>1. GetCurrentMSN(fed) = GetCurrentMSN(store)
      BY <1>2, <1>3, AccumulateGrows
    <2>2. SealedTo(fed, n) = SealedTo(store, Len(fragments))
      BY <1>2, <1>3, AccumulateSealed
    <2> QED BY <2>1, <2>2
  <1>6. store' = IF ReachesTarget(fed.currentPart)
                 THEN FinalizePart(fed).store ELSE fed
    BY <1>1 DEF AddFragment
  <1> HIDE DEF fed, n
  <1>7. Follow(ws, fed, store', n)
    <2>1. CASE ReachesTarget(fed.currentPart)
      BY <1>3, <1>4, <1>6, <2>1, FinalizePartFollows
    <2>2. CASE ~(ReachesTarget(fed.currentPart))
      BY <1>6, <2>2, FollowsNothing
    <2> QED BY <2>1, <2>2
  <1>8. store'.init = store.init /\ store.init
    <2>1. FinalizePart(fed).store.init = fed.init
      BY <1>4, InitFlagStays
    <2> QED BY <1>1, <1>4, <1>6, <2>1 DEF AddFragment
  <1> HIDE DEF ws
  <1>9. ASSUME recording PROVE InStep'
    <2>1. Complete(written, store, Len(fragments)) /\ InitSafe
      BY <1>1, <1>8, <1>9, QuietIsComplete DEF CallStep
    <2>2. Complete(written, fed, n)
      BY <1>5, <2>1 DEF Complete
    <2> QED BY <1>1, <1>7, <1>8, <1>9, <2>1, <2>2, CallFollows DEF n
  <1>10. ws \in Seq(WriteRecord)
    BY <1>7 DEF Follow
  <1> QED BY <1>1, <1>9, <1>10, CallKeeps

LEMMA FinalizeKeeps ==
    ASSUME RecordingInv, FinalizeSession
    PROVE  RecordingInv'
  <1> DEFINE n == Len(fragments)
             ws == FlushWrites(store)
             flushed == FlushSegment(FlushPart(store)).store
  <1>1. CallStep(ws) /\ Finalize /\ Next
    BY DEF FinalizeSession, CallStep, Next
  <1>2. /\ Sound(store) /\ store \in StoreRecord /\ Whole(store, n) /\ n \in Nat
    BY LenProperties DEF RecordingInv, WholeInv, StoreInv, Sound, TypeOK
  <1>3. /\ store' = [flushed EXCEPT !.ended = TRUE] /\ fragments' = fragments
        /\ flushed \in StoreRecord
    BY <1>1, <1>2, FlushType DEF Finalize
  <1>4. Follow(ws, store, flushed, n)
    BY <1>2, FlushFollows
  <1>5. store.currentSeg.msn < 0 => flushed = store
    BY <1>2, NothingToFlush
  <1>6. flushed.init = store.init
    BY <1>2, InitFlagStays
  <1> HIDE DEF flushed, ws
  <1>7. /\ store'.segments = flushed.segments /\ store'.currentSeg = flushed.currentSeg
        /\ store'.currentPart = flushed.currentPart /\ store'.nextMSN = flushed.nextMSN
        /\ store'.init = flushed.init
    BY <1>3 DEF StoreRecord
  <1>8. Follow(ws, store, store', n)
    <2>1. \A es : Complete(es, flushed, n) => Complete(es, store', n)
      BY <1>7 DEF Complete, GetCurrentMSN, SealedTo, Cut
    <2> QED BY <1>4, <2>1 DEF Follow
  <1>9. ASSUME recording PROVE InStep'
    <2>1. Complete(written, store, n) /\ (store.currentSeg.msn >= 0 => store.init)
      BY <1>1, <1>9, QuietIsComplete DEF CallStep
    <2>2. store'.currentSeg.msn >= 0 => store.init
      <3>1. store.currentSeg.msn \in Int
        BY <1>2, LatestTypes
      <3>2. CASE store.currentSeg.msn < 0
        BY <1>5, <1>7, <2>1, <3>1, <3>2
      <3>3. CASE ~(store.currentSeg.msn < 0)
        BY <2>1, <3>1, <3>3
      <3> QED BY <3>2, <3>3
    <2>3. store'.init = store.init
      BY <1>6, <1>7
    <2> QED BY <1>1, <1>3, <1>8, <1>9, <2>1, <2>2, <2>3, CallFollows
  <1>10. ws \in Seq(WriteRecord)
    BY <1>4 DEF Follow
  <1> QED BY <1>1, <1>9, <1>10, CallKeeps

LEMMA AnnounceKeeps ==
    ASSUME RecordingInv, Announce
    PROVE  RecordingInv'
  <1> DEFINE ws == IF store.ended THEN <<WriteList(TRUE)>> ELSE <<>>
  <1>1. CallStep(ws) /\ Next
    BY DEF Announce, CallStep, Next
  <1>2. store' = store /\ fragments' = fragments
    BY DEF Announce, Broadcast, BroadcastEnded
  <1>3. /\ ws \in Seq(WriteRecord) /\ Unlisted(ws)
        /\ \A i \in DOMAIN ws : ws[i].name # InitName
    <2>1. WriteList(TRUE) \in WriteRecord /\ ~IsSegment(WriteList(TRUE))
          /\ WriteList(TRUE).name # InitName
      BY WriteTypes, NamesDiffer DEF IsSegment, WriteList, Write
    <2>2. CASE store.ended
      <3>1. \A w \in WriteRecord : /\ <<w>> \in Seq(WriteRecord) /\ DOMAIN <<w>> = {1}
                                   /\ <<w>>[1] = w
        OBVIOUS
      <3>2. ws = <<WriteList(TRUE)>>
        BY <2>2
      <3> HIDE DEF ws
      <3> QED BY <2>1, <3>1, <3>2 DEF Unlisted
    <2>3. CASE ~store.ended
      <3>1. ws = <<>>
        BY <2>3
      <3> HIDE DEF ws
      <3> QED BY <3>1 DEF Unlisted
    <2> QED BY <2>2, <2>3
  <1> HIDE DEF ws
  <1>4. ASSUME recording PROVE InStep'
    <2>1. /\ Complete(written, store, Len(fragments)) /\ (store.init => InitSafe)
          /\ store.currentSeg.msn >= 0 => store.init
      BY <1>1, <1>4, QuietIsComplete DEF CallStep
    <2>2. pending' = ws /\ written' = written
      BY <1>1, <1>4 DEF CallStep, Makes
    <2>3. Lists(pending', written', written') /\ Complete(written', store', Len(fragments'))
      BY <1>2, <1>3, <2>1, <2>2 DEF Lists
    <2>4. store.init => InitSafe'
      BY <1>1, <2>1, DirectoryStays DEF CallStep
    <2>5. /\ \A i \in DOMAIN pending' : (pending'[i]).name # InitName
          /\ pending' # <<WriteInit>>
      BY <1>3, <2>2, NotTheInit
    <2>6. \A i \in DOMAIN pending' : Finishing'
      <3>1. owed' = Nothing
        BY DEF Announce, Broadcast, BroadcastEnded
      <3>2. CASE store.ended
        <4>1. pending' = <<WriteList(TRUE)>>
          BY <2>2, <3>2 DEF ws
        <4> QED BY <1>2, <3>1, <3>2, <4>1 DEF Finishing
      <3>3. CASE ~store.ended
        <4>1. pending' = <<>>
          BY <2>2, <3>3 DEF ws
        <4> QED BY <4>1
      <3> QED BY <3>2, <3>3
    <2> QED BY <1>2, <2>1, <2>3, <2>4, <2>5, <2>6 DEF InStep
  <1> QED BY <1>1, <1>3, <1>4, CallKeeps

-----------------------------------------------------------------------------
(* A new session, and the end of one.                                      *)

LEMMA FreshWhole == Init' => WholeInv'
  BY WholeInvInit, PTL

LEMMA FreshIsComplete == Complete(<<>>, NewStore, 0)
  <1>1. /\ NewStore.currentSeg = NoSegment /\ NewStore.currentPart = NoPart
        /\ NewStore.nextMSN = 0
    BY DEF NewStore
  <1>2. GetCurrentMSN(NewStore) = 0
    BY <1>1 DEF GetCurrentMSN, NoSegment, NewSegment
  <1>3. SealedTo(NewStore, 0) = 0
    <2>1. Len(NewStore.currentPart.data) = 0 /\ Len(NewStore.currentSeg.data) = 0
      BY <1>1, NilData
    <2>2. Cut(NewStore, 0) = 0
      BY <2>1 DEF Cut
    <2> QED BY <2>1, <2>2 DEF SealedTo
  <1>4. <<>> \in Seq(Entry) /\ Len(<<>>) = 0 /\ Row(<<>>) /\ Upto(<<>>) = 0
    BY EmptySeq DEF Row, Upto
  <1> QED BY <1>2, <1>3, <1>4 DEF Complete

LEMMA OpenSessionKeeps ==
    ASSUME RecordingInv, OpenSession
    PROVE  RecordingInv'
  <1>1. WholeInv'
    BY FreshWhole DEF OpenSession, Init
  <1>2. session \in Nat /\ MaxSessions \in Nat /\ session' = session + 1
        /\ session' \in 1 .. MaxSessions
    BY RecordingTypes DEF RecordingInv, OpenSession
  <1>3. <<>> \in Seq(WriteRecord) /\ <<>> \in Seq(Entry) /\ Len(<<>>) = 0
    BY EmptySeq
  <1>4. RecordingTypeOK'
    <2>1. pending' \in Seq(WriteRecord) /\ written' \in Seq(Entry)
      BY <1>3 DEF OpenSession
    <2>2. /\ DOMAIN files' \subseteq Names
          /\ \A name \in DOMAIN files' : files'[name] \in FileRecord
      BY RecordingTypes DEF OpenSession, RecordingInv
    <2>3. /\ session' \in 0 .. MaxSessions /\ open' \in BOOLEAN /\ recording' \in BOOLEAN
          /\ opened' = FALSE /\ failed' = {}
      BY <1>2 DEF OpenSession
    <2> QED BY <2>1, <2>2, <2>3 DEF RecordingTypeOK, WriteRecord, FileRecord
  <1>5. Kept'
    <2>1. files' = files /\ written' = <<>>
      BY DEF OpenSession
    <2>2. ASSUME NEW name \in DOMAIN files'
          PROVE  (files'[name]).session <= session' /\ (files'[name]).session # session'
      <3>1. files[name].session <= session /\ files[name].session \in Int
        BY <2>1, RecordingTypes DEF RecordingInv, Kept, FileRecord
      <3> QED BY <1>2, <2>1, <3>1
    <2>3. ~Intact(PlaylistName)'
      BY <2>2 DEF Intact
    <2> QED BY <1>3, <2>1, <2>2, <2>3 DEF Kept, Row
  <1>6. ASSUME recording' PROVE InStep'
    <2>1. /\ store' = NewStore /\ fragments' = <<>> /\ pending' = <<>> /\ written' = <<>>
      BY DEF OpenSession
    <2>2. Lists(pending', written', written')
      BY <2>1 DEF Lists, Unlisted
    <2>3. Complete(written', store', Len(fragments'))
      BY <1>3, <2>1, FreshIsComplete
    <2>4. ~store'.init /\ ~(store'.currentSeg.msn >= 0)
      BY <2>1 DEF NewStore, NoSegment, NewSegment
    <2>5. \A i \in DOMAIN pending' : (pending'[i]).name # InitName /\ ~(pending'[i]).final
      BY <2>1
    <2> QED BY <2>2, <2>3, <2>4, <2>5 DEF InStep
  <1>7. open' /\ pending' = <<>> /\ session' >= 1
    BY <1>2 DEF OpenSession
  <1> QED BY <1>1, <1>4, <1>5, <1>6, <1>7 DEF RecordingInv

LEMMA StopKeeps ==
    ASSUME RecordingInv, Stop
    PROVE  RecordingInv'
  <1>1. WholeInv'
    <2>1. [Next]_vars
      BY DEF Stop
    <2> QED BY <2>1, WholeInvNext DEF RecordingInv
  <1>2. Kept'
    BY DirectoryStays DEF Stop
  <1>3. RecordingTypeOK'
    <2>1. pending' \in Seq(WriteRecord)
      BY EmptySeq DEF Stop
    <2> QED BY <2>1 DEF Stop, RecordingInv, RecordingTypeOK, WriteRecord
  <1> QED BY <1>1, <1>2, <1>3 DEF Stop, RecordingInv

-----------------------------------------------------------------------------
(* The writes.                                                             *)

\* Nothing is counted before the first fragment.
LEMMA FreshCount ==
    ASSUME NEW s, Sound(s), s.currentSeg.msn < 0
    PROVE  GetCurrentMSN(s) = 0
  <1>1. s.currentSeg.msn = -1 /\ NoSegment.msn = -1
    BY LatestTypes, NilData
  <1>2. s.currentSeg = NoSegment /\ s.nextMSN = 0
    BY <1>1 DEF Sound, Windowed, NoSegment, NewSegment
  <1> QED BY <1>2 DEF GetCurrentMSN

LEMMA WriteIs ==
    ASSUME RecordingInv, open, pending # <<>>
    PROVE  LET w == Head(pending)
           IN  /\ recording /\ InStep /\ w \in WriteRecord
               /\ \A i \in 1 .. Len(written) : written[i].name # w.name
               /\ w.name = InitName => pending = <<WriteInit>> /\ written = <<>>
               /\ IsSegment(w) => /\ InitSafe
                                  /\ Append(written, Named(w)) \in Seq(Entry)
                                  /\ Row(Append(written, Named(w)))
  <1> DEFINE w == Head(pending)
             n == Len(fragments)
  <1>1. recording /\ InStep
    BY DEF RecordingInv
  <1>2. /\ pending \in Seq(WriteRecord) /\ w \in WriteRecord
        /\ written \in Seq(Entry) /\ Len(written) \in Nat
    BY RecordingTypes DEF RecordingInv
  <1>3. w = pending[1] /\ 1 \in DOMAIN pending
    BY <1>2, EmptySeq, LenProperties, HeadTailProperties
  <1>4. PICK es : Lists(pending, written, es) /\ Complete(es, store, n)
    BY <1>1 DEF InStep
  <1>5. store.currentSeg.msn \in Int /\ (store.currentSeg.msn < 0 => GetCurrentMSN(store) = 0)
    <2>1. Sound(store)
      BY DEF RecordingInv, WholeInv, StoreInv, Sound, TypeOK
    <2>2. store.currentSeg.msn \in Int
      BY <2>1, LatestTypes
    <2>3. store.currentSeg.msn < 0 => GetCurrentMSN(store) = 0
      BY <2>1, FreshCount
    <2> QED BY <2>2, <2>3
  <1>6. \A i \in 1 .. Len(written) : written[i].name = SegmentName(i - 1) /\ i - 1 \in Nat
    BY <1>2 DEF RecordingInv, Kept, Row
  <1> HIDE DEF w
  <1>7. CASE IsSegment(w)
    <2>1. es = Append(written, Named(w)) /\ es \in Seq(Entry) /\ Row(es)
      BY <1>2, <1>4, <1>7, ListsTail DEF Complete, w
    <2>2. Len(es) = Len(written) + 1 /\ es[Len(written) + 1] = Named(w)
      <3>1. Named(w) \in Entry
        BY <1>2 DEF Named, Entry, WriteRecord
      <3> QED BY <1>2, <2>1, <3>1, AppendProperties
    <2>3. w.name = SegmentName(Len(written))
      <3>1. Len(written) + 1 \in 1 .. Len(es) /\ (Len(written) + 1) - 1 = Len(written)
        BY <1>2, <2>2
      <3>2. es[Len(written) + 1].name = SegmentName(Len(written))
        BY <2>1, <3>1 DEF Row
      <3> QED BY <2>2, <3>2 DEF Named
    <2>4. \A i \in 1 .. Len(written) : written[i].name # w.name
      <3> SUFFICES ASSUME NEW i \in 1 .. Len(written) PROVE written[i].name # w.name
        OBVIOUS
      <3>1. i - 1 # Len(written)
        BY <1>2
      <3> QED BY <1>2, <1>6, <2>3, <3>1, NamesDiffer
    <2>5. InitSafe /\ w.name # InitName
      <3>1. GetCurrentMSN(store) = Len(written) + 1
        BY <1>4, <2>2 DEF Complete
      <3>2. store.currentSeg.msn >= 0
        BY <1>2, <1>5, <3>1
      <3>3. w.name # InitName
        BY <1>2, <2>3, NamesDiffer
      <3> QED BY <1>1, <3>2, <3>3 DEF InStep
    <2> QED BY <1>1, <1>2, <2>1, <2>4, <2>5 DEF w
  <1>8. CASE ~IsSegment(w)
    <2>1. \A i \in 1 .. Len(written) : written[i].name # w.name
      BY <1>6, <1>8, NamesDiffer DEF IsSegment
    <2>2. ASSUME w.name = InitName PROVE pending = <<WriteInit>> /\ written = <<>>
      <3>1. pending = <<WriteInit>>
        BY <1>1, <1>3, <2>2 DEF InStep
      <3>2. es = written
        <4>1. DOMAIN pending = {1}
          BY <3>1
        <4> QED BY <1>3, <1>4, <1>8, <4>1 DEF Lists
      <3>3. Len(written) = 0
        BY <1>1, <1>4, <1>5, <3>1, <3>2 DEF InStep, Complete
      <3> QED BY <1>2, <3>1, <3>3, EmptySeq
    <2> QED BY <1>1, <1>2, <1>8, <2>1, <2>2 DEF w
  <1> QED BY <1>7, <1>8

\* One file changes, and becomes one of this session.
LEMMA PutChanges ==
    ASSUME RecordingInv, NEW name \in Names, NEW content \in FileRecord,
           content.session = session, Put(name, content), session' = session
    PROVE  /\ DOMAIN files' \subseteq Names
           /\ \A other \in DOMAIN files' : files'[other] \in FileRecord
           /\ \A other \in DOMAIN files' : (files'[other]).session <= session'
           /\ name \in DOMAIN files' /\ files'[name] = content
           /\ \A other : other # name =>
                 /\ Intact(other)' <=> Intact(other)
                 /\ Intact(other) => files'[other] = files[other]
  <1>1. /\ session \in Nat /\ DOMAIN files \subseteq Names
        /\ \A other \in DOMAIN files : files[other] \in FileRecord
        /\ \A other \in DOMAIN files : files[other].session <= session
    BY RecordingTypes DEF RecordingInv, Kept
  <1>2. /\ DOMAIN files' = DOMAIN files \cup {name} /\ files'[name] = content
        /\ \A other \in DOMAIN files : other # name => files'[other] = files[other]
    BY DEF Put
  <1>3. \A other : other # name => /\ Intact(other)' <=> Intact(other)
                                   /\ Intact(other) => files'[other] = files[other]
    BY <1>2 DEF Intact
  <1>4. /\ \A other \in DOMAIN files' : files'[other] \in FileRecord
        /\ \A other \in DOMAIN files' : (files'[other]).session <= session'
    BY <1>1, <1>2
  <1> QED BY <1>1, <1>2, <1>3, <1>4

\* The entries that were listed are safe when another file changes.
LEMMA PutIsElsewhere ==
    ASSUME RecordingInv, NEW name,
           \A other : other # name =>
                 /\ Intact(other)' <=> Intact(other)
                 /\ Intact(other) => files'[other] = files[other],
           failed \subseteq failed'
    PROVE  /\ \A e : e.name # name /\ Safe(e) => Safe(e)'
           /\ name # InitName /\ InitSafe => InitSafe'
  BY DEF Safe, InitSafe

LEMMA OpenFileKeeps ==
    ASSUME RecordingInv, OpenFile
    PROVE  RecordingInv'
  <1> DEFINE w == Head(pending)
  <1>1. /\ open /\ pending # <<>> /\ opened' /\ Put(w.name, Torn)
        /\ UNCHANGED <<vars, session, open, recording, pending, written, failed>>
    BY DEF OpenFile
  <1>2. /\ recording /\ InStep /\ w \in WriteRecord
        /\ \A i \in 1 .. Len(written) : written[i].name # w.name
        /\ w.name = InitName => pending = <<WriteInit>> /\ written = <<>>
    BY <1>1, WriteIs
  <1> HIDE DEF w
  <1>3. /\ w.name \in Names /\ Torn \in FileRecord /\ Torn.session = session /\ ~Torn.whole
    <2>1. session \in 1 .. MaxSessions
      BY <1>1, RecordingTypes DEF RecordingInv
    <2>2. <<>> \in Seq(Nat) /\ <<>> \in Seq(Entry)
      BY EmptySeq
    <2> QED BY <1>2, <2>1, <2>2 DEF WriteRecord, FileRecord, Torn, File
  <1>4. /\ DOMAIN files' \subseteq Names
        /\ \A other \in DOMAIN files' : files'[other] \in FileRecord
        /\ \A other \in DOMAIN files' : (files'[other]).session <= session'
        /\ w.name \in DOMAIN files' /\ files'[w.name] = Torn
        /\ \A other : other # w.name =>
              /\ Intact(other)' <=> Intact(other)
              /\ Intact(other) => files'[other] = files[other]
    BY <1>1, <1>3, PutChanges
  <1>5. /\ \A e : e.name # w.name /\ Safe(e) => Safe(e)'
        /\ w.name # InitName /\ InitSafe => InitSafe'
    BY <1>1, <1>4, PutIsElsewhere
  <1>6. Kept'
    <2>1. Intact(PlaylistName)' => Prefix(files'[PlaylistName].listed, written')
      <3>1. CASE w.name = PlaylistName
        BY <1>3, <1>4, <3>1 DEF Intact
      <3>2. CASE w.name # PlaylistName
        BY <1>1, <1>4, <3>2 DEF RecordingInv, Kept
      <3> QED BY <3>1, <3>2
    <2>2. \A i \in 1 .. Len(written') : Safe(written[i])'
      BY <1>1, <1>2, <1>5 DEF RecordingInv, Kept
    <2>3. written' # <<>> => InitSafe'
      BY <1>1, <1>2, <1>5 DEF RecordingInv, Kept
    <2>4. Row(written')
      BY <1>1 DEF RecordingInv, Kept
    <2> QED BY <1>1, <1>4, <2>1, <2>2, <2>3, <2>4 DEF Kept, Safe
  <1>7. InStep'
    <2>1. pending = <<WriteInit>> \/ w.name # InitName
      BY <1>2
    <2>2. store'.init => pending' = <<WriteInit>> \/ InitSafe'
      BY <1>1, <1>2, <1>5, <2>1 DEF InStep, vars
    <2>3. Finishing' <=> Finishing
      BY <1>1 DEF Finishing, vars
    <2> QED BY <1>1, <1>2, <2>2, <2>3 DEF InStep, vars
  <1>8. RecordingTypeOK'
    <2>1. pending \in Seq(WriteRecord) /\ written \in Seq(Entry) /\ session' \in 0 .. MaxSessions
      BY <1>1, RecordingTypes DEF RecordingInv
    <2>3. Head(pending').name \in DOMAIN files' /\ files'[Head(pending').name] = Torn
      BY <1>1, <1>4 DEF w
    <2>4. open' \in BOOLEAN /\ recording' \in BOOLEAN /\ opened' \in BOOLEAN /\ failed' \subseteq Names
      BY <1>1 DEF RecordingInv, RecordingTypeOK
    <2>5. Torn' = Torn
      BY <1>1 DEF Torn, File
    <2> QED BY <1>1, <1>4, <2>1, <2>3, <2>4, <2>5 DEF RecordingTypeOK, FileRecord, WriteRecord
  <1>9. WholeInv'
    <2>1. [Next]_vars
      BY <1>1 DEF vars
    <2> QED BY <2>1, WholeInvNext DEF RecordingInv
  <1> QED BY <1>1, <1>2, <1>6, <1>7, <1>8, <1>9 DEF RecordingInv

\* A write has returned: it is off the list of the pending ones, on the list
\* of the written ones if it was a segment's, and what it was to make is safe.
LEMMA ReturnsKeeps ==
    ASSUME RecordingInv, open, pending # <<>>, Returns(Head(pending)),
           UNCHANGED <<vars, session, open, recording>>,
           \A e : e.name # Head(pending).name /\ Safe(e) => Safe(e)',
           \A e : e = Named(Head(pending)) /\ IsSegment(Head(pending)) => Safe(e)',
           InitSafe => InitSafe',
           Head(pending).name = InitName => InitSafe',
           \A name \in DOMAIN files' : (files'[name]).session <= session',
           Intact(PlaylistName)' => Prefix(files'[PlaylistName].listed, written),
           DOMAIN files' \subseteq Names,
           \A name \in DOMAIN files' : files'[name] \in FileRecord,
           failed' \subseteq Names
    PROVE  RecordingInv'
  <1> DEFINE w == Head(pending)
  <1>1. /\ recording /\ InStep /\ w \in WriteRecord
        /\ \A i \in 1 .. Len(written) : written[i].name # w.name
        /\ w.name = InitName => pending = <<WriteInit>> /\ written = <<>>
        /\ IsSegment(w) => /\ InitSafe
                           /\ Append(written, Named(w)) \in Seq(Entry)
                           /\ Row(Append(written, Named(w)))
    BY WriteIs
  <1>2. /\ pending \in Seq(WriteRecord) /\ Tail(pending) \in Seq(WriteRecord)
        /\ written \in Seq(Entry) /\ Len(written) \in Nat
    BY RecordingTypes DEF RecordingInv
  <1>3. /\ pending' = Tail(pending) /\ opened' = FALSE
        /\ written' = IF IsSegment(w) THEN Append(written, Named(w)) ELSE written
    BY RecordingTypes DEF Returns, Named, RecordingInv, RecordingTypeOK
  <1>4. /\ \A e : e = Named(w) /\ IsSegment(w) => Safe(e)'
        /\ w.name = InitName => InitSafe'
        /\ \A e : e.name # w.name /\ Safe(e) => Safe(e)'
    OBVIOUS
  <1> HIDE DEF w
  <1>5. /\ written' \in Seq(Entry) /\ Row(written')
        /\ IF IsSegment(w)
           THEN /\ Len(written') = Len(written) + 1
                /\ \A i \in 1 .. Len(written) : (written')[i] = written[i]
                /\ (written')[Len(written) + 1] = Named(w)
           ELSE written' = written
    <2>1. Named(w) \in Entry
      BY <1>1 DEF Named, Entry, WriteRecord
    <2>2. CASE IsSegment(w)
      BY <1>1, <1>2, <1>3, <2>1, <2>2, AppendProperties
    <2>3. CASE ~IsSegment(w)
      BY <1>2, <1>3, <2>3 DEF RecordingInv, Kept
    <2> QED BY <2>2, <2>3
  <1>6. \A i \in 1 .. Len(written) : \A e : e = written[i] => Safe(e)'
    BY <1>1, <1>4 DEF RecordingInv, Kept
  <1>7. Kept'
    <2>1. ASSUME NEW i \in 1 .. Len(written')
          PROVE  Safe(written[i])'
      <3>1. \E e : e = (written')[i] /\ Safe(e)'
        <4>1. CASE i \in 1 .. Len(written)
          <5>1. (written')[i] = written[i]
            BY <1>5, <4>1
          <5> QED BY <1>6, <4>1, <5>1
        <4>2. CASE i \notin 1 .. Len(written)
          <5>1. IsSegment(w) /\ (written')[i] = Named(w)
            BY <1>2, <1>5, <4>2
          <5> QED BY <1>4, <5>1
        <4> QED BY <4>1, <4>2
      <3> QED BY <3>1 DEF Safe
    <2>2. Intact(PlaylistName)' => Prefix(files'[PlaylistName].listed, written')
      <3> SUFFICES ASSUME Intact(PlaylistName)'
                   PROVE  Prefix(files'[PlaylistName].listed, written')
        OBVIOUS
      <3> DEFINE l == files'[PlaylistName].listed
      <3>1. Prefix(l, written)
        OBVIOUS
      <3>2. l \in Seq(Entry)
        BY DEF Intact, FileRecord
      <3>3. Len(l) \in Nat
        BY <3>2, LenProperties
      <3> HIDE DEF l
      <3>4. Prefix(l, written')
        <4>1. CASE IsSegment(w)
          BY <1>2, <1>5, <3>1, <3>3, <4>1 DEF Prefix
        <4>2. CASE ~IsSegment(w)
          BY <1>5, <3>1, <4>2
        <4> QED BY <4>1, <4>2
      <3> QED BY <3>4 DEF l
    <2>3. written' # <<>> => InitSafe'
      BY <1>1, <1>5 DEF RecordingInv, Kept
    <2> QED BY <1>5, <2>1, <2>2, <2>3 DEF Kept
  <1>8. InStep'
    <2>1. PICK es : Lists(pending, written, es) /\ Complete(es, store, Len(fragments))
      BY <1>1 DEF InStep
    <2>2. Lists(pending', written', es)
      BY <1>2, <1>3, <2>1, ListsTail DEF w
    <2>3. /\ w = pending[1] /\ DOMAIN pending = 1 .. Len(pending) /\ Len(pending) \in Nat \ {0}
          /\ DOMAIN pending' = 1 .. Len(pending) - 1
          /\ \A i \in DOMAIN pending' : (pending')[i] = pending[i + 1]
      BY <1>2, <1>3, EmptySeq, LenProperties, HeadTailProperties DEF w
    <2>4. \A i \in DOMAIN pending' : (pending'[i]).name # InitName
      <3>1. CASE pending = <<WriteInit>>
        <4>1. Len(pending) = 1
          BY <3>1
        <4> QED BY <2>3, <4>1
      <3>2. CASE pending # <<WriteInit>>
        BY <1>1, <2>3, <3>2 DEF InStep
      <3> QED BY <3>1, <3>2
    <2>5. pending' # <<WriteInit>>
      BY <2>4, NotTheInit
    <2>6. store.init => InitSafe'
      <3>1. CASE pending = <<WriteInit>>
        <4>1. w.name = InitName
          BY <2>3, <3>1 DEF WriteInit, Write
        <4> QED BY <1>4, <4>1
      <3>2. CASE pending # <<WriteInit>>
        BY <1>1, <3>2 DEF InStep
      <3> QED BY <3>1, <3>2
    <2>7. store' = store /\ fragments' = fragments
      BY DEF vars
    <2>8. ASSUME NEW i \in DOMAIN pending' PROVE ~(pending'[i]).final
      <3>1. i + 1 \in DOMAIN pending /\ (pending')[i] = pending[i + 1] /\ Len(pending) # 1
        BY <2>3
      <3>2. pending # <<WriteList(TRUE)>>
        <4>1. \A x : Len(<<x>>) = 1
          OBVIOUS
        <4> QED BY <3>1, <4>1
      <3> QED BY <1>1, <3>1, <3>2 DEF InStep, Finishing
    <2> QED BY <1>1, <2>1, <2>2, <2>4, <2>5, <2>6, <2>7, <2>8 DEF InStep
  <1>9. RecordingTypeOK'
    <2>1. /\ session' \in 0 .. MaxSessions /\ open' \in BOOLEAN /\ recording' \in BOOLEAN
      BY DEF RecordingInv, RecordingTypeOK
    <2>2. pending' \in Seq(WriteRecord) /\ written' \in Seq(Entry) /\ opened' = FALSE
      BY <1>2, <1>3, <1>5
    <2>3. /\ DOMAIN files' \subseteq Names
          /\ \A name \in DOMAIN files' : files'[name] \in FileRecord
          /\ failed' \subseteq Names
      OBVIOUS
    <2> QED BY <2>1, <2>2, <2>3 DEF RecordingTypeOK, WriteRecord, FileRecord
  <1>10. WholeInv'
    <2>1. [Next]_vars
      BY DEF vars
    <2> QED BY <2>1, WholeInvNext DEF RecordingInv
  <1> QED BY <1>1, <1>7, <1>8, <1>9, <1>10 DEF RecordingInv

LEMMA FillFileKeeps ==
    ASSUME RecordingInv, FillFile
    PROVE  RecordingInv'
  <1> DEFINE w == Head(pending)
             content == Contents(w)
  <1>1. /\ open /\ pending # <<>> /\ Put(w.name, content) /\ Returns(w)
        /\ UNCHANGED <<vars, session, open, recording, failed>>
    BY DEF FillFile, RecordingInv, RecordingTypeOK
  <1>2. w \in WriteRecord /\ (w.name = InitName => w # WriteList(FALSE))
    BY <1>1, WriteIs, NamesDiffer DEF WriteList, Write
  <1>3. /\ content.session = session /\ content.whole
        /\ w.name = PlaylistName => content.listed = written
        /\ w.name # PlaylistName => content.media = w.media
    BY DEF Contents, File
  <1>4. w.name \in Names /\ content \in FileRecord
    <2>1. session \in 1 .. MaxSessions /\ written \in Seq(Entry)
      BY <1>1, RecordingTypes DEF RecordingInv
    <2>2. <<>> \in Seq(Nat) /\ <<>> \in Seq(Entry)
      BY EmptySeq
    <2> QED BY <1>2, <2>1, <2>2 DEF WriteRecord, FileRecord, Contents, File
  <1> HIDE DEF w, content
  <1>5. /\ DOMAIN files' \subseteq Names
        /\ \A other \in DOMAIN files' : files'[other] \in FileRecord
        /\ \A other \in DOMAIN files' : (files'[other]).session <= session'
        /\ w.name \in DOMAIN files' /\ files'[w.name] = content
        /\ \A other : other # w.name =>
              /\ Intact(other)' <=> Intact(other)
              /\ Intact(other) => files'[other] = files[other]
    BY <1>1, <1>3, <1>4, PutChanges
  <1>6. /\ \A e : e.name # w.name /\ Safe(e) => Safe(e)'
        /\ w.name # InitName /\ InitSafe => InitSafe'
    BY <1>1, <1>5, PutIsElsewhere
  <1>7. \A name : name = w.name => Intact(name)'
    BY <1>1, <1>3, <1>5 DEF Intact
  <1>8. \A e : e = Named(w) /\ IsSegment(w) => Safe(e)'
    <2>1. IsSegment(w) => w.name # PlaylistName
      BY NamesDiffer DEF IsSegment
    <2> QED BY <1>3, <1>5, <1>7, <2>1 DEF Safe, Named
  <1>9. /\ w.name = InitName => InitSafe'
        /\ InitSafe => InitSafe'
    BY <1>6, <1>7 DEF InitSafe
  <1>10. Intact(PlaylistName)' => Prefix(files'[PlaylistName].listed, written)
    <2>1. CASE w.name = PlaylistName
      <3>1. files'[PlaylistName].listed = written /\ Len(written) \in Nat
        BY <1>3, <1>5, <2>1, RecordingTypes DEF RecordingInv
      <3> QED BY <3>1 DEF Prefix
    <2>2. CASE w.name # PlaylistName
      BY <1>5, <2>2 DEF RecordingInv, Kept
    <2> QED BY <2>1, <2>2
  <1>11. failed' \subseteq Names
    BY <1>1 DEF RecordingInv, RecordingTypeOK
  <1> QED BY <1>1, <1>5, <1>6, <1>8, <1>9, <1>10, <1>11, ReturnsKeeps DEF w

LEMMA FailToWriteKeeps ==
    ASSUME RecordingInv, FailToWrite
    PROVE  RecordingInv'
  <1> DEFINE w == Head(pending)
  <1>1. /\ open /\ pending # <<>> /\ Returns(w) /\ failed' = failed \cup {w.name}
        /\ UNCHANGED <<vars, session, open, recording, files>>
    BY DEF FailToWrite
  <1>2. w \in WriteRecord
    BY <1>1, WriteIs
  <1> HIDE DEF w
  <1>3. /\ \A e : Safe(e) => Safe(e)'
        /\ InitSafe => InitSafe'
        /\ \A e : e = Named(w) => Safe(e)'
        /\ w.name = InitName => InitSafe'
    BY <1>1 DEF Safe, InitSafe, Intact, Named
  <1>4. /\ \A name \in DOMAIN files' : (files'[name]).session <= session'
        /\ Intact(PlaylistName)' => Prefix(files'[PlaylistName].listed, written)
    BY <1>1 DEF RecordingInv, Kept, Intact
  <1>5. /\ DOMAIN files' \subseteq Names
        /\ \A name \in DOMAIN files' : files'[name] \in FileRecord
        /\ failed' \subseteq Names
    BY <1>1, <1>2, RecordingTypes DEF RecordingInv, RecordingTypeOK, WriteRecord
  <1> QED BY <1>1, <1>3, <1>4, <1>5, ReturnsKeeps DEF w

-----------------------------------------------------------------------------
(* Every run.                                                              *)

LEMMA RecordingInvInit == RecordingInit => RecordingInv
  <1> SUFFICES ASSUME RecordingInit PROVE RecordingInv
    OBVIOUS
  <1>1. WholeInv
    BY WholeInvInit DEF RecordingInit
  <1>2. <<>> \in Seq(WriteRecord) /\ <<>> \in Seq(Entry) /\ Len(<<>>) = 0
    BY EmptySeq
  <1>3. RecordingTypeOK
    <2>1. 0 \in 0 .. MaxSessions
      BY RecordingAssumption DEF RecordingAssumption
    <2>2. pending \in Seq(WriteRecord) /\ written \in Seq(Entry)
      BY <1>2 DEF RecordingInit
    <2>3. DOMAIN files = {} /\ failed = {}
      BY DEF RecordingInit
    <2> QED BY <2>1, <2>2, <2>3 DEF RecordingInit, RecordingTypeOK, WriteRecord
  <1>4. Kept
    BY <1>2 DEF RecordingInit, Kept, Row, Intact
  <1> QED BY <1>1, <1>3, <1>4 DEF RecordingInit, RecordingInv

LEMMA RecordingInvNext == RecordingInv /\ [RecordingNext]_recVars => RecordingInv'
  <1> SUFFICES ASSUME RecordingInv, [RecordingNext]_recVars PROVE RecordingInv'
    OBVIOUS
  <1>1. CASE OpenSession
    BY <1>1, OpenSessionKeeps
  <1>2. CASE TakeInit
    BY <1>2, TakeInitKeeps
  <1>3. ASSUME NEW frag \in Fragment, NEW lost \in SUBSET Uses, TakeFragment(frag, lost)
        PROVE  RecordingInv'
    BY <1>3, TakeFragmentKeeps
  <1>4. CASE FinalizeSession
    BY <1>4, FinalizeKeeps
  <1>5. CASE Announce
    BY <1>5, AnnounceKeeps
  <1>6. CASE OpenFile
    BY <1>6, OpenFileKeeps
  <1>7. CASE FillFile
    BY <1>7, FillFileKeeps
  <1>8. CASE FailToWrite
    BY <1>8, FailToWriteKeeps
  <1>9. CASE Stop
    BY <1>9, StopKeeps
  <1>10. CASE UNCHANGED recVars
    <2>1. WholeInv'
      <3>1. [Next]_vars
        BY <1>10 DEF recVars
      <3> QED BY <3>1, WholeInvNext DEF RecordingInv
    <2>2. Kept' /\ (InitSafe <=> InitSafe')
      BY <1>10, DirectoryStays DEF recVars, diskVars
    <2>3. RecordingTypeOK'
      BY <1>10 DEF recVars, diskVars, RecordingInv, RecordingTypeOK, Torn, File
    <2>4. InStep => InStep'
      BY <1>10, <2>2 DEF recVars, diskVars, vars, InStep, Finishing
    <2> QED BY <1>10, <2>1, <2>2, <2>3, <2>4 DEF recVars, diskVars, RecordingInv
  <1> QED BY <1>1, <1>2, <1>3, <1>4, <1>5, <1>6, <1>7, <1>8, <1>9, <1>10 DEF RecordingNext

(***************************************************************************)
(* Type correctness of the recording: in particular, only a write in       *)
(* progress leaves a file torn, unless it failed or the process stopped.   *)
(***************************************************************************)
THEOREM RecordingTypeCorrect == RecordingSpec => []RecordingTypeOK
  <1>1. RecordingInv => RecordingTypeOK
    BY DEF RecordingInv
  <1> QED BY <1>1, RecordingInvInit, RecordingInvNext, PTL DEF RecordingSpec

(***************************************************************************)
(* ListedIsRecorded, for every configuration: whatever writes failed and   *)
(* whenever the process stopped, a playlist file that can be read lists    *)
(* the first segments of the stream, and each is in the file it names,     *)
(* written by this session, unless just that write failed.                 *)
(***************************************************************************)
THEOREM ListedRecorded == RecordingSpec => []ListedIsRecorded
  <1>1. ASSUME RecordingInv PROVE ListedIsRecorded
    <2>1. CASE Listed = <<>>
      BY <2>1 DEF ListedIsRecorded
    <2>2. CASE Listed # <<>>
      <3>1. Intact(PlaylistName) /\ Listed = files[PlaylistName].listed
        BY <2>2 DEF Listed
      <3>3. Listed \in Seq(Entry) /\ written \in Seq(Entry)
        BY <1>1, <3>1, RecordingTypes DEF RecordingInv, Intact, FileRecord
      <3>4. /\ Len(Listed) \in Nat \ {0} /\ Len(written) \in Nat
            /\ DOMAIN Listed = 1 .. Len(Listed)
        BY <2>2, <3>3, EmptySeq, LenProperties
      <3>5. Prefix(Listed, written) /\ Row(written) /\ written # <<>> /\ InitSafe
        BY <1>1, <3>1, <3>3, <3>4, EmptySeq DEF RecordingInv, Kept, Prefix
      <3>6. Row(Listed)
        BY <3>4, <3>5, RowPrefix
      <3>7. ASSUME NEW i \in DOMAIN Listed
            PROVE  Listed[i].name \notin failed =>
                      Intact(Listed[i].name) /\ files[Listed[i].name].media = Listed[i].media
        <4>1. i \in 1 .. Len(written) /\ Listed[i] = written[i]
          BY <3>4, <3>5 DEF Prefix
        <4>2. Safe(written[i])
          BY <1>1, <4>1 DEF RecordingInv, Kept
        <4> QED BY <4>1, <4>2 DEF Safe
      <3>8. ASSUME NEW i \in DOMAIN Listed
            PROVE  /\ RunTo(Listed[i].media,
                            IF i = Len(Listed) THEN LastOf(Listed[i].media)
                                               ELSE Listed[i + 1].media[1] - 1)
                   /\ Listed[1].media[1] = 1
        BY <3>3, <3>6, RowHasNoGap
      <3>9. Listed[1].media[1] = 1
        BY <3>4, <3>8
      <3> QED BY <3>5, <3>7, <3>8, <3>9 DEF ListedIsRecorded, InitSafe
    <2> QED BY <2>1, <2>2
  <1> QED BY <1>1, RecordingInvInit, RecordingInvNext, PTL DEF RecordingSpec

-----------------------------------------------------------------------------
(* How a recording ends.                                                   *)

HasEnded == Intact(PlaylistName) /\ files[PlaylistName].endList

FinishInv ==
    /\ RecordingInv
    /\ EndInv
    /\ (open /\ recording /\ store.ended /\ owed = Nothing) =>
          \/ pending = <<WriteList(TRUE)>>
          \/ pending = <<>> /\ (PlaylistName \in failed \/ HasEnded)
    /\ HasEnded =>
          /\ pending = <<>> /\ store.ended /\ owed = Nothing
          /\ files[PlaylistName].listed = written
          /\ Complete(written, store, Len(fragments))

\* A call of the store finds no sealed playlist and leaves none.
LEMMA CallFinishes ==
    ASSUME FinishInv, RecordingInv', [Next]_vars, NEW ws, CallStep(ws),
           ~store.ended \/ owed # Nothing,
           (recording /\ store'.ended /\ owed' = Nothing) => ws = <<WriteList(TRUE)>>
    PROVE  FinishInv'
  <1>1. EndInv'
    BY EndInvNext DEF FinishInv
  <1>2. ~HasEnded /\ ~HasEnded'
    BY DEF FinishInv, CallStep, HasEnded, Intact
  <1>3. recording => pending' = ws
    BY DEF CallStep, Makes
  <1>4. recording' <=> recording
    BY DEF CallStep
  <1> QED BY <1>1, <1>2, <1>3, <1>4 DEF FinishInv

LEMMA TakeInitFinishes ==
    ASSUME FinishInv, TakeInit
    PROVE  FinishInv'
  <1>1. RecordingInv' /\ CallStep(<<WriteInit>>) /\ [Next]_vars /\ ~store.ended
    BY TakeInitKeeps DEF FinishInv, TakeInit, CallStep, Next, SetInit
  <1>2. ~store'.ended
    <2>1. store \in StoreRecord
      BY DEF FinishInv, EndInv, StoreInv, TypeOK
    <2> QED BY <1>1, <2>1 DEF TakeInit, SetInit, StoreRecord
  <1> QED BY <1>1, <1>2, CallFinishes

LEMMA TakeFragmentFinishes ==
    ASSUME FinishInv,
           NEW frag \in Fragment, NEW lost \in SUBSET Uses, TakeFragment(frag, lost)
    PROVE  FinishInv'
  <1> DEFINE fed == Accumulate(store, Len(fragments'), frag, lost)
             ws == IF ReachesTarget(fed.currentPart)
                   THEN FinalizePartWrites(fed) ELSE <<>>
  <1>1. RecordingInv' /\ CallStep(ws) /\ AddFragment(frag, lost) /\ [Next]_vars
    BY TakeFragmentKeeps DEF FinishInv, TakeFragment, CallStep, Next
  <1>2. ~store'.ended
    <2>1. Sound(store) /\ store \in StoreRecord /\ Len(fragments') \in Nat
      <3>1. fragments' \in Seq(Fragment)
        BY <1>1 DEF RecordingInv, WholeInv, StoreInv, TypeOK
      <3> QED BY <3>1, LenProperties DEF FinishInv, EndInv, StoreInv, Sound
    <2>2. fed \in StoreRecord /\ fed.ended = store.ended
      BY <2>1, AccumulateType, AccumulateFields
    <2>3. ~store.ended /\ (store' = FinalizePart(fed).store \/ store' = fed)
      BY <1>1 DEF AddFragment
    <2>4. Filled(fed)
      BY <2>1, AccumulateSound
    <2> HIDE DEF fed
    <2>5. FinalizePart(fed).store.ended = fed.ended
      BY <2>2, <2>4, FinalizePartEnded
    <2> QED BY <2>2, <2>3, <2>5
  <1>3. ~store.ended
    BY <1>1 DEF AddFragment
  <1> HIDE DEF ws, fed
  <1> QED BY <1>1, <1>2, <1>3, CallFinishes

LEMMA FinalizeFinishes ==
    ASSUME FinishInv, FinalizeSession
    PROVE  FinishInv'
  <1>1. RecordingInv' /\ CallStep(FlushWrites(store)) /\ Finalize /\ [Next]_vars
    BY FinalizeKeeps DEF FinishInv, FinalizeSession, CallStep, Next
  <1>2. owed' # Nothing /\ ~store.ended
    <2>1. \A s : FinalizePart(s).news.kind = "media"
      BY DEF FinalizePart, PartNews, Media
    <2>2. \A s : FlushPart(s).news.kind # "none"
      BY <2>1 DEF FlushPart, TheEnd
    <2>3. FlushSegment(FlushPart(store)).news.kind # "none"
      BY <2>2 DEF FlushSegment, Media
    <2> QED BY <1>1, <2>3 DEF Finalize, Nothing
  <1> QED BY <1>1, <1>2, CallFinishes

LEMMA AnnounceFinishes ==
    ASSUME FinishInv, Announce
    PROVE  FinishInv'
  <1> DEFINE ws == IF store.ended THEN <<WriteList(TRUE)>> ELSE <<>>
  <1>1. RecordingInv' /\ CallStep(ws) /\ [Next]_vars
    BY AnnounceKeeps DEF FinishInv, Announce, CallStep, Next
  <1>2. owed # Nothing /\ store' = store
    BY DEF Announce, Broadcast, BroadcastEnded, Nothing
  <1> QED BY <1>1, <1>2, CallFinishes

LEMMA FreshEnd == Init' => EndInv'
  BY EndInvInit, PTL

LEMMA OpenSessionFinishes ==
    ASSUME FinishInv, OpenSession
    PROVE  FinishInv'
  <1>1. RecordingInv'
    BY OpenSessionKeeps DEF FinishInv
  <1>2. EndInv'
    BY FreshEnd DEF OpenSession, Init
  <1>3. ~HasEnded'
    <2>1. \A name \in DOMAIN files : files[name].session <= session /\ files[name].session \in Int
      BY RecordingTypes DEF FinishInv, RecordingInv, Kept, FileRecord
    <2>2. session \in Nat
      BY RecordingTypes DEF FinishInv, RecordingInv
    <2> QED BY <2>1, <2>2 DEF OpenSession, HasEnded, Intact
  <1>4. ~store'.ended
    BY DEF OpenSession, NewStore
  <1> QED BY <1>1, <1>2, <1>3, <1>4 DEF FinishInv

LEMMA StopFinishes ==
    ASSUME FinishInv, Stop
    PROVE  FinishInv'
  <1>1. RecordingInv'
    BY StopKeeps DEF FinishInv
  <1>2. EndInv'
    <2>1. [Next]_vars
      BY DEF Stop
    <2> QED BY <2>1, EndInvNext DEF FinishInv
  <1>3. ~open' /\ pending' = <<>> /\ UNCHANGED <<vars, session, written, files>>
    BY DEF Stop
  <1>4. HasEnded' <=> HasEnded
    BY <1>3 DEF HasEnded, Intact
  <1> QED BY <1>1, <1>2, <1>3, <1>4 DEF FinishInv, vars

\* While something is to be written, no playlist is sealed, and only the last
\* write may seal one.
LEMMA NotYetEnded ==
    ASSUME FinishInv, open, pending # <<>>
    PROVE  /\ ~HasEnded
           /\ Head(pending).final <=> pending = <<WriteList(TRUE)>>
           /\ store.ended /\ owed = Nothing => pending = <<WriteList(TRUE)>>
           /\ pending = <<WriteList(TRUE)>> =>
                 /\ store.ended /\ owed = Nothing /\ Head(pending) = WriteList(TRUE)
                 /\ Tail(pending) = <<>>
                 /\ Complete(written, store, Len(fragments))
  <1>1. InStep /\ recording
    BY DEF FinishInv, RecordingInv
  <1>2. pending \in Seq(WriteRecord) /\ Head(pending) = pending[1] /\ 1 \in DOMAIN pending
    <2>1. pending \in Seq(WriteRecord)
      BY RecordingTypes DEF FinishInv, RecordingInv
    <2> QED BY <2>1, EmptySeq, LenProperties, HeadTailProperties
  <1>3. Head(pending).final => Finishing
    BY <1>1, <1>2 DEF InStep
  <1>4. ASSUME pending = <<WriteList(TRUE)>>
        PROVE  /\ store.ended /\ owed = Nothing /\ Head(pending) = WriteList(TRUE)
               /\ Tail(pending) = <<>> /\ Head(pending).final
               /\ Complete(written, store, Len(fragments))
    <2>1. Head(pending) = WriteList(TRUE) /\ DOMAIN pending = {1} /\ Tail(pending) = <<>>
      BY <1>4
    <2>2. Head(pending).final /\ ~IsSegment(pending[1])
      BY <1>2, <2>1, NamesDiffer DEF WriteList, Write, IsSegment
    <2>3. PICK es : Lists(pending, written, es) /\ Complete(es, store, Len(fragments))
      BY <1>1 DEF InStep
    <2>4. es = written
      BY <2>1, <2>2, <2>3 DEF Lists
    <2>5. store.ended /\ owed = Nothing
      BY <1>3, <2>2 DEF Finishing
    <2> QED BY <2>1, <2>2, <2>3, <2>4, <2>5
  <1> QED BY <1>1, <1>3, <1>4 DEF FinishInv, Finishing

LEMMA OpenFileFinishes ==
    ASSUME FinishInv, OpenFile
    PROVE  FinishInv'
  <1>1. RecordingInv'
    BY OpenFileKeeps DEF FinishInv
  <1>2. /\ open /\ pending # <<>> /\ Put(Head(pending).name, Torn)
        /\ UNCHANGED <<vars, session, open, recording, pending, written, failed>>
    BY DEF OpenFile
  <1>3. EndInv'
    <2>1. [Next]_vars
      BY <1>2 DEF vars
    <2> QED BY <2>1, EndInvNext DEF FinishInv
  <1>4. ~HasEnded'
    <2>1. ~HasEnded
      BY <1>2, NotYetEnded
    <2> QED BY <1>2, <2>1 DEF HasEnded, Intact, Put, Torn, File
  <1> QED BY <1>1, <1>2, <1>3, <1>4, NotYetEnded DEF FinishInv, vars

LEMMA FillFileFinishes ==
    ASSUME FinishInv, FillFile
    PROVE  FinishInv'
  <1> DEFINE w == Head(pending)
  <1>1. RecordingInv'
    BY FillFileKeeps DEF FinishInv
  <1>2. /\ open /\ pending # <<>> /\ Put(w.name, Contents(w)) /\ Returns(w)
        /\ UNCHANGED <<vars, session, open, recording, failed>>
    BY DEF FillFile, FinishInv, RecordingInv, RecordingTypeOK
  <1>3. EndInv'
    <2>1. [Next]_vars
      BY <1>2 DEF vars
    <2> QED BY <2>1, EndInvNext DEF FinishInv
  <1>4. CASE pending = <<WriteList(TRUE)>>
    <2>1. /\ store.ended /\ owed = Nothing /\ w = WriteList(TRUE)
          /\ Tail(pending) = <<>> /\ Complete(written, store, Len(fragments))
      BY <1>2, <1>4, NotYetEnded
    <2>2. w.name = PlaylistName /\ w.final /\ ~IsSegment(w)
      BY <2>1, NamesDiffer DEF WriteList, Write, IsSegment
    <2>3. pending' = <<>> /\ written' = written
      BY <1>2, <2>1, <2>2 DEF Returns
    <2>4. PlaylistName \in DOMAIN files' /\ files'[PlaylistName] = File(TRUE, <<>>, written, TRUE)
      <3>1. w.final = TRUE
        BY <2>1 DEF WriteList, Write
      <3>2. Contents(w) = File(TRUE, <<>>, written, TRUE)
        BY <2>2, <3>1 DEF Contents
      <3> QED BY <1>2, <2>2, <3>2 DEF Put
    <2>5. HasEnded' /\ files'[PlaylistName].listed = written'
      BY <1>2, <2>3, <2>4 DEF HasEnded, Intact, File
    <2> QED BY <1>1, <1>2, <1>3, <2>1, <2>3, <2>5 DEF FinishInv, vars
  <1>5. CASE pending # <<WriteList(TRUE)>>
    <2>1. /\ ~HasEnded /\ ~w.final /\ ~(store.ended /\ owed = Nothing)
      BY <1>2, <1>5, NotYetEnded
    <2> HIDE DEF w
    <2>2. ~HasEnded'
      BY <1>2, <2>1 DEF HasEnded, Intact, Put, Contents, File
    <2> QED BY <1>1, <1>2, <1>3, <2>1, <2>2 DEF FinishInv, vars
  <1> QED BY <1>4, <1>5

LEMMA FailToWriteFinishes ==
    ASSUME FinishInv, FailToWrite
    PROVE  FinishInv'
  <1> DEFINE w == Head(pending)
  <1>1. RecordingInv'
    BY FailToWriteKeeps DEF FinishInv
  <1>2. /\ open /\ pending # <<>> /\ Returns(w) /\ failed' = failed \cup {w.name}
        /\ UNCHANGED <<vars, session, open, recording, files>>
    BY DEF FailToWrite
  <1>3. EndInv'
    <2>1. [Next]_vars
      BY <1>2 DEF vars
    <2> QED BY <2>1, EndInvNext DEF FinishInv
  <1>4. ~HasEnded'
    <2>1. ~HasEnded
      BY <1>2, NotYetEnded
    <2> QED BY <1>2, <2>1 DEF HasEnded, Intact
  <1>5. ASSUME store.ended, owed = Nothing
        PROVE  pending' = <<>> /\ PlaylistName \in failed'
    <2>1. w = WriteList(TRUE) /\ Tail(pending) = <<>>
      BY <1>2, <1>5, NotYetEnded
    <2> QED BY <1>2, <2>1 DEF Returns, WriteList, Write
  <1> QED BY <1>1, <1>2, <1>3, <1>4, <1>5 DEF FinishInv, vars

LEMMA FinishInvInit == RecordingInit => FinishInv
  <1> SUFFICES ASSUME RecordingInit PROVE FinishInv
    OBVIOUS
  <1>1. RecordingInv /\ EndInv
    BY RecordingInvInit, EndInvInit DEF RecordingInit
  <1>2. ~open /\ ~HasEnded
    BY DEF RecordingInit, HasEnded, Intact
  <1> QED BY <1>1, <1>2 DEF FinishInv

LEMMA FinishInvNext == FinishInv /\ [RecordingNext]_recVars => FinishInv'
  <1> SUFFICES ASSUME FinishInv, [RecordingNext]_recVars PROVE FinishInv'
    OBVIOUS
  <1>1. CASE OpenSession
    BY <1>1, OpenSessionFinishes
  <1>2. CASE TakeInit
    BY <1>2, TakeInitFinishes
  <1>3. ASSUME NEW frag \in Fragment, NEW lost \in SUBSET Uses, TakeFragment(frag, lost)
        PROVE  FinishInv'
    BY <1>3, TakeFragmentFinishes
  <1>4. CASE FinalizeSession
    BY <1>4, FinalizeFinishes
  <1>5. CASE Announce
    BY <1>5, AnnounceFinishes
  <1>6. CASE OpenFile
    BY <1>6, OpenFileFinishes
  <1>7. CASE FillFile
    BY <1>7, FillFileFinishes
  <1>8. CASE FailToWrite
    BY <1>8, FailToWriteFinishes
  <1>9. CASE Stop
    BY <1>9, StopFinishes
  <1>10. CASE UNCHANGED recVars
    <2>1. RecordingInv'
      BY <1>10, RecordingInvNext DEF FinishInv
    <2>2. EndInv'
      <3>1. [Next]_vars
        BY <1>10 DEF recVars
      <3> QED BY <3>1, EndInvNext DEF FinishInv
    <2>3. HasEnded' <=> HasEnded
      BY <1>10 DEF recVars, diskVars, HasEnded, Intact
    <2> QED BY <1>10, <2>1, <2>2, <2>3 DEF recVars, diskVars, vars, FinishInv
  <1> QED BY <1>1, <1>2, <1>3, <1>4, <1>5, <1>6, <1>7, <1>8, <1>9, <1>10 DEF RecordingNext

\* Nothing of a sealed store is outside its segments.
LEMMA EndedListsAll ==
    ASSUME FinishInv, NoneTooShort, store.ended, Complete(written, store, Len(fragments))
    PROVE  Upto(written) = Len(fragments)
  <1> DEFINE n == Len(fragments)
  <1>1. Sealed(store) /\ Whole(store, n)
    BY DEF FinishInv, EndInv, RecordingInv, WholeInv
  <1>2. Len(store.currentPart.data) = 0 /\ Len(store.currentSeg.data) = 0
    BY <1>1, NilData DEF Sealed, Whole
  <1>3. n \in Nat
    BY LenProperties DEF FinishInv, EndInv, StoreInv, TypeOK
  <1>4. SealedTo(store, n) = n
    BY <1>2, <1>3 DEF SealedTo, Cut
  <1> QED BY <1>4 DEF Complete

(***************************************************************************)
(* FinishedIsComplete, for every configuration whose fragments are longer  *)
(* than a millisecond: a recording that was finalized is sealed, and a     *)
(* sealed recording lists all of the stream.                               *)
(***************************************************************************)
THEOREM RecordingFinished ==
    ASSUME NoneTooShort
    PROVE  RecordingSpec => []FinishedIsComplete
  <1>1. ASSUME FinishInv PROVE FinishedIsComplete
    <2>1. (Quiet /\ recording /\ store.ended /\ owed = Nothing /\ PlaylistName \notin failed)
            => HasEnded
      <3>1. <<>> # <<WriteList(TRUE)>>
        OBVIOUS
      <3> QED BY <1>1, <3>1 DEF FinishInv, Quiet
    <2>2. ASSUME HasEnded
          PROVE  IF Listed = <<>> THEN fragments = <<>>
                                  ELSE LastOf(LastOf(Listed).media) = Len(fragments)
      <3>1. Listed = written /\ Upto(written) = Len(fragments)
        BY <1>1, <2>2, EndedListsAll DEF FinishInv, HasEnded, Listed
      <3>2. fragments \in Seq(Fragment)
        BY <1>1 DEF FinishInv, EndInv, StoreInv, TypeOK
      <3> QED BY <3>1, <3>2, EmptySeq DEF Upto
    <2> QED BY <2>1, <2>2 DEF FinishedIsComplete, HasEnded
  <1> QED BY <1>1, FinishInvInit, FinishInvNext, PTL DEF RecordingSpec

-----------------------------------------------------------------------------
(* The abstract archive.                                                   *)

LEMMA UptoIs ==
    /\ Upto(written) = (IF written = <<>> THEN 0 ELSE LastOf(LastOf(written).media))
    /\ PlaylistFile.state = "sealed" <=> HasEnded
  BY DEF Upto, PlaylistFile, HasEnded, Intact

\* What is not the playlist, or the list of segments, is not the archive's.
LEMMA ArchiveRests ==
    ASSUME UNCHANGED <<fragments, written, session>>,
           PlaylistName \in DOMAIN files' <=> PlaylistName \in DOMAIN files,
           PlaylistName \in DOMAIN files => files'[PlaylistName] = files[PlaylistName]
    PROVE  UNCHANGED Promise!vars /\ PlaylistFile' = PlaylistFile
  <1>1. PlaylistFile' = PlaylistFile
    BY DEF PlaylistFile, Listed, Intact
  <1> QED BY <1>1 DEF Promise!vars

\* A segment that gets listed is the next stretch of the stream.
LEMMA SegmentCuts ==
    ASSUME RecordingInv, open, pending # <<>>, IsSegment(Head(pending))
    PROVE  Upto(Append(written, Named(Head(pending)))) \in (Upto(written) + 1) .. Len(fragments)
  <1> DEFINE n == Len(fragments)
             es == Append(written, Named(Head(pending)))
             k == Len(written)
  <1>1. InStep /\ es \in Seq(Entry) /\ Row(es) /\ Head(pending) \in WriteRecord
    BY WriteIs
  <1>2. pending \in Seq(WriteRecord) /\ written \in Seq(Entry) /\ k \in Nat /\ Row(written)
    BY RecordingTypes DEF RecordingInv, Kept
  <1>3. PICK next : Lists(pending, written, next) /\ Complete(next, store, n)
    BY <1>1 DEF InStep
  <1>4. Complete(es, store, n)
    BY <1>2, <1>3, ListsTail
  <1>5. Upto(es) \in Nat /\ Upto(es) <= n /\ n \in Nat
    <2>1. store \in StoreRecord /\ n \in Nat
      BY LenProperties DEF RecordingInv, WholeInv, StoreInv, TypeOK
    <2>2. Len(store.currentPart.data) \in Nat /\ Len(store.currentSeg.data) \in Nat
      BY <2>1, WholeTypes
    <2>3. SealedTo(store, n) <= n
      <3>1. \A total \in Nat, a \in Nat, b \in Nat : total - a - b <= total
        OBVIOUS
      <3> HIDE DEF n
      <3> QED BY <2>1, <2>2, <3>1 DEF SealedTo, Cut
    <2> QED BY <1>1, <1>4, <2>1, <2>3, UptoType DEF Complete
  <1>6. /\ Len(es) = k + 1 /\ es # <<>>
        /\ \A i \in 1 .. k : es[i] = written[i]
    <2>1. Named(Head(pending)) \in Entry
      BY <1>1 DEF Named, Entry, WriteRecord
    <2> QED BY <1>2, <2>1, AppendProperties
  <1> HIDE DEF es, k, n
  <1>7. /\ es[k + 1].media \in Seq(Nat) /\ es[k + 1].media # <<>>
        /\ RunTo(es[k + 1].media, LastOf(es[k + 1].media))
        /\ es[k + 1].media[1] = IF k + 1 = 1 THEN 1 ELSE LastOf(es[(k + 1) - 1].media) + 1
    <2>1. k + 1 \in 1 .. Len(es)
      BY <1>2, <1>6
    <2> QED BY <1>1, <2>1, EntryFields DEF Row
  <1>8. es[k + 1].media[1] = Upto(written) + 1
    <2>1. CASE k = 0
      BY <1>2, <1>7, <2>1, EmptySeq DEF Upto, k
    <2>2. CASE k # 0
      <3>1. (k + 1) - 1 = k /\ k \in 1 .. k /\ es[k] = written[k] /\ written # <<>>
        BY <1>2, <1>6, <2>2, EmptySeq DEF k
      <3>2. Upto(written) = LastOf(written[k].media)
        BY <3>1 DEF Upto, LastOf, k
      <3> QED BY <1>2, <1>7, <2>2, <3>1, <3>2
    <2> QED BY <2>1, <2>2
  <1>9. Upto(es) = LastOf(es[k + 1].media)
    BY <1>6 DEF Upto, LastOf
  <1>10. Upto(es) >= es[k + 1].media[1]
    <2>1. LastOf(es[k + 1].media) \in Nat /\ es[k + 1].media[1] \in Nat
      BY <1>7, LastIsNumber
    <2>2. es[k + 1].media[1] - 1 = LastOf(es[k + 1].media) - Len(es[k + 1].media)
      BY <1>7, <2>1, RunFirst
    <2>3. Len(es[k + 1].media) \in Nat /\ Len(es[k + 1].media) # 0
      BY <1>7, EmptySeq, LenProperties
    <2> QED BY <1>9, <2>1, <2>2, <2>3
  <1>11. Upto(written) \in Nat
    BY <1>2, UptoType
  <1>12. Upto(es) \in (Upto(written) + 1) .. n
    BY <1>5, <1>8, <1>10, <1>11
  <1> QED BY <1>12 DEF es, n

LEMMA ArchiveInit == RecordingInit => Promise!Init
  <1> SUFFICES ASSUME RecordingInit PROVE Promise!Init
    OBVIOUS
  <1>1. PlaylistFile = [state |-> "absent", upto |-> 0]
    BY DEF RecordingInit, PlaylistFile
  <1>2. Len(fragments) = 0 /\ written = <<>>
    BY EmptySeq DEF RecordingInit, Init
  <1> QED BY <1>1, <1>2 DEF Promise!Init, Promise!Absent

LEMMA ArchiveOpenSession ==
    ASSUME FinishInv, OpenSession
    PROVE  Promise!StartOver
  <1>1. \A name \in DOMAIN files : files[name].session # session'
    <2>1. \A name \in DOMAIN files : files[name].session <= session /\ files[name].session \in Int
      BY RecordingTypes DEF FinishInv, RecordingInv, Kept, FileRecord
    <2>2. session \in Nat /\ session' = session + 1
      BY RecordingTypes DEF FinishInv, RecordingInv, OpenSession
    <2> QED BY <2>1, <2>2
  <1>2. PlaylistFile' = [state |-> "absent", upto |-> 0]
    BY <1>1 DEF OpenSession, PlaylistFile
  <1>3. Len(fragments') = 0 /\ written' = <<>>
    BY EmptySeq DEF OpenSession
  <1> QED BY <1>2, <1>3 DEF Promise!StartOver, Promise!Absent

LEMMA ArchiveCall ==
    ASSUME FinishInv, NEW ws, CallStep(ws), fragments' = fragments
    PROVE  UNCHANGED Promise!vars
  BY ArchiveRests DEF CallStep

LEMMA ArchiveTake ==
    ASSUME FinishInv,
           NEW frag \in Fragment, NEW lost \in SUBSET Uses, TakeFragment(frag, lost)
    PROVE  Promise!Take
  <1>1. /\ UNCHANGED <<session, written, files>> /\ ~store.ended
        /\ fragments' = Append(fragments, frag)
    BY DEF TakeFragment, AddFragment
  <1>2. Len(fragments') = Len(fragments) + 1
    <2>1. fragments \in Seq(Fragment)
      BY DEF FinishInv, EndInv, StoreInv, TypeOK
    <2> QED BY <1>1, <2>1, AppendProperties
  <1>3. PlaylistFile' = PlaylistFile /\ PlaylistFile.state # "sealed"
    <2>1. PlaylistFile' = PlaylistFile
      BY <1>1 DEF PlaylistFile, Listed, Intact
    <2>2. ~HasEnded
      BY <1>1 DEF FinishInv
    <2> QED BY <2>1, <2>2, UptoIs
  <1> QED BY <1>1, <1>2, <1>3 DEF Promise!Take

LEMMA ArchiveOpenFile ==
    ASSUME FinishInv, OpenFile
    PROVE  Promise!Open \/ UNCHANGED Promise!vars
  <1> DEFINE name == Head(pending).name
  <1>1. /\ open /\ pending # <<>> /\ Put(name, Torn)
        /\ UNCHANGED <<fragments, written, session>>
    BY DEF OpenFile, vars
  <1>2. PlaylistFile.state # "sealed"
    BY <1>1, NotYetEnded, UptoIs
  <1> HIDE DEF name
  <1>3. CASE name = PlaylistName
    <2>1. PlaylistName \in DOMAIN files' /\ files'[PlaylistName] = Torn
      BY <1>1, <1>3 DEF Put
    <2>2. PlaylistFile' = [state |-> "torn", upto |-> 0]
      BY <1>1, <2>1 DEF PlaylistFile, Torn, File
    <2> QED BY <1>1, <1>2, <2>2 DEF Promise!Open
  <1>4. CASE name # PlaylistName
    BY <1>1, <1>4, ArchiveRests DEF Put
  <1> QED BY <1>3, <1>4

\* The list of segments after a write returned, when the playlist file stays.
LEMMA ArchiveReturns ==
    ASSUME FinishInv, open, pending # <<>>, Returns(Head(pending)),
           fragments' = fragments, PlaylistFile' = PlaylistFile
    PROVE  Promise!Cut \/ UNCHANGED Promise!vars
  <1>1. PlaylistFile.state # "sealed"
    BY NotYetEnded, UptoIs
  <1>2. CASE IsSegment(Head(pending))
    <2>1. written' = Append(written, Named(Head(pending)))
      BY <1>2 DEF Returns, Named
    <2>2. Upto(written') \in (Upto(written) + 1) .. Len(fragments)
      BY <1>2, <2>1, SegmentCuts DEF FinishInv
    <2> QED BY <1>1, <2>2 DEF Promise!Cut, Upto
  <1>3. CASE ~IsSegment(Head(pending))
    <2>1. written' = written
      BY <1>3 DEF Returns
    <2> QED BY <2>1 DEF Promise!vars
  <1> QED BY <1>2, <1>3

\* A playlist that is being written was truncated by this session.
LEMMA TornIsTorn ==
    ASSUME RecordingInv, opened, Head(pending).name = PlaylistName
    PROVE  PlaylistFile.state = "torn"
  <1>1. PlaylistName \in DOMAIN files /\ files[PlaylistName] = Torn
    BY DEF RecordingInv, RecordingTypeOK
  <1> QED BY <1>1 DEF PlaylistFile, Torn, File

LEMMA ArchiveFillFile ==
    ASSUME FinishInv, NoneTooShort, FillFile
    PROVE  Promise!Next \/ UNCHANGED Promise!vars
  <1> DEFINE w == Head(pending)
  <1>1. /\ open /\ pending # <<>> /\ Put(w.name, Contents(w)) /\ Returns(w)
        /\ opened
        /\ UNCHANGED <<fragments, store, session>>
    BY DEF FillFile, vars, FinishInv, RecordingInv, RecordingTypeOK
  <1>2. w \in WriteRecord /\ w.final \in BOOLEAN
    BY <1>1, WriteIs DEF FinishInv, WriteRecord
  <1>3. CASE w.name # PlaylistName
    <2>1. PlaylistFile' = PlaylistFile
      BY <1>1, <1>3 DEF Put, PlaylistFile, Listed, Intact
    <2> QED BY <1>1, <2>1, ArchiveReturns DEF Promise!Next
  <1>4. CASE w.name = PlaylistName
    <2>1. PlaylistName \in DOMAIN files' /\ files'[PlaylistName] = File(TRUE, <<>>, written, w.final)
      BY <1>1, <1>4 DEF Put, Contents
    <2>2. written' = written
      BY <1>1, <1>4, NamesDiffer DEF Returns, IsSegment
    <2>3. PlaylistFile' = [state |-> IF w.final THEN "sealed" ELSE "growing",
                           upto |-> Upto(written)]
      BY <1>1, <2>1, <2>2 DEF PlaylistFile, Listed, Intact, File, Upto
    <2>4. PlaylistFile.state = "torn"
      BY <1>1, <1>4, TornIsTorn DEF FinishInv
    <2>5. CASE ~w.final
      BY <1>1, <2>2, <2>3, <2>4, <2>5, UptoIs DEF Promise!Publish, Promise!Next
    <2>6. CASE w.final
      <3>1. Upto(written) = Len(fragments)
        BY <1>1, <2>6, NotYetEnded, EndedListsAll
      <3> QED BY <1>1, <2>2, <2>3, <2>4, <2>6, <3>1, UptoIs DEF Promise!Seal, Promise!Next
    <2> QED BY <2>5, <2>6
  <1> QED BY <1>3, <1>4

LEMMA ArchiveFailToWrite ==
    ASSUME FinishInv, FailToWrite
    PROVE  Promise!Cut \/ UNCHANGED Promise!vars
  <1>1. /\ open /\ pending # <<>> /\ Returns(Head(pending))
        /\ fragments' = fragments /\ UNCHANGED <<files, session>>
    BY DEF FailToWrite, vars
  <1>2. PlaylistFile' = PlaylistFile
    BY <1>1 DEF PlaylistFile, Listed, Intact
  <1> QED BY <1>1, <1>2, ArchiveReturns

(***************************************************************************)
(* The files implement the abstract archive, given fragments longer than a *)
(* millisecond: whatever fails and whenever it stops, the playlist file    *)
(* only grows, by whole segments, and is sealed when it names everything.  *)
(***************************************************************************)
THEOREM RecordingIsArchive ==
    ASSUME NoneTooShort
    PROVE  RecordingSpec => ImplementsArchive
  <1>1. FinishInv /\ [RecordingNext]_recVars => [Promise!Next]_(Promise!vars)
    <2> SUFFICES ASSUME FinishInv, [RecordingNext]_recVars PROVE [Promise!Next]_(Promise!vars)
      OBVIOUS
    <2>1. CASE OpenSession
      BY <2>1, ArchiveOpenSession DEF Promise!Next
    <2>2. CASE TakeInit
      <3>1. CallStep(<<WriteInit>>) /\ fragments' = fragments
        BY <2>2 DEF TakeInit, CallStep, SetInit
      <3> QED BY <3>1, ArchiveCall
    <2>3. ASSUME NEW frag \in Fragment, NEW lost \in SUBSET Uses, TakeFragment(frag, lost)
          PROVE  Promise!Next
      BY <2>3, ArchiveTake DEF Promise!Next
    <2>4. CASE FinalizeSession
      <3>1. CallStep(FlushWrites(store)) /\ fragments' = fragments
        BY <2>4 DEF FinalizeSession, CallStep, Finalize
      <3> QED BY <3>1, ArchiveCall
    <2>5. CASE Announce
      <3>1. UNCHANGED <<fragments, written, session, files>>
        BY <2>5 DEF Announce, Broadcast, BroadcastEnded
      <3> QED BY <3>1, ArchiveRests
    <2>6. CASE OpenFile
      BY <2>6, ArchiveOpenFile DEF Promise!Next
    <2>7. CASE FillFile
      BY <2>7, ArchiveFillFile
    <2>8. CASE FailToWrite
      BY <2>8, ArchiveFailToWrite DEF Promise!Next
    <2>9. CASE Stop
      BY <2>9, ArchiveRests DEF Stop, vars
    <2>10. CASE UNCHANGED recVars
      BY <2>10, ArchiveRests DEF recVars, diskVars, vars
    <2> QED BY <2>1, <2>2, <2>3, <2>4, <2>5, <2>6, <2>7, <2>8, <2>9, <2>10 DEF RecordingNext
  <1> QED BY <1>1, ArchiveInit, FinishInvInit, FinishInvNext, PTL
          DEF RecordingSpec, ImplementsArchive, Promise!Spec

-----------------------------------------------------------------------------
(* The files of parts: which the writes of a call bring, and when.         *)

\* The writes ws of a call bring the parts that t publishes and s did not; of
\* all that t publishes only these have such a name.
Brings(ws, s, t) ==
    /\ \A p \in Published(t) :
          p \in Published(s) \/ \E i \in DOMAIN ws : ws[i] = WritePart(p[2])
    /\ \A p \in Published(t), i \in DOMAIN ws :
          ws[i].name = PartName(p[1], p[2].idx) =>
              /\ ws[i] = WritePart(p[2])
              /\ p[1] = s.currentSeg.msn /\ p[2].idx = Len(s.currentSeg.parts)

\* Writes of a segment, of the init segment and of playlists.
PartFree(ws) == \A i \in DOMAIN ws : ws[i].name[1] # "part"

LEMMA PartNames ==
    /\ \A m, i : PartName(m, i)[1] = "part"
    /\ \A m, i, k, j : PartName(m, i) = PartName(k, j) => m = k /\ i = j
    /\ \A m : SegmentName(m)[1] # "part"
    /\ InitName[1] # "part" /\ PlaylistName[1] # "part"
  BY DEF PartName, SegmentName, InitName, PlaylistName

LEMMA BringsNothing ==
    ASSUME NEW ws, PartFree(ws), NEW s, NEW t, Published(t) \subseteq Published(s)
    PROVE  Brings(ws, s, t)
  BY PartNames DEF Brings, PartFree

LEMMA SegmentsArePartFree ==
    \A seg : DOMAIN WriteSegment(seg) = {1, 2} /\ PartFree(WriteSegment(seg))
  <1> TAKE seg
  <1>1. DOMAIN WriteSegment(seg) = {1, 2}
    BY DEF WriteSegment
  <1>2. /\ WriteSegment(seg)[1].name = SegmentName(seg.msn)
        /\ WriteSegment(seg)[2].name = PlaylistName
    BY DEF WriteSegment, Write, WriteList
  <1> QED BY <1>1, <1>2, PartNames DEF PartFree

LEMMA JoinedWrites ==
    ASSUME NEW a \in Seq(WriteRecord), NEW b \in Seq(WriteRecord)
    PROVE  /\ \A i \in DOMAIN (a \o b) : \/ \E j \in DOMAIN a : (a \o b)[i] = a[j]
                                         \/ \E j \in DOMAIN b : (a \o b)[i] = b[j]
           /\ \A j \in DOMAIN a : \E i \in DOMAIN (a \o b) : (a \o b)[i] = a[j]
           /\ \A j \in DOMAIN b : \E i \in DOMAIN (a \o b) : (a \o b)[i] = b[j]
  <1>1. /\ Len(a) \in Nat /\ Len(b) \in Nat /\ Len(a \o b) = Len(a) + Len(b)
        /\ \A k \in 1 .. Len(a) + Len(b) :
              (a \o b)[k] = IF k <= Len(a) THEN a[k] ELSE b[k - Len(a)]
        /\ a \o b \in Seq(WriteRecord)
    BY ConcatProperties, LenProperties
  <1>2. /\ DOMAIN (a \o b) = 1 .. Len(a) + Len(b) /\ DOMAIN a = 1 .. Len(a)
        /\ DOMAIN b = 1 .. Len(b)
    BY <1>1, LenProperties
  <1>3. ASSUME NEW i \in DOMAIN (a \o b)
        PROVE  \/ \E j \in DOMAIN a : (a \o b)[i] = a[j]
               \/ \E j \in DOMAIN b : (a \o b)[i] = b[j]
    <2>1. CASE i <= Len(a)
      BY <1>1, <1>2, <2>1
    <2>2. CASE ~(i <= Len(a))
      <3>1. i - Len(a) \in DOMAIN b /\ (a \o b)[i] = b[i - Len(a)]
        BY <1>1, <1>2, <2>2
      <3> QED BY <3>1
    <2> QED BY <2>1, <2>2
  <1>4. \A j \in DOMAIN a : j \in DOMAIN (a \o b) /\ (a \o b)[j] = a[j]
    BY <1>1, <1>2
  <1>5. \A j \in DOMAIN b : Len(a) + j \in DOMAIN (a \o b) /\ (a \o b)[Len(a) + j] = b[j]
    BY <1>1, <1>2
  <1> QED BY <1>3, <1>4, <1>5

LEMMA FinalizePartBrings ==
    ASSUME NEW s, Filled(s), NEW n \in Nat, Whole(s, n), Tiled(s), s.currentPart # NoPart
    PROVE  Brings(FinalizePartWrites(s), s, FinalizePart(s).store)
  <1> DEFINE grown == AppendPart(s)
             part == ClosedPart(s)
             seg == grown.currentSeg
             own == <<WritePart(LastOf(seg.parts))>>
             before == IF IsFull(seg) THEN WriteSegment(seg) ELSE <<>>
             ws == FinalizePartWrites(s)
             next == FinalizePart(s).store
  <1>1. /\ s \in StoreRecord /\ s.currentSeg \in Segment /\ s.currentSeg.msn \in Nat
        /\ s.currentSeg.parts \in Seq(Part) /\ part \in Part
        /\ Sound(s)
    BY FilledIs, ClosedPartType DEF Filled
  <1>2. /\ part.msn = s.currentSeg.msn /\ part.idx = Len(s.currentSeg.parts)
    BY DEF ClosedPart, NextIndex
  <1>3. Sealable(grown) /\ Whole(grown, n) /\ grown.currentPart = NoPart
    BY <1>1, AppendPartSound, AppendPartWhole, AppendPartFields
  <1>4. LastOf(seg.parts) = part
    <2>1. seg.parts = Append(s.currentSeg.parts, part)
      BY <1>1, AppendPartFields
    <2>2. \A e \in Part : LastOf(Append(s.currentSeg.parts, e)) = e
      BY <1>1, AppendProperties DEF LastOf
    <2> HIDE DEF seg, part
    <2> QED BY <1>1, <2>1, <2>2
  <1>5. own \in Seq(WriteRecord) /\ DOMAIN own = {1} /\ own[1] = WritePart(part)
    <2>1. own \in Seq(WriteRecord)
      BY <1>1, PartWrites
    <2>2. own = <<WritePart(part)>>
      BY <1>4
    <2>3. \A w : DOMAIN <<w>> = {1} /\ <<w>>[1] = w
      OBVIOUS
    <2> HIDE DEF own, part
    <2> QED BY <2>1, <2>2, <2>3
  <1>6. before \in Seq(WriteRecord) /\ PartFree(before)
    <2>1. WriteSegment(seg) \in Seq(WriteRecord)
      BY <1>3, SegmentWrites DEF Follow
    <2>2. <<>> \in Seq(WriteRecord) /\ PartFree(<<>>)
      BY EmptySeq DEF PartFree
    <2> QED BY <2>1, <2>2, SegmentsArePartFree
  <1>7. ws = before \o own
    BY DEF FinalizePartWrites
  <1>8. Published(next) \subseteq Published(grown)
    <2>1. next = IF IsFull(seg) THEN FinalizeSegment(grown) ELSE grown
      BY DEF FinalizePart
    <2> QED BY <1>3, <2>1, FinalizeSegmentTrims DEF Trims
  <1>9. \A p \in Published(next) : p \in Published(s) \/ p = <<s.currentSeg.msn, part>>
    BY <1>8, GainsOnePart
  <1> HIDE DEF grown, part, seg, own, before, ws, next
  <1>10. /\ \E i \in DOMAIN ws : ws[i] = WritePart(part)
         /\ \A i \in DOMAIN ws : ws[i] = WritePart(part) \/ ws[i].name[1] # "part"
    <2>1. \A j \in DOMAIN own : \E i \in DOMAIN ws : ws[i] = own[j]
      BY <1>5, <1>6, <1>7, JoinedWrites
    <2>2. \A i \in DOMAIN ws : \/ \E j \in DOMAIN before : ws[i] = before[j]
                               \/ \E j \in DOMAIN own : ws[i] = own[j]
      BY <1>5, <1>6, <1>7, JoinedWrites
    <2> QED BY <1>5, <1>6, <2>1, <2>2 DEF PartFree
  <1>11. WritePart(part).name = PartName(s.currentSeg.msn, Len(s.currentSeg.parts))
    BY <1>2 DEF WritePart, Write
  <1>12. ASSUME NEW p \in Published(next), NEW i \in DOMAIN ws,
                ws[i].name = PartName(p[1], p[2].idx)
         PROVE  /\ ws[i] = WritePart(p[2])
                /\ p[1] = s.currentSeg.msn /\ p[2].idx = Len(s.currentSeg.parts)
    <2>1. ws[i] = WritePart(part)
      BY <1>10, <1>12, PartNames
    <2>2. p[1] = s.currentSeg.msn /\ p[2].idx = Len(s.currentSeg.parts)
      BY <1>11, <1>12, <2>1, PartNames
    <2>3. p \notin Published(s)
      <3> SUFFICES ASSUME p \in Published(s) PROVE FALSE
        OBVIOUS
      <3>1. p[2].idx < Len(s.currentSeg.parts) /\ Len(s.currentSeg.parts) \in Nat
        BY <1>1, <2>2, Numbered, LenProperties
      <3> QED BY <2>2, <3>1
    <2>4. p[2] = part
      BY <1>9, <2>3
    <2> QED BY <2>1, <2>2, <2>4
  <1>13. \A p \in Published(next) :
            p \in Published(s) \/ \E i \in DOMAIN ws : ws[i] = WritePart(p[2])
    BY <1>9, <1>10
  <1> QED BY <1>12, <1>13 DEF Brings, ws, next

LEMMA BringsNoMore ==
    ASSUME NEW a \in Seq(WriteRecord), NEW b \in Seq(WriteRecord), PartFree(b),
           NEW s, NEW t, NEW u, Brings(a, s, t), Published(u) \subseteq Published(t)
    PROVE  Brings(a \o b, s, u)
  <1>1. \A i \in DOMAIN (a \o b) : \/ \E j \in DOMAIN a : (a \o b)[i] = a[j]
                                   \/ (a \o b)[i].name[1] # "part"
    BY JoinedWrites DEF PartFree
  <1>2. \A j \in DOMAIN a : \E i \in DOMAIN (a \o b) : (a \o b)[i] = a[j]
    BY JoinedWrites
  <1>3. ASSUME NEW p \in Published(u)
        PROVE  p \in Published(s) \/ \E i \in DOMAIN (a \o b) : (a \o b)[i] = WritePart(p[2])
    <2>1. p \in Published(s) \/ \E j \in DOMAIN a : a[j] = WritePart(p[2])
      BY DEF Brings
    <2> QED BY <1>2, <2>1
  <1>4. ASSUME NEW p \in Published(u), NEW i \in DOMAIN (a \o b),
               (a \o b)[i].name = PartName(p[1], p[2].idx)
        PROVE  /\ (a \o b)[i] = WritePart(p[2])
               /\ p[1] = s.currentSeg.msn /\ p[2].idx = Len(s.currentSeg.parts)
    <2>1. PICK j \in DOMAIN a : (a \o b)[i] = a[j]
      BY <1>1, <1>4, PartNames
    <2>2. a[j].name = PartName(p[1], p[2].idx) /\ p \in Published(t)
      BY <1>4, <2>1
    <2>3. /\ a[j] = WritePart(p[2])
          /\ p[1] = s.currentSeg.msn /\ p[2].idx = Len(s.currentSeg.parts)
      BY <2>2 DEF Brings
    <2> QED BY <2>1, <2>3
  <1> QED BY <1>3, <1>4 DEF Brings

LEMMA FlushBrings ==
    ASSUME NEW s, Sound(s), NEW n \in Nat, Whole(s, n), Tiled(s)
    PROVE  Brings(FlushWrites(s), s, FlushSegment(FlushPart(s)).store)
  <1> DEFINE f == FlushPart(s)
             seg == f.store.currentSeg
             ws == FlushPartWrites(s)
             rest == IF seg.dur > 0 THEN WriteSegment(seg) ELSE <<>>
             next == FlushSegment(f).store
  <1>1. /\ Sound(f.store) /\ Whole(f.store, n) /\ f.store.currentPart = NoPart
        /\ ws \in Seq(WriteRecord) /\ Brings(ws, s, f.store)
    <2>1. CASE s.currentPart = NoPart
      <3>1. f.store = s /\ ws = <<>>
        BY <2>1 DEF FlushPart, FlushPartWrites
      <3>2. PartFree(<<>>) /\ <<>> \in Seq(WriteRecord)
        BY EmptySeq DEF PartFree
      <3>3. Brings(<<>>, s, s)
        BY <3>2, BringsNothing
      <3> QED BY <2>1, <3>1, <3>2, <3>3
    <2>2. CASE s.currentPart # NoPart
      <3>1. Filled(s)
        BY <2>2, LatestTypes DEF Sound, Windowed, Filled
      <3>2. f = FinalizePart(s) /\ ws = FinalizePartWrites(s)
        BY <2>2 DEF FlushPart, FlushPartWrites
      <3>3. ws \in Seq(WriteRecord)
        BY <2>2, <3>1, <3>2, FinalizePartFollows DEF Follow
      <3> QED BY <2>2, <3>1, <3>2, <3>3, FinalizePartSound, FinalizePartWhole, FinalizePartBrings
              DEF Filled
    <2> QED BY <2>1, <2>2
  <1>2. FlushWrites(s) = ws \o rest
    BY DEF FlushWrites
  <1> HIDE DEF f, ws
  <1>3. rest \in Seq(WriteRecord) /\ PartFree(rest) /\ Published(next) \subseteq Published(f.store)
    <2>1. CASE seg.dur > 0
      <3>1. Sealable(f.store)
        BY <1>1, <2>1, HasDuration
      <3>2. next = FinalizeSegment(f.store)
        BY <2>1 DEF FlushSegment
      <3>3. WriteSegment(seg) \in Seq(WriteRecord)
        BY <1>1, <3>1, SegmentWrites DEF Follow
      <3> QED BY <2>1, <3>1, <3>2, <3>3, SegmentsArePartFree, FinalizeSegmentTrims DEF Trims
    <2>2. CASE ~(seg.dur > 0)
      <3>1. next = f.store
        BY <2>2 DEF FlushSegment
      <3>2. <<>> \in Seq(WriteRecord) /\ PartFree(<<>>)
        BY EmptySeq DEF PartFree
      <3> QED BY <2>2, <3>1, <3>2
    <2> QED BY <2>1, <2>2
  <1> HIDE DEF rest, next
  <1>4. Brings(ws \o rest, s, next)
    BY <1>1, <1>3, BringsNoMore
  <1> QED BY <1>2, <1>4 DEF next, f

-----------------------------------------------------------------------------
(* The parts a client can learn of: on disk, or still owed by a call that  *)
(* has not announced them.                                                 *)

OnDisk(p) ==
    LET name == PartName(p[1], p[2].idx)
    IN  name \in failed \/ (Intact(name) /\ files[name].media = p[2].data)

Owed(p) == \E i \in DOMAIN pending : pending[i] = WritePart(p[2])

\* No other write that is pending has the name of p's file, and while that
\* one is, p was not announced.
OwedOnly(p) ==
    \A i \in DOMAIN pending :
        pending[i].name = PartName(p[1], p[2].idx) =>
            pending[i] = WritePart(p[2]) /\ ~Announced(p[1], p[2].idx)

PartsInv ==
    /\ RecordingInv
    /\ Tiled(store)
    /\ open /\ recording => \A p \in Published(store) : (OnDisk(p) \/ Owed(p)) /\ OwedOnly(p)

LEMMA NextIsUnannounced ==
    ASSUME StoreInv, owed = Nothing, NEW m, NEW i,
           \/ store.currentSeg = NoSegment
           \/ m = store.currentSeg.msn /\ i = Len(store.currentSeg.parts)
    PROVE  ~Announced(m, i)
  <1>1. notifier.lastMSN = LatestMSN(store) /\ notifier.lastPart = LatestPart(store)
    BY DEF StoreInv, NotifierIsCurrent, Nothing
  <1>2. /\ store.currentSeg.msn \in Int /\ store.currentSeg.msn >= -1
        /\ Len(store.currentSeg.parts) \in Nat
        /\ store.currentSeg.parts = <<>> <=> Len(store.currentSeg.parts) = 0
    BY LatestTypes DEF StoreInv
  <1>3. CASE store.currentSeg = NoSegment
    <2>1. LatestMSN(store) = -1
      BY <1>3 DEF LatestMSN, NoSegment, NewSegment
    <2> QED BY <1>1, <2>1 DEF Announced
  <1>4. CASE store.currentSeg # NoSegment /\ m = store.currentSeg.msn
               /\ i = Len(store.currentSeg.parts)
    <2>1. store.currentSeg.msn >= 0
      BY <1>2, <1>4 DEF StoreInv, Sound, Windowed
    <2>2. CASE store.currentSeg.parts = <<>>
      <3>1. notifier.lastMSN = m - 1
        BY <1>1, <1>4, <2>1, <2>2 DEF LatestMSN
      <3> QED BY <1>2, <1>4, <3>1 DEF Announced, Later, Media
    <2>3. CASE store.currentSeg.parts # <<>>
      <3>1. notifier.lastMSN = m /\ notifier.lastPart = i - 1
        BY <1>1, <1>4, <2>1, <2>3 DEF LatestMSN, LatestPart
      <3> QED BY <1>2, <1>4, <2>3, <3>1 DEF Announced, Later, Media
    <2> QED BY <2>2, <2>3
  <1> QED BY <1>3, <1>4

\* Between two calls all that is published is on disk.
LEMMA QuietIsOnDisk ==
    ASSUME PartsInv, Quiet, recording
    PROVE  \A p \in Published(store) : OnDisk(p)
  <1>1. pending = <<>> /\ open
    BY DEF Quiet
  <1>2. \A p \in Published(store) : ~Owed(p)
    BY <1>1 DEF Owed
  <1> QED BY <1>1, <1>2 DEF PartsInv

LEMMA PartsStay ==
    ASSUME UNCHANGED <<session, files, failed>>
    PROVE  \A p : OnDisk(p)' <=> OnDisk(p)
  BY DEF OnDisk, Intact

\* A call brings the part that it publishes and announces it later.
LEMMA CallBrings ==
    ASSUME PartsInv, NEW ws, CallStep(ws), RecordingInv', Tiled(store'),
           NEW s, Brings(ws, s, store'), Published(s) \subseteq Published(store),
           UNCHANGED notifier,
           ~Announced(s.currentSeg.msn, Len(s.currentSeg.parts))
    PROVE  PartsInv'
  <1>1. ASSUME recording', NEW p \in Published(store')
        PROVE  (OnDisk(p)' \/ Owed(p)') /\ OwedOnly(p)'
    <2>1. Quiet /\ recording /\ pending' = ws /\ UNCHANGED <<session, files, failed>>
      BY <1>1 DEF CallStep, Makes
    <2>2. \/ p \in Published(s)
          \/ \E i \in DOMAIN ws : ws[i] = WritePart(p[2])
      BY DEF Brings
    <2>3. p \in Published(s) => OnDisk(p)'
      BY <2>1, QuietIsOnDisk, PartsStay
    <2>4. ASSUME NEW i \in DOMAIN ws, ws[i].name = PartName(p[1], p[2].idx)
          PROVE  ws[i] = WritePart(p[2]) /\ ~Announced(p[1], p[2].idx)'
      <3>1. ws[i] = WritePart(p[2]) /\ ~Announced(p[1], p[2].idx)
        BY <2>4 DEF Brings
      <3> QED BY <3>1 DEF Announced
    <2>5. OwedOnly(p)'
      BY <2>1, <2>4 DEF OwedOnly
    <2>6. (\E i \in DOMAIN ws : ws[i] = WritePart(p[2])) => Owed(p)'
      BY <2>1 DEF Owed
    <2> QED BY <2>2, <2>3, <2>5, <2>6
  <1> QED BY <1>1 DEF PartsInv

\* A call that publishes nothing and writes no part.
LEMMA CallBringsNothing ==
    ASSUME PartsInv, NEW ws, CallStep(ws), RecordingInv', Tiled(store'),
           PartFree(ws), Published(store') \subseteq Published(store)
    PROVE  PartsInv'
  <1>1. ASSUME recording', NEW p \in Published(store')
        PROVE  OnDisk(p)' /\ OwedOnly(p)'
    <2>1. Quiet /\ recording /\ pending' = ws /\ UNCHANGED <<session, files, failed>>
      BY <1>1 DEF CallStep, Makes
    <2>2. OnDisk(p)'
      BY <2>1, QuietIsOnDisk, PartsStay
    <2>3. OwedOnly(p)'
      BY <2>1, PartNames DEF PartFree, OwedOnly
    <2> QED BY <2>2, <2>3
  <1> QED BY <1>1 DEF PartsInv

LEMMA StaysTiled ==
    ASSUME PartsInv, [Next]_vars
    PROVE  Tiled(store')
  BY TileInvNext DEF PartsInv, RecordingInv, TileInv

LEMMA TakeInitParts ==
    ASSUME PartsInv, TakeInit
    PROVE  PartsInv'
  <1>1. CallStep(<<WriteInit>>) /\ SetInit /\ Next
    BY DEF TakeInit, CallStep, Next
  <1>2. RecordingInv' /\ Tiled(store')
    BY <1>1, TakeInitKeeps, StaysTiled DEF PartsInv
  <1>3. PartFree(<<WriteInit>>)
    <2>1. \A w : DOMAIN <<w>> = {1} /\ <<w>>[1] = w
      OBVIOUS
    <2>2. WriteInit.name[1] # "part"
      BY PartNames DEF WriteInit, Write
    <2> QED BY <2>1, <2>2 DEF PartFree
  <1>4. Published(store') = Published(store)
    <2>1. store \in StoreRecord
      BY DEF PartsInv, RecordingInv, WholeInv, StoreInv, Sound
    <2>2. /\ store'.segments = store.segments /\ store'.currentSeg = store.currentSeg
          /\ store'.nextMSN = store.nextMSN
      BY <1>1, <2>1 DEF SetInit, StoreRecord
    <2> QED BY <2>2, SameView
  <1> QED BY <1>1, <1>2, <1>3, <1>4, CallBringsNothing

LEMMA TakeFragmentParts ==
    ASSUME PartsInv,
           NEW frag \in Fragment, NEW lost \in SUBSET Uses, TakeFragment(frag, lost)
    PROVE  PartsInv'
  <1> DEFINE n == Len(fragments')
             fed == Accumulate(store, n, frag, lost)
             ws == IF ReachesTarget(fed.currentPart)
                   THEN FinalizePartWrites(fed) ELSE <<>>
  <1>1. CallStep(ws) /\ AddFragment(frag, lost) /\ Next
    BY DEF TakeFragment, CallStep, Next
  <1>2. /\ Sound(store) /\ store \in StoreRecord /\ fragments \in Seq(Fragment)
        /\ Whole(store, Len(fragments)) /\ Len(fragments) \in Nat /\ StoreInv
        /\ Tiled(store)
    BY LenProperties DEF PartsInv, RecordingInv, WholeInv, StoreInv, Sound, TypeOK
  <1>3. n = Len(fragments) + 1 /\ n \in Nat
    BY <1>1, <1>2, AppendProperties DEF AddFragment
  <1>4. /\ Filled(fed) /\ Whole(fed, n) /\ fed.currentPart # NoPart /\ Tiled(fed)
    <2>1. n \in Nat /\ fed = Accumulate(store, Len(fragments) + 1, frag, lost)
      BY <1>3
    <2>2. Filled(fed)
      BY <1>2, <2>1, AccumulateSound
    <2>3. Whole(fed, n) /\ fed.currentPart # NoPart
      BY <1>2, <1>3, <2>1, AccumulateWhole
    <2>4. Tiled(fed)
      BY <1>2, <2>1, AccumulateTiled
    <2> QED BY <2>2, <2>3, <2>4
  <1>5. Published(fed) = Published(store)
    BY <1>2, <1>3, AccumulateGrows
  <1>6. store.currentSeg # NoSegment => fed.currentSeg = store.currentSeg
    BY <1>2, <1>3, AccumulateFields
  <1>7. store' = IF ReachesTarget(fed.currentPart)
                 THEN FinalizePart(fed).store ELSE fed
    BY <1>1 DEF AddFragment
  <1>8. owed = Nothing /\ UNCHANGED notifier
    BY <1>1 DEF AddFragment
  <1> HIDE DEF fed, n
  <1>9. Brings(ws, fed, store')
    <2>1. CASE ReachesTarget(fed.currentPart)
      BY <1>3, <1>4, <1>7, <2>1, FinalizePartBrings
    <2>2. CASE ~(ReachesTarget(fed.currentPart))
      <3>1. ws = <<>> /\ store' = fed
        BY <1>7, <2>2
      <3>2. PartFree(<<>>)
        BY DEF PartFree
      <3> QED BY <3>1, <3>2, BringsNothing
    <2> QED BY <2>1, <2>2
  <1> HIDE DEF ws
  <1>10. ~Announced(fed.currentSeg.msn, Len(fed.currentSeg.parts))
    BY <1>2, <1>6, <1>8, NextIsUnannounced
  <1>11. RecordingInv' /\ Tiled(store')
    BY <1>1, TakeFragmentKeeps, StaysTiled DEF PartsInv
  <1> QED BY <1>1, <1>5, <1>8, <1>9, <1>10, <1>11, CallBrings

LEMMA FinalizeParts ==
    ASSUME PartsInv, FinalizeSession
    PROVE  PartsInv'
  <1> DEFINE ws == FlushWrites(store)
             flushed == FlushSegment(FlushPart(store)).store
  <1>1. CallStep(ws) /\ Finalize /\ Next
    BY DEF FinalizeSession, CallStep, Next
  <1>2. /\ Sound(store) /\ store \in StoreRecord /\ StoreInv /\ Tiled(store)
        /\ Whole(store, Len(fragments)) /\ Len(fragments) \in Nat
    BY LenProperties DEF PartsInv, RecordingInv, WholeInv, StoreInv, Sound, TypeOK
  <1>3. /\ store' = [flushed EXCEPT !.ended = TRUE] /\ flushed \in StoreRecord
        /\ owed = Nothing /\ UNCHANGED notifier
    BY <1>1, <1>2, FlushType DEF Finalize
  <1>4. Brings(ws, store, flushed)
    BY <1>2, FlushBrings
  <1> HIDE DEF ws, flushed
  <1>5. Published(store') = Published(flushed)
    <2>1. /\ store'.segments = flushed.segments /\ store'.currentSeg = flushed.currentSeg
          /\ store'.nextMSN = flushed.nextMSN
      BY <1>3 DEF StoreRecord
    <2> QED BY <2>1, SameView
  <1>6. Brings(ws, store, store')
    BY <1>4, <1>5 DEF Brings
  <1>7. ~Announced(store.currentSeg.msn, Len(store.currentSeg.parts))
    BY <1>2, <1>3, NextIsUnannounced
  <1>8. RecordingInv' /\ Tiled(store')
    BY <1>1, FinalizeKeeps, StaysTiled DEF PartsInv
  <1> QED BY <1>1, <1>3, <1>6, <1>7, <1>8, CallBrings

LEMMA AnnounceParts ==
    ASSUME PartsInv, Announce
    PROVE  PartsInv'
  <1> DEFINE ws == IF store.ended THEN <<WriteList(TRUE)>> ELSE <<>>
  <1>1. CallStep(ws) /\ Next
    BY DEF Announce, CallStep, Next
  <1>2. store' = store
    BY DEF Announce, Broadcast, BroadcastEnded
  <1>3. PartFree(ws)
    <2>1. \A w : DOMAIN <<w>> = {1} /\ <<w>>[1] = w
      OBVIOUS
    <2>2. WriteList(TRUE).name[1] # "part"
      BY PartNames DEF WriteList, Write
    <2>3. PartFree(<<WriteList(TRUE)>>)
      BY <2>1, <2>2 DEF PartFree
    <2>4. PartFree(<<>>)
      BY DEF PartFree
    <2> QED BY <2>3, <2>4
  <1> HIDE DEF ws
  <1>4. RecordingInv' /\ Tiled(store')
    BY <1>1, AnnounceKeeps, StaysTiled DEF PartsInv
  <1> QED BY <1>1, <1>2, <1>3, <1>4, CallBringsNothing

LEMMA OpenSessionParts ==
    ASSUME PartsInv, OpenSession
    PROVE  PartsInv'
  <1>1. store' = NewStore /\ pending' = <<>>
    BY DEF OpenSession
  <1>2. Tiled(store')
    <2>1. Init' => TileInv'
      BY TileInvInit, PTL
    <2> QED BY <2>1 DEF OpenSession, Init, TileInv
  <1>3. \A p : p \notin Published(NewStore)
    <2>1. /\ NewStore.segments = <<>> /\ NewStore.currentSeg = NewSegment(-1)
      BY DEF NewStore, NoSegment
    <2>2. NewSegment(-1).parts = <<>>
      BY DEF NewSegment
    <2> QED BY <2>1, <2>2, PublishedBy DEF Shows
  <1>4. RecordingInv'
    BY OpenSessionKeeps DEF PartsInv
  <1> QED BY <1>1, <1>2, <1>3, <1>4 DEF PartsInv

\* Only the file of the write that was truncated changes; it is still owed.
LEMMA OpenFileParts ==
    ASSUME PartsInv, OpenFile
    PROVE  PartsInv'
  <1> DEFINE w == Head(pending)
  <1>1. /\ open /\ pending # <<>> /\ Put(w.name, Torn)
        /\ UNCHANGED <<vars, session, open, recording, pending, failed>>
    BY DEF OpenFile
  <1>2. w = pending[1] /\ 1 \in DOMAIN pending
    <2>1. pending \in Seq(WriteRecord)
      BY RecordingTypes DEF PartsInv, RecordingInv
    <2> QED BY <1>1, <2>1, EmptySeq, LenProperties, HeadTailProperties
  <1> HIDE DEF w
  <1>3. RecordingInv' /\ Tiled(store')
    <2>1. [Next]_vars
      BY <1>1
    <2> QED BY <2>1, OpenFileKeeps, StaysTiled DEF PartsInv
  <1>4. ASSUME recording', NEW p \in Published(store')
        PROVE  (OnDisk(p)' \/ Owed(p)') /\ OwedOnly(p)'
    <2>1. p \in Published(store) /\ recording
      BY <1>1, <1>4 DEF vars
    <2>2. (OnDisk(p) \/ Owed(p)) /\ OwedOnly(p)
      BY <1>1, <2>1 DEF PartsInv
    <2>3. OwedOnly(p)' /\ (Owed(p) => Owed(p)')
      BY <1>1, <2>2 DEF OwedOnly, Owed, Announced, vars
    <2>4. CASE w.name = PartName(p[1], p[2].idx)
      <3>1. Owed(p)
        BY <1>2, <2>2, <2>4 DEF OwedOnly, Owed
      <3> QED BY <2>3, <3>1
    <2>5. CASE w.name # PartName(p[1], p[2].idx)
      <3>1. OnDisk(p) => OnDisk(p)'
        BY <1>1, <2>5 DEF OnDisk, Intact, Put
      <3> QED BY <2>2, <2>3, <3>1
    <2> QED BY <2>4, <2>5
  <1> QED BY <1>3, <1>4 DEF PartsInv

LEMMA TailIs ==
    ASSUME NEW ws \in Seq(WriteRecord), ws # <<>>
    PROVE  /\ Head(ws) = ws[1] /\ 1 \in DOMAIN ws
           /\ \A i \in DOMAIN Tail(ws) : i + 1 \in DOMAIN ws /\ Tail(ws)[i] = ws[i + 1]
           /\ \A i \in DOMAIN ws : i # 1 => i - 1 \in DOMAIN Tail(ws) /\ Tail(ws)[i - 1] = ws[i]
  <1>1. /\ DOMAIN ws = 1 .. Len(ws) /\ Len(ws) \in Nat /\ Len(ws) # 0
    BY EmptySeq, LenProperties
  <1>2. /\ Head(ws) = ws[1] /\ Tail(ws) \in Seq(WriteRecord) /\ Len(Tail(ws)) = Len(ws) - 1
        /\ \A i \in 1 .. Len(Tail(ws)) : Tail(ws)[i] = ws[i + 1]
    BY HeadTailProperties
  <1>3. DOMAIN Tail(ws) = 1 .. Len(ws) - 1
    BY <1>2, LenProperties
  <1>4. \A i \in DOMAIN Tail(ws) : i + 1 \in DOMAIN ws /\ Tail(ws)[i] = ws[i + 1]
    BY <1>1, <1>2, <1>3
  <1>5. ASSUME NEW i \in DOMAIN ws, i # 1
        PROVE  i - 1 \in DOMAIN Tail(ws) /\ Tail(ws)[i - 1] = ws[i]
    <2>1. i - 1 \in 1 .. Len(Tail(ws)) /\ (i - 1) + 1 = i
      BY <1>1, <1>2, <1>5
    <2>2. Tail(ws)[i - 1] = ws[i]
      BY <1>2, <2>1
    <2> QED BY <1>2, <1>3, <2>1, <2>2
  <1> QED BY <1>1, <1>2, <1>4, <1>5

\* A write has returned: the part it was of is on disk, or failed.
LEMMA ReturnsParts ==
    ASSUME PartsInv, open, pending # <<>>, Returns(Head(pending)), RecordingInv',
           UNCHANGED <<vars, open, recording>>,
           \A p : OnDisk(p) /\ PartName(p[1], p[2].idx) # Head(pending).name => OnDisk(p)',
           \A p : p[2].msn = p[1] /\ Head(pending) = WritePart(p[2]) => OnDisk(p)'
    PROVE  PartsInv'
  <1>1. pending \in Seq(WriteRecord) /\ pending' = Tail(pending)
    BY RecordingTypes DEF PartsInv, RecordingInv, Returns
  <1>2. /\ Head(pending) = pending[1] /\ 1 \in DOMAIN pending
        /\ \A i \in DOMAIN pending' : i + 1 \in DOMAIN pending /\ pending'[i] = pending[i + 1]
        /\ \A i \in DOMAIN pending : i # 1 =>
              i - 1 \in DOMAIN pending' /\ pending'[i - 1] = pending[i]
    BY <1>1, TailIs
  <1>3. Tiled(store')
    BY DEF PartsInv, vars
  <1>4. ASSUME recording', NEW p \in Published(store')
        PROVE  (OnDisk(p)' \/ Owed(p)') /\ OwedOnly(p)'
    <2>1. p \in Published(store) /\ recording
      BY <1>4 DEF vars
    <2>2. (OnDisk(p) \/ Owed(p)) /\ OwedOnly(p)
      BY <2>1 DEF PartsInv
    <2>3. p[2].msn = p[1]
      <3>1. Sound(store) /\ Tiled(store)
        BY DEF PartsInv, RecordingInv, WholeInv, StoreInv
      <3> QED BY <2>1, <3>1, Numbered
    <2>4. OwedOnly(p)'
      BY <1>2, <2>2 DEF OwedOnly, Announced, vars
    <2>5. OnDisk(p) => OnDisk(p)'
      <3>1. CASE PartName(p[1], p[2].idx) = Head(pending).name
        BY <1>2, <2>2, <2>3, <3>1 DEF OwedOnly
      <3> QED BY <3>1
    <2>6. Owed(p) => OnDisk(p)' \/ Owed(p)'
      <3>1. ASSUME NEW i \in DOMAIN pending, pending[i] = WritePart(p[2])
            PROVE  OnDisk(p)' \/ Owed(p)'
        <4>1. CASE i = 1
          BY <1>2, <2>3, <3>1, <4>1
        <4>2. CASE i # 1
          BY <1>2, <3>1, <4>2 DEF Owed
        <4> QED BY <4>1, <4>2
      <3> QED BY <3>1 DEF Owed
    <2> QED BY <2>2, <2>4, <2>5, <2>6
  <1> QED BY <1>3, <1>4 DEF PartsInv

LEMMA FillFileParts ==
    ASSUME PartsInv, FillFile
    PROVE  PartsInv'
  <1> DEFINE w == Head(pending)
  <1>1. /\ open /\ pending # <<>> /\ Put(w.name, Contents(w)) /\ Returns(w)
        /\ UNCHANGED <<vars, session, open, recording, failed>>
    BY DEF FillFile, PartsInv, RecordingInv, RecordingTypeOK
  <1>2. RecordingInv'
    BY FillFileKeeps DEF PartsInv
  <1>3. ASSUME NEW p, OnDisk(p), PartName(p[1], p[2].idx) # w.name
        PROVE  OnDisk(p)'
    BY <1>1, <1>3 DEF OnDisk, Intact, Put
  <1>4. ASSUME NEW p, p[2].msn = p[1], w = WritePart(p[2])
        PROVE  OnDisk(p)'
    <2> DEFINE name == PartName(p[1], p[2].idx)
    <2>1. w.name = name /\ w.media = p[2].data
      BY <1>4 DEF WritePart, Write
    <2>2. name # PlaylistName
      BY PartNames
    <2> HIDE DEF w, name
    <2>3. name \in DOMAIN files' /\ files'[name] = File(TRUE, p[2].data, <<>>, FALSE)
      BY <1>1, <2>1, <2>2 DEF Put, Contents
    <2>4. /\ File(TRUE, p[2].data, <<>>, FALSE).whole
          /\ File(TRUE, p[2].data, <<>>, FALSE).session = session
          /\ File(TRUE, p[2].data, <<>>, FALSE).media = p[2].data
      BY DEF File
    <2>5. (files'[name]).whole /\ (files'[name]).session = session' /\ (files'[name]).media = p[2].data
      BY <1>1, <2>3, <2>4
    <2> QED BY <2>3, <2>5 DEF OnDisk, Intact, name
  <1> QED BY <1>1, <1>2, <1>3, <1>4, ReturnsParts

LEMMA FailToWriteParts ==
    ASSUME PartsInv, FailToWrite
    PROVE  PartsInv'
  <1> DEFINE w == Head(pending)
  <1>1. /\ open /\ pending # <<>> /\ Returns(w) /\ failed' = failed \cup {w.name}
        /\ UNCHANGED <<vars, session, open, recording, files>>
    BY DEF FailToWrite
  <1>2. RecordingInv'
    BY FailToWriteKeeps DEF PartsInv
  <1>3. ASSUME NEW p, OnDisk(p)
        PROVE  OnDisk(p)'
    BY <1>1, <1>3 DEF OnDisk, Intact
  <1>4. ASSUME NEW p, p[2].msn = p[1], w = WritePart(p[2])
        PROVE  OnDisk(p)'
    <2>1. w.name = PartName(p[1], p[2].idx)
      BY <1>4 DEF WritePart, Write
    <2> QED BY <1>1, <2>1 DEF OnDisk
  <1> QED BY <1>1, <1>2, <1>3, <1>4, ReturnsParts

LEMMA PartsInvInit == RecordingInit => PartsInv
  <1> SUFFICES ASSUME RecordingInit PROVE PartsInv
    OBVIOUS
  <1>1. RecordingInv
    BY RecordingInvInit
  <1>2. Tiled(store) /\ ~open
    BY TileInvInit DEF RecordingInit, TileInv
  <1> QED BY <1>1, <1>2 DEF PartsInv

LEMMA PartsInvNext == PartsInv /\ [RecordingNext]_recVars => PartsInv'
  <1> SUFFICES ASSUME PartsInv, [RecordingNext]_recVars PROVE PartsInv'
    OBVIOUS
  <1>1. CASE OpenSession
    BY <1>1, OpenSessionParts
  <1>2. CASE TakeInit
    BY <1>2, TakeInitParts
  <1>3. ASSUME NEW frag \in Fragment, NEW lost \in SUBSET Uses, TakeFragment(frag, lost)
        PROVE  PartsInv'
    BY <1>3, TakeFragmentParts
  <1>4. CASE FinalizeSession
    BY <1>4, FinalizeParts
  <1>5. CASE Announce
    BY <1>5, AnnounceParts
  <1>6. CASE OpenFile
    BY <1>6, OpenFileParts
  <1>7. CASE FillFile
    BY <1>7, FillFileParts
  <1>8. CASE FailToWrite
    BY <1>8, FailToWriteParts
  <1>9. CASE Stop
    <2>1. RecordingInv' /\ [Next]_vars /\ ~open'
      BY <1>9, StopKeeps DEF PartsInv, Stop
    <2> QED BY <2>1, StaysTiled DEF PartsInv
  <1>10. CASE UNCHANGED recVars
    <2>1. RecordingInv'
      BY RecordingInvNext DEF PartsInv
    <2>2. UNCHANGED <<vars, open, recording, pending, session, files, failed>>
      BY <1>10 DEF recVars, diskVars
    <2>3. \A p : /\ OnDisk(p) => OnDisk(p)'
                 /\ Owed(p) => Owed(p)'
                 /\ OwedOnly(p) => OwedOnly(p)'
      BY <2>2 DEF OnDisk, Intact, Owed, OwedOnly, Announced, vars
    <2> QED BY <2>1, <2>2, <2>3 DEF PartsInv, vars
  <1> QED BY <1>1, <1>2, <1>3, <1>4, <1>5, <1>6, <1>7, <1>8, <1>9, <1>10 DEF RecordingNext

(***************************************************************************)
(* A part that a client learnt of is served from disk as it was published, *)
(* whatever writes failed, however the sessions before it ended: s.mu is   *)
(* held until the part's file is written, and it is announced after that.  *)
(***************************************************************************)
THEOREM PartsOnDisk == RecordingSpec => []AvailableIsOnDisk
  <1>1. PartsInv => AvailableIsOnDisk
    <2> SUFFICES ASSUME PartsInv, open, recording, NEW p \in Published(store),
                        ~Locked \/ Announced(p[1], p[2].idx),
                        PartName(p[1], p[2].idx) \notin failed
                 PROVE  ServePartFromDisk(p[1], p[2].idx)
                            = [status |-> 200, from |-> session, media |-> p[2].data]
      BY DEF AvailableIsOnDisk
    <2> DEFINE name == PartName(p[1], p[2].idx)
    <2>1. (OnDisk(p) \/ Owed(p)) /\ OwedOnly(p) /\ p[2].msn = p[1]
      <3>1. Sound(store) /\ Tiled(store)
        BY DEF PartsInv, RecordingInv, WholeInv, StoreInv
      <3> QED BY <3>1, Numbered DEF PartsInv
    <2>2. ~Owed(p)
      <3> SUFFICES ASSUME NEW i \in DOMAIN pending, pending[i] = WritePart(p[2]) PROVE FALSE
        BY DEF Owed
      <3>1. pending[i].name = name
        BY <2>1 DEF WritePart, Write
      <3>2. ~Announced(p[1], p[2].idx)
        BY <2>1, <3>1 DEF OwedOnly
      <3>3. Locked
        BY <3>1, PartNames DEF Locked
      <3> QED BY <3>2, <3>3
    <2>3. /\ name \in DOMAIN files /\ files[name].session = session
          /\ files[name].media = p[2].data
      BY <2>1, <2>2 DEF OnDisk, Intact
    <2> QED BY <2>3 DEF ServePartFromDisk
  <1> QED BY <1>1, PartsInvInit, PartsInvNext, PTL DEF RecordingSpec
(***************************************************************************)
(* A session's store moves as module Store says, whatever the disk does:   *)
(* a step of this module is a step of the store, or of none, or opens the  *)
(* next session, whose store is a new one.                                 *)
(***************************************************************************)
THEOREM SessionsAreStreams == RecordingSpec => Init /\ [][Next \/ (OpenSession /\ Init')]_vars
  <1>1. RecordingInit => Init
    BY DEF RecordingInit
  <1>2. [RecordingNext]_recVars => [Next \/ (OpenSession /\ Init')]_vars
    <2> SUFFICES ASSUME [RecordingNext]_recVars PROVE [Next \/ (OpenSession /\ Init')]_vars
      OBVIOUS
    <2>1. CASE OpenSession
      BY <2>1 DEF OpenSession, Init
    <2>2. CASE \/ TakeInit
               \/ \E frag \in Fragment, lost \in SUBSET Uses : TakeFragment(frag, lost)
               \/ FinalizeSession
      BY <2>2 DEF TakeInit, TakeFragment, FinalizeSession, Next
    <2>3. CASE Announce
      BY <2>3 DEF Announce, Next
    <2>4. CASE OpenFile \/ FillFile \/ FailToWrite \/ Stop \/ UNCHANGED recVars
      BY <2>4 DEF OpenFile, FillFile, FailToWrite, Stop, recVars
    <2> QED BY <2>1, <2>2, <2>3, <2>4 DEF RecordingNext
  <1> QED BY <1>1, <1>2, PTL DEF RecordingSpec

=============================================================================

---------------------------- MODULE ParserProofs ----------------------------
(***************************************************************************)
(* The parser reads from a fragment what the muxer wrote in it, for any    *)
(* number of tracks, runs and samples, of any duration.                    *)
(*                                                                         *)
(* That takes induction over the samples.  The library states induction    *)
(* for a predicate; here it is stated for a set, and follows from the      *)
(* well-foundedness of strict inclusion on finite sets, which is also a    *)
(* statement about sets.                                                   *)
(***************************************************************************)
EXTENDS Segmenter, SequenceTheorems, FiniteSetTheorems, TLAPS

-----------------------------------------------------------------------------
(* Induction.                                                              *)

\* Of the intervals 0 .. n, n \in T, one has no other within it.
LEMMA LeastNumber ==
    ASSUME NEW T, T \subseteq Nat, T # {}
    PROVE  \E m \in T : \A k \in T : m <= k
  <1> DEFINE I == {0 .. n : n \in T}
  <1>1. I \subseteq FiniteSubsetsOf(Nat)
    <2>1. SUFFICES ASSUME NEW n \in T PROVE 0 .. n \in FiniteSubsetsOf(Nat)
      OBVIOUS
    <2>2. n \in Nat /\ 0 .. n \in SUBSET Nat
      OBVIOUS
    <2>3. IsFiniteSet(0 .. n)
      BY <2>2, FS_Interval
    <2> QED BY <2>2, <2>3 DEF FiniteSubsetsOf
  <1>2. I # {}
    OBVIOUS
  <1> HIDE DEF I
  <1>3. IsWellFoundedOn(StrictSubsetOrdering(Nat), FiniteSubsetsOf(Nat))
    BY FS_StrictSubsetOrderingWellFounded
  <1>4. PICK X \in I : \A Y \in I : ~ (<<Y, X>> \in StrictSubsetOrdering(Nat))
    BY <1>1, <1>2, <1>3, WFMin
  <1>5. PICK m \in T : X = 0 .. m
    BY <1>4 DEF I
  <1>6. ASSUME NEW k \in T, k < m PROVE FALSE
    <2>1. 0 .. k \in I
      BY DEF I
    <2>2. /\ 0 .. k \subseteq 0 .. m /\ m \in 0 .. m /\ m \notin 0 .. k
          /\ 0 .. k \in SUBSET Nat /\ 0 .. m \in SUBSET Nat
      BY <1>6
    <2>3. <<0 .. k, 0 .. m>> \in StrictSubsetOrdering(Nat)
      BY <2>2 DEF StrictSubsetOrdering
    <2> QED BY <2>1, <2>3, <1>4, <1>5
  <1> QED BY <1>6

LEMMA Induction ==
    ASSUME NEW S, 0 \in S, \A n \in Nat : n \in S => n + 1 \in S
    PROVE  Nat \subseteq S
  <1> DEFINE T == {n \in Nat : n \notin S}
  <1>1. SUFFICES ASSUME T # {} PROVE FALSE
    OBVIOUS
  <1>2. PICK m \in T : \A y \in T : m <= y
    BY <1>1, LeastNumber
  <1>3. m \in Nat /\ m # 0 /\ m - 1 \in Nat
    BY <1>2
  <1>4. m - 1 \notin T
    BY <1>2
  <1> QED BY <1>2, <1>3, <1>4

LEMMA GreatestNumber ==
    ASSUME NEW T, NEW n \in Nat, T \subseteq 0 .. n, T # {}
    PROVE  \E m \in T : \A k \in T : m >= k
  <1> DEFINE U == {n - k : k \in T}
  <1>1. U \subseteq Nat /\ U # {}
    <2>1. \A k \in T : k \in Nat /\ k <= n /\ n - k \in Nat
      OBVIOUS
    <2> QED BY <2>1
  <1>2. PICK u \in U : \A v \in U : u <= v
    BY <1>1, LeastNumber
  <1>3. PICK m \in T : u = n - m
    BY <1>2
  <1>4. ASSUME NEW k \in T PROVE m >= k
    <2>1. k \in 0 .. n /\ m \in 0 .. n
      OBVIOUS
    <2>2. n - k \in U
      OBVIOUS
    <2> HIDE DEF U
    <2>3. n - m <= n - k
      BY <2>2, <1>2, <1>3
    <2> QED BY <2>1, <2>3
  <1> QED BY <1>4

-----------------------------------------------------------------------------
(* Sums.                                                                   *)

\* The sums of the first n durations, for every n up to a limit.
Sums(f, durs, limit) ==
    f = [n \in 0 .. limit |-> IF n = 0 THEN 0 ELSE f[n - 1] + durs[n]]

LEMMA SumsExist ==
    ASSUME NEW durs \in Seq(Nat)
    PROVE  \E f : Sums(f, durs, Len(durs))
  <1> DEFINE S == {n \in Nat : \E f : Sums(f, durs, n)}
  <1>1. 0 \in S
    <2> DEFINE f == [n \in 0 .. 0 |-> 0]
    <2>1. f = [n \in 0 .. 0 |-> IF n = 0 THEN 0 ELSE f[n - 1] + durs[n]]
      OBVIOUS
    <2> QED BY <2>1 DEF Sums
  <1>2. ASSUME NEW n \in Nat, n \in S PROVE n + 1 \in S
    <2>1. PICK f : f = [k \in 0 .. n |-> IF k = 0 THEN 0 ELSE f[k - 1] + durs[k]]
      BY <1>2 DEF Sums
    <2> DEFINE g == [k \in 0 .. n + 1 |-> IF k = n + 1 THEN f[n] + durs[k] ELSE f[k]]
    <2>2. ASSUME NEW k \in 0 .. n + 1
          PROVE  g[k] = IF k = 0 THEN 0 ELSE g[k - 1] + durs[k]
      <3>1. CASE k = n + 1
        BY <3>1
      <3>2. CASE k # n + 1
        BY <3>2, <2>1
      <3> QED BY <3>1, <3>2
    <2>3. g = [k \in 0 .. n + 1 |-> IF k = 0 THEN 0 ELSE g[k - 1] + durs[k]]
      BY <2>2
    <2> HIDE DEF g
    <2>4. Sums(g, durs, n + 1)
      BY <2>3 DEF Sums
    <2> QED BY <2>4
  <1>3. Nat \subseteq S
    <2> HIDE DEF S
    <2> QED BY <1>1, <1>2, Induction
  <1>4. Len(durs) \in S
    BY <1>3
  <1> QED BY <1>4

\* A function that starts at 0 and grows by the durations gives their sum.
LEMMA AddedBy ==
    ASSUME NEW durs \in Seq(Nat), NEW g, g[0] = 0,
           \A n \in 1 .. Len(durs) : g[n] = g[n - 1] + durs[n]
    PROVE  Added(durs) = g[Len(durs)]
  <1> DEFINE len == Len(durs)
             upto == CHOOSE f : Sums(f, durs, len)
  <1>1. Sums(upto, durs, len)
    BY SumsExist
  <1>2. Added(durs) = upto[len]
    BY DEF Added, Sums
  <1>3. len \in Nat
    OBVIOUS
  <1> HIDE DEF upto, len
  <1> DEFINE S == {n \in Nat : n <= len => upto[n] = g[n]}
  <1>4. 0 \in S
    BY <1>1, <1>3 DEF Sums
  <1>5. ASSUME NEW n \in Nat, n \in S PROVE n + 1 \in S
    <2>1. CASE n + 1 <= len
      <3>1. n + 1 \in 0 .. len /\ n + 1 # 0 /\ (n + 1) - 1 = n /\ n + 1 \in 1 .. len
        BY <2>1, <1>3
      <3>2. upto[n + 1] = upto[n] + durs[n + 1]
        BY <3>1, <1>1 DEF Sums
      <3>3. g[n + 1] = g[n] + durs[n + 1]
        BY <3>1 DEF len
      <3> QED BY <3>2, <3>3, <1>3, <1>5, <2>1
    <2> QED BY <2>1, <1>3
  <1>6. Nat \subseteq S
    <2> HIDE DEF S
    <2> QED BY <1>4, <1>5, Induction
  <1> QED BY <1>2, <1>3, <1>6 DEF len

LEMMA AddedType ==
    ASSUME NEW durs \in Seq(Nat)
    PROVE  \E f : /\ f[0] = 0 /\ \A n \in 0 .. Len(durs) : f[n] \in Nat
                  /\ \A n \in 1 .. Len(durs) : f[n] = f[n - 1] + durs[n]
                  /\ Added(durs) = f[Len(durs)] /\ Added(durs) \in Nat
  <1> DEFINE len == Len(durs)
  <1>1. PICK f : Sums(f, durs, len)
    BY SumsExist
  <1>2. len \in Nat /\ \A n \in 1 .. len : durs[n] \in Nat
    OBVIOUS
  <1>3. f[0] = 0 /\ \A n \in 1 .. len : f[n] = f[n - 1] + durs[n]
    BY <1>1, <1>2 DEF Sums
  <1>4. Added(durs) = f[len]
    BY <1>3, AddedBy
  <1> HIDE DEF len
  <1> DEFINE S == {n \in Nat : n <= len => f[n] \in Nat}
  <1>5. 0 \in S
    BY <1>3
  <1>6. ASSUME NEW n \in Nat, n \in S PROVE n + 1 \in S
    <2>1. CASE n + 1 <= len
      <3>1. n + 1 \in 1 .. len /\ (n + 1) - 1 = n
        BY <2>1, <1>2
      <3>2. f[n + 1] = f[n] + durs[n + 1]
        BY <3>1, <1>3
      <3> QED BY <3>1, <3>2, <1>2, <1>6, <2>1
    <2> QED BY <2>1, <1>2
  <1>7. Nat \subseteq S
    <2> HIDE DEF S
    <2> QED BY <1>5, <1>6, Induction
  <1>8. \A n \in 0 .. len : f[n] \in Nat
    BY <1>2, <1>7
  <1> QED BY <1>2, <1>3, <1>4, <1>8 DEF len

LEMMA AddedNothing ==
    ASSUME NEW durs \in Seq(Nat), \A n \in 1 .. Len(durs) : durs[n] = 0
    PROVE  Added(durs) = 0
  <1> DEFINE g == [n \in Nat |-> 0]
  <1>1. g[0] = 0 /\ \A n \in 1 .. Len(durs) : g[n] = g[n - 1] + durs[n]
    OBVIOUS
  <1>2. Len(durs) \in Nat /\ g[Len(durs)] = 0
    OBVIOUS
  <1> HIDE DEF g
  <1> QED BY <1>1, <1>2, AddedBy

LEMMA AddedEqual ==
    ASSUME NEW durs \in Seq(Nat), NEW c \in Nat, \A n \in 1 .. Len(durs) : durs[n] = c
    PROVE  Added(durs) = c * Len(durs)
  <1> DEFINE g == [n \in Nat |-> c * n]
  <1>1. g[0] = 0 /\ \A n \in 1 .. Len(durs) : g[n] = g[n - 1] + durs[n]
    <2>1. ASSUME NEW n \in 1 .. Len(durs) PROVE g[n] = g[n - 1] + durs[n]
      <3>1. n \in Nat /\ n - 1 \in Nat /\ durs[n] = c
        OBVIOUS
      <3>2. c * n = c * (n - 1) + c
        BY <3>1
      <3> QED BY <3>1, <3>2
    <2>2. g[0] = 0
      OBVIOUS
    <2> HIDE DEF g
    <2> QED BY <2>1, <2>2
  <1>2. Len(durs) \in Nat /\ g[Len(durs)] = c * Len(durs)
    OBVIOUS
  <1> HIDE DEF g
  <1> QED BY <1>1, <1>2, AddedBy

LEMMA AddedAtLeast ==
    ASSUME NEW durs \in Seq(Nat), NEW c \in Nat, \A n \in 1 .. Len(durs) : durs[n] >= c
    PROVE  Added(durs) \in Nat /\ Added(durs) >= c * Len(durs)
  <1> DEFINE len == Len(durs)
  <1>1. PICK f : /\ f[0] = 0 /\ \A n \in 1 .. len : f[n] = f[n - 1] + durs[n]
                 /\ \A n \in 0 .. len : f[n] \in Nat
                 /\ Added(durs) = f[len] /\ Added(durs) \in Nat
    BY AddedType
  <1>2. len \in Nat /\ \A n \in 1 .. len : durs[n] \in Nat /\ durs[n] >= c
    OBVIOUS
  <1> HIDE DEF len
  <1> DEFINE S == {n \in Nat : n <= len => f[n] >= c * n}
  <1>3. 0 \in S
    BY <1>1
  <1>4. ASSUME NEW n \in Nat, n \in S PROVE n + 1 \in S
    <2>1. CASE n + 1 <= len
      <3>1. n + 1 \in 1 .. len /\ (n + 1) - 1 = n /\ n \in 0 .. len /\ n <= len
        BY <2>1, <1>2
      <3>2. f[n + 1] = f[n] + durs[n + 1] /\ f[n] \in Nat /\ f[n] >= c * n
        BY <3>1, <1>1, <1>4
      <3>3. c * (n + 1) = c * n + c /\ c * n \in Nat
        OBVIOUS
      <3>4. durs[n + 1] \in Nat /\ durs[n + 1] >= c
        BY <3>1, <1>2
      <3>5. f[n + 1] >= c * (n + 1)
        BY <3>2, <3>3, <3>4
      <3> QED BY <3>5
    <2>2. CASE ~(n + 1 <= len)
      BY <2>2
    <2> QED BY <2>1, <2>2
  <1>5. Nat \subseteq S
    <2> HIDE DEF S
    <2> QED BY <1>3, <1>4, Induction
  <1> QED BY <1>1, <1>2, <1>5 DEF len

\* Two boxes without a duration come first in a traf.
LEMMA AddedLater ==
    ASSUME NEW durs \in Seq(Nat), NEW all \in Seq(Nat), Len(all) = Len(durs) + 2,
           all[1] = 0, all[2] = 0, \A n \in 1 .. Len(durs) : all[n + 2] = durs[n]
    PROVE  Added(all) = Added(durs)
  <1> DEFINE len == Len(durs)
  <1>1. PICK f : /\ f[0] = 0 /\ \A n \in 1 .. len : f[n] = f[n - 1] + durs[n]
                 /\ \A n \in 0 .. len : f[n] \in Nat
                 /\ Added(durs) = f[len]
    BY AddedType
  <1>2. len \in Nat
    OBVIOUS
  <1> DEFINE g == [n \in Nat |-> IF n < 2 THEN 0 ELSE f[n - 2]]
  <1>3. g[0] = 0
    OBVIOUS
  <1>4. ASSUME NEW n \in 1 .. Len(all) PROVE g[n] = g[n - 1] + all[n]
    <2>1. CASE n = 1
      BY <2>1
    <2>2. CASE n = 2
      <3>1. g[2] = f[0] /\ g[1] = 0
        OBVIOUS
      <3> HIDE DEF g
      <3> QED BY <2>2, <3>1, <1>1
    <2>3. CASE n > 2
      <3>1. n - 2 \in 1 .. len /\ (n - 2) + 2 = n /\ (n - 2) - 1 = (n - 1) - 2 /\ n - 1 >= 2
        BY <2>3, <1>2
      <3>2. all[n] = durs[n - 2]
        BY <3>1
      <3>3. f[n - 2] = f[(n - 1) - 2] + durs[n - 2]
        BY <3>1, <1>1
      <3>4. g[n] = f[n - 2] /\ g[n - 1] = f[(n - 1) - 2]
        BY <3>1, <2>3
      <3> QED BY <3>2, <3>3, <3>4
    <2>4. n = 1 \/ n = 2 \/ n > 2
      OBVIOUS
    <2> QED BY <2>1, <2>2, <2>3, <2>4, Zenon
  <1>5. len + 2 \in Nat /\ g[len + 2] = f[len]
    <2>1. len + 2 \in Nat /\ ~(len + 2 < 2) /\ (len + 2) - 2 = len
      BY <1>2
    <2> QED BY <2>1
  <1> HIDE DEF g
  <1>6. Added(all) = g[Len(all)]
    BY <1>3, <1>4, AddedBy
  <1> QED BY <1>1, <1>5, <1>6

-----------------------------------------------------------------------------
(* What the muxer writes of a run.                                         *)

Samples == [dur : Nat, sync : BOOLEAN]

LEMMA Joined ==
    ASSUME NEW a \in Seq(Nat), NEW b \in Seq(Nat)
    PROVE  /\ a \o b \in Seq(Nat) /\ Len(a \o b) = Len(a) + Len(b)
           /\ \A i \in 1 .. Len(a) : (a \o b)[i] = a[i]
           /\ \A i \in 1 .. Len(b) : (a \o b)[Len(a) + i] = b[i]
  OBVIOUS

LEMMA JoinedFirst ==
    ASSUME NEW a \in Seq(Nat), NEW b \in Seq(Nat), Len(a) >= 1
    PROVE  (a \o b)[1] = a[1]
  OBVIOUS

LEMMA FlagsWordIs ==
    ASSUME NEW s \in Samples
    PROVE  FlagsWord(s) \in Nat /\ IsSync(FlagsWord(s)) = s.sync
  <1>1. s.sync \in BOOLEAN
    BY DEF Samples
  <1>2. CASE s.sync
    <2>1. FlagsWord(s) = 33554432
      BY <1>2, SMT DEF FlagsWord
    <2>2. (33554432 \div 65536) % 2 = 0
      BY SMT
    <2>3. IsSync(FlagsWord(s)) = TRUE
      BY <2>1, <2>2, SMT DEF IsSync
    <2>4. FlagsWord(s) \in Nat
      BY <2>1, SMT
    <2> QED BY <1>1, <1>2, <2>3, <2>4
  <1>3. CASE ~s.sync
    <2>1. FlagsWord(s) = 16842752
      BY <1>3, SMT DEF FlagsWord
    <2>2. (16842752 \div 65536) % 2 # 0
      BY SMT
    <2>3. IsSync(FlagsWord(s)) = FALSE
      BY <2>1, <2>2, SMT DEF IsSync
    <2>4. FlagsWord(s) \in Nat
      BY <2>1, SMT
    <2> QED BY <1>1, <1>3, <2>3, <2>4
  <1> QED BY <1>2, <1>3

\* The words of an entry: one for each field.
Width(track) == One(track.trun, "duration") + One(track.trun, "size")
                    + One(track.trun, "flags") + One(track.trun, "cts")

LEMMA EntryIs ==
    ASSUME NEW track, NEW s \in Samples
    PROVE  /\ Entry(track, s) \in Seq(Nat) /\ Len(Entry(track, s)) = Width(track)
           /\ Width(track) \in Nat
           /\ "duration" \in track.trun => Width(track) >= 1 /\ Entry(track, s)[1] = s.dur
  <1> DEFINE a == If("duration" \in track.trun, <<s.dur>>)
             b == If("size" \in track.trun, <<SizeWord>>)
             c == If("flags" \in track.trun, <<FlagsWord(s)>>)
             d == If("cts" \in track.trun, <<CompositionWord>>)
  <1>1. s.dur \in Nat /\ FlagsWord(s) \in Nat /\ SizeWord \in Nat /\ CompositionWord \in Nat
    BY FlagsWordIs DEF Samples, SizeWord, CompositionWord
  <1>2. /\ a \in Seq(Nat) /\ Len(a) = One(track.trun, "duration")
        /\ "duration" \in track.trun => Len(a) = 1 /\ a[1] = s.dur
        /\ Len(a) \in Nat
    BY <1>1 DEF If, One
  <1>3. b \in Seq(Nat) /\ Len(b) = One(track.trun, "size") /\ Len(b) \in Nat
    BY <1>1 DEF If, One
  <1>4. c \in Seq(Nat) /\ Len(c) = One(track.trun, "flags") /\ Len(c) \in Nat
    BY <1>1 DEF If, One
  <1>5. d \in Seq(Nat) /\ Len(d) = One(track.trun, "cts") /\ Len(d) \in Nat
    BY <1>1 DEF If, One
  <1>6. Entry(track, s) = a \o b \o c \o d
    BY DEF Entry
  <1> HIDE DEF a, b, c, d
  <1>7. a \o b \in Seq(Nat) /\ Len(a \o b) = Len(a) + Len(b)
    BY <1>2, <1>3, Joined
  <1>8. Len(a) = 1 => (a \o b)[1] = a[1]
    BY <1>2, <1>3, JoinedFirst
  <1> DEFINE ab == a \o b
  <1> HIDE DEF ab
  <1>9. ab \o c \in Seq(Nat) /\ Len(ab \o c) = Len(ab) + Len(c)
    BY <1>4, <1>7, Joined DEF ab
  <1>10. Len(ab) >= 1 => (ab \o c)[1] = ab[1]
    BY <1>4, <1>7, JoinedFirst DEF ab
  <1> DEFINE abc == ab \o c
  <1> HIDE DEF abc
  <1>11. abc \o d \in Seq(Nat) /\ Len(abc \o d) = Len(abc) + Len(d)
    BY <1>5, <1>9, Joined DEF abc
  <1>12. Len(abc) >= 1 => (abc \o d)[1] = abc[1]
    BY <1>5, <1>9, JoinedFirst DEF abc
  <1>13. Entry(track, s) = abc \o d
    BY <1>6 DEF ab, abc
  <1>14. /\ Len(ab) = Len(a) + Len(b) /\ Len(abc) = Len(ab) + Len(c)
         /\ Len(a) = 1 => ab[1] = a[1]
         /\ Len(ab) >= 1 => abc[1] = ab[1]
    BY <1>7, <1>8, <1>9, <1>10 DEF ab, abc
  <1>15. Width(track) = Len(a) + Len(b) + Len(c) + Len(d)
    BY <1>2, <1>3, <1>4, <1>5 DEF Width
  <1> HIDE DEF Width
  <1>16. Width(track) \in Nat /\ Len(abc \o d) = Width(track)
    BY <1>2, <1>3, <1>4, <1>5, <1>11, <1>14, <1>15
  <1>17. ASSUME "duration" \in track.trun
         PROVE  Width(track) >= 1 /\ (abc \o d)[1] = s.dur
    BY <1>2, <1>3, <1>4, <1>5, <1>12, <1>14, <1>15, <1>17
  <1> QED BY <1>11, <1>13, <1>16, <1>17

\* The entries of the first n samples, for every n up to a limit.
Lists(f, track, run, limit) ==
    f = [n \in 0 .. limit |-> IF n = 0 THEN <<>> ELSE f[n - 1] \o Entry(track, run[n])]

LEMMA ListsExist ==
    ASSUME NEW track, NEW run \in Seq(Samples)
    PROVE  \E f : Lists(f, track, run, Len(run))
  <1> DEFINE S == {n \in Nat : \E f : Lists(f, track, run, n)}
  <1>1. 0 \in S
    <2> DEFINE f == [n \in 0 .. 0 |-> <<>>]
    <2>1. f = [n \in 0 .. 0 |-> IF n = 0 THEN <<>> ELSE f[n - 1] \o Entry(track, run[n])]
      OBVIOUS
    <2> QED BY <2>1 DEF Lists
  <1>2. ASSUME NEW n \in Nat, n \in S PROVE n + 1 \in S
    <2>1. PICK f : f = [k \in 0 .. n |-> IF k = 0 THEN <<>>
                                         ELSE f[k - 1] \o Entry(track, run[k])]
      BY <1>2 DEF Lists
    <2> DEFINE g == [k \in 0 .. n + 1 |-> IF k = n + 1 THEN f[n] \o Entry(track, run[k])
                                          ELSE f[k]]
    <2>2. ASSUME NEW k \in 0 .. n + 1
          PROVE  g[k] = IF k = 0 THEN <<>> ELSE g[k - 1] \o Entry(track, run[k])
      <3>1. CASE k = n + 1
        BY <3>1
      <3>2. CASE k # n + 1
        BY <3>2, <2>1
      <3> QED BY <3>1, <3>2
    <2>3. g = [k \in 0 .. n + 1 |-> IF k = 0 THEN <<>>
                                    ELSE g[k - 1] \o Entry(track, run[k])]
      BY <2>2
    <2> HIDE DEF g
    <2>4. Lists(g, track, run, n + 1)
      BY <2>3 DEF Lists
    <2> QED BY <2>4
  <1>3. Nat \subseteq S
    <2> HIDE DEF S
    <2> QED BY <1>1, <1>2, Induction
  <1>4. Len(run) \in S
    BY <1>3
  <1> QED BY <1>4

LEMMA PlaceWithin ==
    ASSUME NEW w \in Nat, w >= 1, NEW n \in Nat, NEW k \in 1 .. n
    PROVE  (k - 1) * w + 1 \in 1 .. n * w
  <1>1. (k - 1) * w <= (n - 1) * w /\ (k - 1) * w \in Nat
    OBVIOUS
  <1>2. (n - 1) * w + w = n * w
    OBVIOUS
  <1>3. n * w \in Nat /\ (n - 1) * w \in Nat
    OBVIOUS
  <1> QED BY <1>1, <1>2, <1>3

\* Entries are of one size, and the first word of each is the duration, if
\* entries have one.
LEMMA EntriesAre ==
    ASSUME NEW track, NEW run \in Seq(Samples)
    PROVE  /\ Entries(track, run) \in Seq(Nat)
           /\ Len(Entries(track, run)) = Len(run) * Width(track)
           /\ "duration" \in track.trun =>
                 /\ Width(track) >= 1
                 /\ \A k \in 1 .. Len(run) :
                       Entries(track, run)[(k - 1) * Width(track) + 1] = run[k].dur
  <1> DEFINE len == Len(run)
             w == Width(track)
             timed == "duration" \in track.trun
             upto == CHOOSE f : Lists(f, track, run, len)
  <1>1. Lists(upto, track, run, len)
    BY ListsExist
  <1>2. Entries(track, run) = upto[len]
    BY DEF Entries, Lists
  <1>3. len \in Nat /\ \A n \in 1 .. len : run[n] \in Samples
    OBVIOUS
  <1>4. upto[0] = <<>> /\ \A n \in 1 .. len : upto[n] = upto[n - 1] \o Entry(track, run[n])
    <2> HIDE DEF upto, len
    <2>1. upto = [n \in 0 .. len |-> IF n = 0 THEN <<>> ELSE upto[n - 1] \o Entry(track, run[n])]
      BY <1>1 DEF Lists
    <2>2. \A n \in 0 .. len :
              upto[n] = IF n = 0 THEN <<>> ELSE upto[n - 1] \o Entry(track, run[n])
      BY <2>1
    <2>3. upto[0] = <<>>
      <3>1. 0 \in 0 .. len
        BY <1>3
      <3> QED BY <3>1, <2>2, Zenon
    <2>4. ASSUME NEW n \in 1 .. len
          PROVE  upto[n] = upto[n - 1] \o Entry(track, run[n])
      <3>1. n \in 0 .. len /\ n # 0
        BY <1>3
      <3> QED BY <3>1, <2>2, Zenon
    <2> QED BY <2>3, <2>4
  <1>5. \A n \in 1 .. len :
            /\ Entry(track, run[n]) \in Seq(Nat) /\ Len(Entry(track, run[n])) = w
            /\ timed => w >= 1 /\ Entry(track, run[n])[1] = run[n].dur
    BY <1>3, EntryIs
  <1>6. w \in Nat /\ (timed => w >= 1)
    BY DEF Width, One
  <1> HIDE DEF upto, len, w
  <1> DEFINE Good(n) == /\ upto[n] \in Seq(Nat) /\ Len(upto[n]) = n * w
                        /\ timed => \A k \in 1 .. n : upto[n][(k - 1) * w + 1] = run[k].dur
             S == {n \in Nat : n <= len => Good(n)}
  <1>7. 0 \in S
    <2>1. upto[0] \in Seq(Nat) /\ Len(upto[0]) = 0 /\ 0 * w = 0
      BY <1>4, <1>6
    <2> QED BY <2>1
  <1>8. ASSUME NEW n \in Nat, n \in S PROVE n + 1 \in S
    <2>1. SUFFICES ASSUME n + 1 <= len PROVE Good(n + 1)
      OBVIOUS
    <2>2. n + 1 \in 1 .. len /\ (n + 1) - 1 = n /\ n <= len
      BY <2>1, <1>3
    <2>3. Good(n)
      BY <1>8, <2>2
    <2> DEFINE a == upto[n]
               b == Entry(track, run[n + 1])
    <2>4. upto[n + 1] = a \o b
      BY <2>2, <1>4
    <2>5. /\ a \in Seq(Nat) /\ Len(a) = n * w
          /\ timed => \A k \in 1 .. n : a[(k - 1) * w + 1] = run[k].dur
      BY <2>3
    <2>6. /\ b \in Seq(Nat) /\ Len(b) = w
          /\ timed => w >= 1 /\ b[1] = run[n + 1].dur
      BY <2>2, <1>5
    <2> HIDE DEF a, b
    <2>7. /\ a \o b \in Seq(Nat) /\ Len(a \o b) = n * w + w
          /\ \A i \in 1 .. n * w : (a \o b)[i] = a[i]
          /\ \A i \in 1 .. w : (a \o b)[n * w + i] = b[i]
      <3>1. /\ a \o b \in Seq(Nat) /\ Len(a \o b) = Len(a) + Len(b)
            /\ \A i \in 1 .. Len(a) : (a \o b)[i] = a[i]
            /\ \A i \in 1 .. Len(b) : (a \o b)[Len(a) + i] = b[i]
        BY <2>5, <2>6, Joined
      <3> QED BY <3>1, <2>5, <2>6
    <2>8. n * w + w = (n + 1) * w
      BY <1>6
    <2>9. ASSUME timed, NEW k \in 1 .. n + 1 PROVE (a \o b)[(k - 1) * w + 1] = run[k].dur
      <3>1. CASE k = n + 1
        <4>1. (k - 1) * w + 1 = n * w + 1 /\ 1 \in 1 .. w
          BY <3>1, <2>9, <1>6
        <4> QED BY <4>1, <3>1, <2>6, <2>7, <2>9
      <3>2. CASE k # n + 1
        <4>1. k \in 1 .. n
          BY <3>2
        <4>2. (k - 1) * w + 1 \in 1 .. n * w
          BY <4>1, <2>9, <1>6, PlaceWithin
        <4> QED BY <4>1, <4>2, <2>5, <2>7, <2>9
      <3> QED BY <3>1, <3>2
    <2> QED BY <2>4, <2>7, <2>8, <2>9
  <1>9. Nat \subseteq S
    <2> HIDE DEF S
    <2> QED BY <1>7, <1>8, Induction
  <1>10. Good(len)
    BY <1>3, <1>9
  <1> QED BY <1>2, <1>6, <1>10 DEF len, w

LEMMA TrunWords ==
    ASSUME NEW track, NEW run \in Seq(Samples), run # <<>>
    PROVE  LET words == Trun(track, run).body.words
               before == 1 + One(track.trun, "offset") + One(track.trun, "first")
               entries == Entries(track, run)
           IN  /\ words \in Seq(Nat) /\ Len(words) = before + Len(entries)
               /\ words[1] = Len(run)
               /\ "first" \in track.trun => words[before] = FlagsWord(run[1])
               /\ \A j \in 1 .. Len(entries) : words[before + j] = entries[j]
  <1> DEFINE a == <<Len(run)>>
             b == If("offset" \in track.trun, <<OffsetWord>>)
             c == If("first" \in track.trun, <<FlagsWord(run[1])>>)
             d == Entries(track, run)
             o == One(track.trun, "offset")
             f == One(track.trun, "first")
             words == Trun(track, run).body.words
  <1>1. Len(run) \in Nat /\ run[1] \in Samples
    OBVIOUS
  <1>2. FlagsWord(run[1]) \in Nat /\ OffsetWord \in Nat
    BY <1>1, FlagsWordIs DEF OffsetWord
  <1>3. a \in Seq(Nat) /\ Len(a) = 1 /\ a[1] = Len(run)
    BY <1>1
  <1>4. b \in Seq(Nat) /\ Len(b) = o /\ o \in {0, 1}
    BY <1>2 DEF If, One
  <1>5. /\ c \in Seq(Nat) /\ Len(c) = f /\ f \in {0, 1}
        /\ "first" \in track.trun => f = 1 /\ c[1] = FlagsWord(run[1])
    BY <1>2 DEF If, One
  <1>6. d \in Seq(Nat) /\ Len(d) \in Nat
    BY EntriesAre
  <1>7. words = a \o b \o c \o d
    BY DEF Trun, Box
  <1> HIDE DEF a, b, c, d, o, f, words
  <1> DEFINE ab == a \o b
             abc == ab \o c
  <1>8. ab \in Seq(Nat) /\ Len(ab) = 1 + o /\ ab[1] = Len(run)
    <2>1. ab \in Seq(Nat) /\ Len(ab) = Len(a) + Len(b)
      BY <1>3, <1>4, Joined
    <2>2. Len(a) >= 1
      BY <1>3
    <2>3. ab[1] = a[1]
      BY <1>3, <1>4, <2>2, JoinedFirst
    <2> QED BY <1>3, <1>4, <2>1, <2>3
  <1> HIDE DEF ab
  <1>9. /\ abc \in Seq(Nat) /\ Len(abc) = 1 + o + f /\ abc[1] = Len(run)
        /\ \A i \in 1 .. f : abc[1 + o + i] = c[i]
    <2>1. Len(ab) >= 1
      BY <1>4, <1>8
    <2>2. /\ abc \in Seq(Nat) /\ Len(abc) = Len(ab) + Len(c)
          /\ \A i \in 1 .. Len(c) : abc[Len(ab) + i] = c[i]
      BY <1>5, <1>8, Joined
    <2>3. abc[1] = ab[1]
      BY <1>5, <1>8, <2>1, JoinedFirst
    <2> QED BY <1>5, <1>8, <2>2, <2>3
  <1>10. words = abc \o d
    BY <1>7 DEF ab
  <1> HIDE DEF abc
  <1>11. /\ words \in Seq(Nat) /\ Len(words) = Len(abc) + Len(d)
         /\ \A i \in 1 .. Len(abc) : words[i] = abc[i]
         /\ \A i \in 1 .. Len(d) : words[Len(abc) + i] = d[i]
    BY <1>6, <1>9, <1>10, Joined
  <1>12. 1 \in 1 .. Len(abc) /\ ("first" \in track.trun => 1 + o + f \in 1 .. Len(abc))
    BY <1>4, <1>5, <1>9
  <1>13. "first" \in track.trun => words[1 + o + f] = FlagsWord(run[1])
    BY <1>4, <1>5, <1>9, <1>11, <1>12
  <1> QED BY <1>9, <1>11, <1>12, <1>13 DEF d, o, f, words

\* A run is read as it was written, if the entries have no composition offset
\* of version 1 and what they leave out is in the defaults.
LEMMA TrunRead ==
    ASSUME NEW track, NEW run \in Seq(Samples), run # <<>>, NEW defaults,
           "duration" \in track.trun => ~("cts" \in track.trun /\ track.version = 1),
           "duration" \notin track.trun =>
               defaults.dur \in Nat /\ \A i \in DOMAIN run : run[i].dur = defaults.dur,
           "first" \notin track.trun => IsSync(defaults.flags) = run[1].sync
    PROVE  /\ ParseTrun(Trun(track, run).body, defaults) = Read(Lasts(run), run[1].sync)
           /\ Lasts(run) \in Nat
  <1> DEFINE trun == Trun(track, run).body
             words == trun.words
             entries == Entries(track, run)
             o == One(track.trun, "offset")
             f == One(track.trun, "first")
             w == Width(track)
             durs == [i \in DOMAIN run |-> run[i].dur]
             at(i) == 2 + o + f + (i - 1) * EntrySize(trun)
             read == [i \in 1 .. words[1] |-> IF at(i) <= Len(words) THEN words[at(i)] ELSE 0]
  <1>1. /\ trun.flags = track.trun /\ trun.version = track.version
    BY DEF Trun, Box
  <1>2. /\ words \in Seq(Nat) /\ Len(words) = 1 + o + f + Len(entries)
        /\ words[1] = Len(run)
        /\ "first" \in track.trun => words[1 + o + f] = FlagsWord(run[1])
        /\ \A j \in 1 .. Len(entries) : words[1 + o + f + j] = entries[j]
    BY TrunWords
  <1>3. /\ entries \in Seq(Nat) /\ Len(entries) = Len(run) * w
        /\ "duration" \in track.trun =>
              w >= 1 /\ \A k \in 1 .. Len(run) : entries[(k - 1) * w + 1] = run[k].dur
    BY EntriesAre
  <1>4. /\ Len(run) \in Nat \ {0} /\ DOMAIN run = 1 .. Len(run) /\ run[1] \in Samples
        /\ \A i \in DOMAIN run : run[i].dur \in Nat
    <2>1. /\ Len(run) \in Nat \ {0} /\ DOMAIN run = 1 .. Len(run)
          /\ \A i \in DOMAIN run : run[i] \in Samples
      OBVIOUS
    <2> QED BY <2>1 DEF Samples
  <1>5. durs \in Seq(Nat) /\ Len(durs) = Len(run)
    BY <1>4
  <1>6. /\ o \in {0, 1} /\ f \in {0, 1}
        /\ "first" \in track.trun => f = 1
        /\ "first" \notin track.trun => f = 0
    BY DEF One
  <1>7. Lasts(run) \in Nat /\ Lasts(run) = Added(durs)
    BY <1>5, AddedType DEF Lasts
  <1>9. w \in Nat
    BY DEF Width, One
  <1>8. ASSUME "duration" \in track.trun PROVE Added(read) = Lasts(run)
    <2>1. EntrySize(trun) = w
      BY <1>1, <1>8 DEF EntrySize, Width, One
    <2> HIDE DEF trun, words, entries, o, f, w
    <2>2. ASSUME NEW i \in 1 .. Len(run)
          PROVE  at(i) <= Len(words) /\ words[at(i)] = run[i].dur
      <3>1. (i - 1) * w + 1 \in 1 .. Len(run) * w
        <4>1. w \in Nat /\ w >= 1 /\ Len(run) \in Nat
          BY <1>3, <1>4, <1>8, <1>9
        <4> QED BY <4>1, PlaceWithin
      <3> DEFINE j == (i - 1) * w + 1
      <3>2. (i - 1) * w \in Int
        BY <1>9
      <3>3. at(i) = 1 + o + f + j
        BY <2>1, <3>2, <1>6
      <3>4. entries[j] = run[i].dur
        BY <1>3, <1>8
      <3> HIDE DEF j, at
      <3>5. j \in 1 .. Len(entries)
        BY <3>1, <1>3 DEF j
      <3>6. 1 + o + f + j <= Len(words)
        BY <3>5, <1>2, <1>6
      <3> QED BY <3>3, <3>4, <3>5, <3>6, <1>2
    <2> HIDE DEF at
    <2>3. read = durs
      BY <1>2, <1>4, <2>2
    <2> QED BY <1>7, <2>3
  <1>10. ASSUME "duration" \notin track.trun
         PROVE  defaults.dur * words[1] = Lasts(run)
    BY <1>2, <1>4, <1>5, <1>7, <1>10, AddedEqual
  <1>11. words # <<>> /\ words[1] # 0 /\ ("first" \in track.trun => ~(2 + o > Len(words)))
    BY <1>2, <1>3, <1>4, <1>6
  <1>12. IsSync(IF "first" \in track.trun THEN words[2 + o] ELSE defaults.flags) = run[1].sync
    <2>1. CASE "first" \in track.trun
      <3>1. 1 + o + f = 2 + o
        BY <2>1, <1>6
      <3>2. words[2 + o] = FlagsWord(run[1])
        BY <2>1, <3>1, <1>2
      <3>3. IsSync(FlagsWord(run[1])) = run[1].sync
        BY <1>4, FlagsWordIs
      <3> HIDE DEF words, o, f
      <3> QED BY <2>1, <3>2, <3>3
    <2> QED BY <2>1
  <1> HIDE DEF words, o, f
  <1>13. ParseTrun(trun, defaults) =
             Read(IF "duration" \in track.trun THEN Added(read) ELSE defaults.dur * words[1],
                  IsSync(IF "first" \in track.trun THEN words[2 + o] ELSE defaults.flags))
    BY <1>1, <1>11 DEF ParseTrun, words, o, f
  <1> HIDE DEF trun, read
  <1>14. ParseTrun(trun, defaults) = Read(Lasts(run), run[1].sync)
    BY <1>8, <1>10, <1>12, <1>13
  <1> QED BY <1>7, <1>14 DEF trun

-----------------------------------------------------------------------------
(* What the muxer writes of a track and of a fragment.                     *)

\* The default duration and flags are found behind the fields before them.
LEMMA TfhdWords ==
    ASSUME NEW track, Typical(track) \in Samples
    PROVE  LET words == Tfhd(track).body.words
               at == 1 + 2 * One(track.tfhd, "base") + One(track.tfhd, "desc")
               next == at + One(track.tfhd, "duration") + One(track.tfhd, "size")
           IN  /\ at \in Nat /\ next \in Nat /\ Len(words) \in Nat
               /\ "duration" \in track.tfhd =>
                     at <= Len(words) /\ words[at] = Typical(track).dur
               /\ "flags" \in track.tfhd =>
                     next <= Len(words) /\ words[next] = FlagsWord(Typical(track))
  <1> DEFINE a == If("base" \in track.tfhd, <<0, OffsetWord>>)
             b == If("desc" \in track.tfhd, <<1>>)
             c == If("duration" \in track.tfhd, <<Typical(track).dur>>)
             d == If("size" \in track.tfhd, <<SizeWord>>)
             e == If("flags" \in track.tfhd, <<FlagsWord(Typical(track))>>)
             words == Tfhd(track).body.words
             at == 1 + 2 * One(track.tfhd, "base") + One(track.tfhd, "desc")
             next == at + One(track.tfhd, "duration") + One(track.tfhd, "size")
  <1>1. /\ Typical(track).dur \in Nat /\ FlagsWord(Typical(track)) \in Nat
        /\ OffsetWord \in Nat /\ SizeWord \in Nat
    BY FlagsWordIs DEF Samples, SizeWord, OffsetWord
  <1>2. a \in Seq(Nat) /\ Len(a) = 2 * One(track.tfhd, "base") /\ Len(a) \in Nat
    BY <1>1 DEF If, One
  <1>3. b \in Seq(Nat) /\ Len(b) = One(track.tfhd, "desc") /\ Len(b) \in Nat
    BY <1>1 DEF If, One
  <1>4. /\ c \in Seq(Nat) /\ Len(c) = One(track.tfhd, "duration") /\ Len(c) \in Nat
        /\ "duration" \in track.tfhd => Len(c) = 1 /\ c[1] = Typical(track).dur
    BY <1>1 DEF If, One
  <1>5. d \in Seq(Nat) /\ Len(d) = One(track.tfhd, "size") /\ Len(d) \in Nat
    BY <1>1 DEF If, One
  <1>6. /\ e \in Seq(Nat) /\ Len(e) \in Nat
        /\ "flags" \in track.tfhd => Len(e) = 1 /\ e[1] = FlagsWord(Typical(track))
    BY <1>1 DEF If, One
  <1>7. words = a \o b \o c \o d \o e
    BY DEF Tfhd, Box
  <1> HIDE DEF a, b, c, d, e, words
  <1> DEFINE ab == a \o b
             abc == ab \o c
             abcd == abc \o d
  <1>8. ab \in Seq(Nat) /\ Len(ab) = Len(a) + Len(b)
    BY <1>2, <1>3, Joined
  <1>9. at = Len(ab) + 1 /\ next = Len(ab) + 1 + Len(c) + Len(d) /\ Len(ab) \in Nat
    BY <1>2, <1>3, <1>4, <1>5, <1>8 DEF One
  <1>10. words = abcd \o e
    BY <1>7
  <1> HIDE DEF ab, at, next
  <1>11. /\ abc \in Seq(Nat) /\ Len(abc) = Len(ab) + Len(c)
         /\ \A i \in 1 .. Len(c) : abc[Len(ab) + i] = c[i]
    BY <1>4, <1>8, Joined
  <1> HIDE DEF abc
  <1>12. /\ abcd \in Seq(Nat) /\ Len(abcd) = Len(abc) + Len(d)
         /\ \A i \in 1 .. Len(abc) : abcd[i] = abc[i]
    BY <1>5, <1>11, Joined
  <1> HIDE DEF abcd
  <1>13. /\ Len(words) = Len(abcd) + Len(e)
         /\ \A i \in 1 .. Len(abcd) : words[i] = abcd[i]
         /\ \A i \in 1 .. Len(e) : words[Len(abcd) + i] = e[i]
    BY <1>6, <1>10, <1>12, Joined
  <1>14. Len(abc) \in Nat /\ Len(abcd) \in Nat /\ Len(words) \in Nat
    BY <1>4, <1>5, <1>6, <1>9, <1>11, <1>12, <1>13
  <1>15. ASSUME "duration" \in track.tfhd
         PROVE  at <= Len(words) /\ words[at] = Typical(track).dur
    <2>1. Len(c) = 1 /\ c[1] = Typical(track).dur
      BY <1>4, <1>15
    <2>2. at \in 1 .. Len(abc) /\ abc[at] = c[1]
      BY <2>1, <1>9, <1>11
    <2>3. at \in 1 .. Len(abcd) /\ abcd[at] = abc[at]
      BY <2>2, <1>5, <1>12, <1>14
    <2>4. words[at] = abcd[at] /\ at <= Len(words)
      BY <2>3, <1>6, <1>13, <1>14
    <2> QED BY <2>1, <2>2, <2>3, <2>4
  <1>16. ASSUME "flags" \in track.tfhd
         PROVE  next <= Len(words) /\ words[next] = FlagsWord(Typical(track))
    <2>1. Len(e) = 1 /\ e[1] = FlagsWord(Typical(track))
      BY <1>6, <1>16
    <2>2. next = Len(abcd) + 1
      BY <1>4, <1>5, <1>9, <1>11, <1>12
    <2> QED BY <2>1, <2>2, <1>13, <1>14
  <1>17. at \in Nat /\ next \in Nat
    BY <1>4, <1>5, <1>9
  <1> QED BY <1>14, <1>15, <1>16, <1>17 DEF words, at, next

\* The boxes of a track: tfhd, tfdt and its runs, all of which are seen.
LEMMA TrafBoxes ==
    ASSUME NEW track, track.runs \in Seq(Seq(Samples))
    PROVE  LET traf == Traf(track).body
               runs == track.runs
           IN  /\ DOMAIN traf = 1 .. Len(runs) + 2
               /\ traf[1] = Tfhd(track) /\ traf[1].type = "tfhd"
               /\ Seen(traf, "tfhd") = {1} /\ FirstSeen(traf, "tfhd") = Tfhd(track).body
               /\ Seen(traf, "trun") = 3 .. Len(runs) + 2
               /\ \A i \in 1 .. Len(runs) : traf[i + 2] = Trun(track, runs[i])
  <1> DEFINE traf == Traf(track).body
             runs == track.runs
             rest == [i \in DOMAIN runs |-> Trun(track, runs[i])]
             head == <<Tfhd(track), Box("tfdt", TRUE, <<>>)>>
  <1>1. traf = head \o rest
    BY DEF Traf, Box
  <1>2. Len(runs) \in Nat /\ DOMAIN runs = 1 .. Len(runs)
    OBVIOUS
  <1>3. /\ Len(head) = 2 /\ head[1] = Tfhd(track) /\ head[2] = Box("tfdt", TRUE, <<>>)
        /\ Len(rest) = Len(runs) /\ \A i \in 1 .. Len(runs) : rest[i] = Trun(track, runs[i])
    BY <1>2
  <1>4. DOMAIN traf = 1 .. Len(head) + Len(rest)
    BY <1>1, <1>2, <1>3
  <1>5. /\ traf[1] = head[1] /\ traf[2] = head[2]
        /\ \A i \in 1 .. Len(runs) : traf[i + 2] = rest[i]
    BY <1>1, <1>2, <1>3
  <1> HIDE DEF head, rest, traf, runs
  <1>6. /\ DOMAIN traf = 1 .. Len(runs) + 2
        /\ traf[1] = Tfhd(track) /\ traf[2] = Box("tfdt", TRUE, <<>>)
        /\ \A i \in 1 .. Len(runs) : traf[i + 2] = Trun(track, runs[i])
    BY <1>2, <1>3, <1>4, <1>5
  <1>7. /\ Tfhd(track).type = "tfhd" /\ Tfhd(track).fits
        /\ Box("tfdt", TRUE, <<>>).type = "tfdt" /\ Box("tfdt", TRUE, <<>>).fits
        /\ \A r : Trun(track, r).type = "trun" /\ Trun(track, r).fits
    BY DEF Tfhd, Trun, Box
  <1>8. \A i \in 3 .. Len(runs) + 2 : traf[i].type = "trun" /\ traf[i].fits
    <2>1. ASSUME NEW i \in 3 .. Len(runs) + 2 PROVE traf[i].type = "trun" /\ traf[i].fits
      <3>1. i - 2 \in 1 .. Len(runs) /\ (i - 2) + 2 = i
        BY <1>2
      <3>2. traf[i] = Trun(track, runs[i - 2])
        BY <3>1, <1>6
      <3> QED BY <3>2, <1>7
    <2> QED BY <2>1
  <1>9. /\ traf[1].type = "tfhd" /\ traf[1].fits
        /\ traf[2].type = "tfdt" /\ traf[2].fits
    BY <1>6, <1>7
  <1>10. \A i \in DOMAIN traf : i = 1 \/ i = 2 \/ i \in 3 .. Len(runs) + 2
    BY <1>2, <1>6
  <1>11. \A i \in DOMAIN traf : traf[i].fits
    BY <1>8, <1>9, <1>10
  <1>12. \A i \in DOMAIN traf : \A j \in 1 .. i : j \in DOMAIN traf
    BY <1>2, <1>6
  <1>13. \A type : Seen(traf, type) = {i \in DOMAIN traf : traf[i].type = type}
    BY <1>11, <1>12 DEF Seen
  <1>14. {1, 2} \subseteq DOMAIN traf /\ 3 .. Len(runs) + 2 \subseteq DOMAIN traf
    BY <1>2, <1>6
  <1>15. Seen(traf, "tfhd") = {1} /\ Seen(traf, "trun") = 3 .. Len(runs) + 2
    <2>1. \A i \in DOMAIN traf : traf[i].type = "tfhd" <=> i = 1
      BY <1>8, <1>9, <1>10
    <2>2. Seen(traf, "tfhd") = {i \in DOMAIN traf : traf[i].type = "tfhd"}
      BY <1>13
    <2>3. \A i \in DOMAIN traf : traf[i].type = "trun" <=> i \in 3 .. Len(runs) + 2
      BY <1>2, <1>8, <1>9, <1>10
    <2>4. Seen(traf, "trun") = {i \in DOMAIN traf : traf[i].type = "trun"}
      BY <1>13
    <2>5. Seen(traf, "tfhd") = {1}
      BY <2>1, <2>2, <1>14
    <2> QED BY <2>3, <2>4, <2>5, <1>14
  <1>16. FirstSeen(traf, "tfhd") = Tfhd(track).body
    <2>1. (CHOOSE i \in {1} : \A j \in {1} : i <= j) = 1
      OBVIOUS
    <2> QED BY <2>1, <1>6, <1>15 DEF FirstSeen
  <1> QED BY <1>6, <1>9, <1>15, <1>16 DEF traf, runs

LEMMA DefaultsRead ==
    ASSUME NEW track, track.runs \in Seq(Seq(Samples)), Typical(track) \in Samples
    PROVE  /\ "duration" \in track.tfhd =>
                 Defaults(Traf(track).body).dur = Typical(track).dur
           /\ "flags" \in track.tfhd =>
                 Defaults(Traf(track).body).flags = FlagsWord(Typical(track))
  <1> DEFINE traf == Traf(track).body
             tfhd == Tfhd(track).body
             at == 1 + 2 * One(tfhd.flags, "base") + One(tfhd.flags, "desc")
             hasDur == "duration" \in tfhd.flags /\ at <= Len(tfhd.words)
             next == at + (IF hasDur THEN 1 ELSE 0) + One(tfhd.flags, "size")
             hasFlags == "flags" \in tfhd.flags /\ next <= Len(tfhd.words)
  <1>1. Seen(traf, "tfhd") # {} /\ FirstSeen(traf, "tfhd") = tfhd
    BY TrafBoxes
  <1>2. tfhd.flags = track.tfhd
    BY DEF Tfhd, Box
  <1> HIDE DEF traf, tfhd
  <1>3. Defaults(traf) = [dur   |-> IF hasDur THEN tfhd.words[at] ELSE 0,
                          flags |-> IF hasFlags THEN tfhd.words[next] ELSE 0]
    BY <1>1 DEF Defaults
  <1>4. /\ at \in Nat /\ Len(tfhd.words) \in Nat
        /\ "duration" \in track.tfhd =>
              at <= Len(tfhd.words) /\ tfhd.words[at] = Typical(track).dur
        /\ "flags" \in track.tfhd =>
              LET n == at + One(track.tfhd, "duration") + One(track.tfhd, "size")
              IN  n <= Len(tfhd.words) /\ tfhd.words[n] = FlagsWord(Typical(track))
    BY <1>2, TfhdWords DEF tfhd
  <1>5. hasDur = ("duration" \in track.tfhd)
    BY <1>2, <1>4
  <1>6. next = at + One(track.tfhd, "duration") + One(track.tfhd, "size")
    BY <1>2, <1>5 DEF One
  <1> HIDE DEF at, next
  <1>7. "flags" \in track.tfhd => hasFlags /\ tfhd.words[next] = FlagsWord(Typical(track))
    BY <1>2, <1>4, <1>6
  <1>8. "duration" \in track.tfhd => hasDur /\ tfhd.words[at] = Typical(track).dur
    BY <1>2, <1>4
  <1> HIDE DEF hasDur, hasFlags
  <1> QED BY <1>3, <1>7, <1>8 DEF traf

\* What of the track Readable (of module Delivery) asks.
Legible(track) ==
    /\ ~({"duration", "cts"} \subseteq track.trun /\ track.version = 1)
    /\ "duration" \in track.trun \cup track.tfhd
    /\ "first" \notin track.trun => "flags" \notin track.trun /\ "flags" \in track.tfhd
    /\ \A r \in DOMAIN track.runs : track.runs[r][1].sync = track.runs[1][1].sync

LEMMA TrafRead ==
    ASSUME NEW track, Conforms(track), Legible(track),
           NEW durs, durs = [r \in DOMAIN track.runs |-> Lasts(track.runs[r])],
           Added(durs) > 0
    PROVE  ParseTraf(Traf(track).body) = Read(Added(durs), track.runs[1][1].sync)
  <1> DEFINE traf == Traf(track).body
             runs == track.runs
             given == Defaults(traf)
             run == [i \in DOMAIN traf |-> IF i \in Seen(traf, "trun")
                                           THEN ParseTrun(traf[i].body, given)
                                           ELSE Read(0, TRUE)]
             all == [i \in DOMAIN traf |-> run[i].dur]
             timed == {i \in DOMAIN traf : run[i].dur > 0}
             len == Len(runs)
  <1>1. /\ runs \in Seq(Seq(Samples)) /\ runs # <<>>
        /\ \A r \in DOMAIN runs : runs[r] # <<>>
    BY DEF Conforms, Tracks, Samples
  <1>2. /\ len \in Nat \ {0} /\ DOMAIN runs = 1 .. len
        /\ \A r \in 1 .. len : runs[r] \in Seq(Samples) /\ runs[r] # <<>>
    <2>1. len \in Nat /\ DOMAIN runs = 1 .. len /\ len # 0
      BY <1>1, EmptySeq, LenProperties
    <2>2. \A r \in 1 .. len : runs[r] \in Seq(Samples)
      BY <1>1
    <2> QED BY <1>1, <2>1, <2>2
  <1>3. Typical(track) \in Samples
    <2>1. /\ runs[len] \in Seq(Samples) /\ runs[len] # <<>>
      BY <1>2
    <2>2. runs[len][Len(runs[len])] \in Samples
      BY <2>1
    <2> QED BY <2>2 DEF Typical
  <1>4. /\ DOMAIN traf = 1 .. len + 2 /\ Seen(traf, "trun") = 3 .. len + 2
        /\ \A r \in 1 .. len : traf[r + 2] = Trun(track, runs[r])
    BY <1>1, TrafBoxes
  <1>5. /\ "duration" \in track.tfhd => given.dur = Typical(track).dur
        /\ "flags" \in track.tfhd => given.flags = FlagsWord(Typical(track))
    BY <1>1, <1>3, DefaultsRead
  <1> HIDE DEF traf, given
  <1>6. ASSUME NEW r \in 1 .. len
        PROVE  /\ ParseTrun(traf[r + 2].body, given) = Read(Lasts(runs[r]), runs[1][1].sync)
               /\ Lasts(runs[r]) \in Nat
    <2>1. "duration" \in track.trun => ~("cts" \in track.trun /\ track.version = 1)
      BY DEF Legible
    <2>2. ASSUME "duration" \notin track.trun
          PROVE  given.dur \in Nat /\ \A i \in DOMAIN runs[r] : runs[r][i].dur = given.dur
      <3>1. given.dur = Typical(track).dur
        BY <2>2, <1>5 DEF Legible
      <3>2. \A i \in DOMAIN runs[r] : runs[r][i].dur = Typical(track).dur
        BY <2>2, <1>2 DEF Conforms
      <3> QED BY <3>1, <3>2, <1>3 DEF Samples
    <2>3. ASSUME "first" \notin track.trun PROVE IsSync(given.flags) = runs[r][1].sync
      <3>1. "flags" \notin track.trun /\ given.flags = FlagsWord(Typical(track))
        BY <2>3, <1>5 DEF Legible
      <3>2. 1 \in DOMAIN runs[r]
        BY <1>2
      <3>3. runs[r][1].sync = Typical(track).sync
        BY <2>3, <3>1, <3>2, <1>2 DEF Conforms
      <3> QED BY <3>1, <3>3, <1>3, FlagsWordIs
    <2>4. /\ ParseTrun(Trun(track, runs[r]).body, given) = Read(Lasts(runs[r]), runs[r][1].sync)
          /\ Lasts(runs[r]) \in Nat
      BY <2>1, <2>2, <2>3, <1>2, TrunRead
    <2>5. runs[r][1].sync = runs[1][1].sync
      BY <1>2 DEF Legible
    <2> QED BY <2>4, <2>5, <1>4
  <1> HIDE DEF runs, len
  <1>7. \A r \in 1 .. len : run[r + 2] = Read(Lasts(runs[r]), runs[1][1].sync)
    <2>1. ASSUME NEW r \in 1 .. len PROVE run[r + 2] = Read(Lasts(runs[r]), runs[1][1].sync)
      <3>1. r + 2 \in DOMAIN traf /\ r + 2 \in Seen(traf, "trun")
        BY <1>2, <1>4
      <3> QED BY <3>1, <1>6
    <2> QED BY <2>1
  <1>8. run[1] = Read(0, TRUE) /\ run[2] = Read(0, TRUE)
    <2>1. {1, 2} \subseteq DOMAIN traf /\ 1 \notin 3 .. len + 2 /\ 2 \notin 3 .. len + 2
      BY <1>2, <1>4
    <2> QED BY <2>1, <1>4
  <1>9. ParseTraf(traf) = Read(Added(all), IF timed = {} THEN TRUE ELSE run[Max(timed)].key)
    BY DEF ParseTraf, given
  <1>10. /\ durs = [r \in 1 .. len |-> Lasts(runs[r])]
         /\ all = [i \in 1 .. len + 2 |-> run[i].dur]
    BY <1>2, <1>4 DEF runs
  <1>11. timed = {i \in 1 .. len + 2 : all[i] > 0}
    BY <1>4
  <1> HIDE DEF run, all, timed
  <1>12. /\ \A r \in 1 .. len : all[r + 2] = durs[r] /\ durs[r] \in Nat
         /\ all[1] = 0 /\ all[2] = 0
    <2>1. all[1] = 0 /\ all[2] = 0
      BY <1>2, <1>8, <1>10 DEF Read
    <2>2. ASSUME NEW r \in 1 .. len PROVE all[r + 2] = durs[r] /\ durs[r] \in Nat
      <3>1. r + 2 \in 1 .. len + 2
        BY <1>2
      <3>2. all[r + 2] = Lasts(runs[r]) /\ durs[r] = Lasts(runs[r])
        <4>1. all[r + 2] = run[r + 2].dur /\ durs[r] = Lasts(runs[r])
          BY <3>1, <1>10
        <4>2. run[r + 2] = Read(Lasts(runs[r]), runs[1][1].sync)
          BY <1>7
        <4>3. run[r + 2].dur = Lasts(runs[r])
          BY <4>2 DEF Read
        <4> QED BY <4>1, <4>3
      <3> QED BY <3>2, <1>6
    <2> QED BY <2>1, <2>2
  <1>13. \A i \in 1 .. len + 2 : i \in {1, 2} \/ (i - 2 \in 1 .. len /\ (i - 2) + 2 = i)
    BY <1>2
  <1>14. all \in Seq(Nat) /\ durs \in Seq(Nat) /\ Len(all) = len + 2 /\ Len(durs) = len
    <2>1. \A i \in 1 .. len + 2 : all[i] \in Nat
      BY <1>12, <1>13
    <2>2. len + 2 \in Nat
      BY <1>2
    <2>3. all \in [1 .. len + 2 -> Nat] /\ durs \in [1 .. len -> Nat]
      BY <2>1, <1>10, <1>12
    <2>4. all \in Seq(Nat) /\ durs \in Seq(Nat)
      BY <2>2, <2>3, <1>2, SeqDef
    <2> QED BY <2>2, <2>3, <2>4, <1>2, LenProperties
  <1>15. Added(all) = Added(durs)
    BY <1>12, <1>14, AddedLater
  <1>16. timed # {}
    <2>1. SUFFICES ASSUME timed = {} PROVE FALSE
      OBVIOUS
    <2>2. ASSUME NEW r \in 1 .. len PROVE durs[r] = 0
      <3>1. r + 2 \in 1 .. len + 2
        BY <1>2
      <3>2. ~(all[r + 2] > 0)
        BY <3>1, <2>1, <1>11
      <3> QED BY <3>2, <1>12
    <2>3. Added(durs) = 0
      BY <2>2, <1>14, AddedNothing
    <2> QED BY <2>3
  <1>17. Max(timed) \in timed
    <2>1. timed \subseteq 0 .. len + 2 /\ len + 2 \in Nat
      BY <1>2, <1>11
    <2>2. \E m \in timed : \A k \in timed : m >= k
      BY <2>1, <1>16, GreatestNumber
    <2> QED BY <2>2 DEF Max
  <1>18. run[Max(timed)].key = runs[1][1].sync
    <2> DEFINE i == Max(timed)
    <2> HIDE DEF i
    <2>1. i \in 1 .. len + 2 /\ all[i] > 0
      BY <1>11, <1>17 DEF i
    <2>2. i - 2 \in 1 .. len /\ (i - 2) + 2 = i
      BY <2>1, <1>12, <1>13
    <2>3. run[(i - 2) + 2] = Read(Lasts(runs[i - 2]), runs[1][1].sync)
      BY <2>2, <1>7
    <2> QED BY <2>2, <2>3 DEF Read, i
  <1> QED BY <1>9, <1>15, <1>16, <1>18 DEF traf, runs

-----------------------------------------------------------------------------
(* A whole fragment.                                                       *)

\* The units in which a fragment is read.
Units(timescale) == IF timescale = 0 THEN Timescale ELSE timescale

\* The video is read as it was written, whatever the other tracks are.
LEMMA MoofRead ==
    ASSUME NEW tracks \in Seq(Tracks), tracks # <<>>,
           Conforms(tracks[1]), Legible(tracks[1]), Written(tracks).dur > 0,
           NEW timescale
    PROVE  ParseMoof(Moof(tracks).body, timescale)
               = InSeconds(Written(tracks), Units(timescale))
  <1> DEFINE moof == Moof(tracks).body
             timed == {i \in Seen(moof, "traf") : ParseTraf(moof[i].body).dur > 0}
             head == <<Box("mfhd", TRUE, <<>>)>>
             rest == [i \in DOMAIN tracks |-> Traf(tracks[i])]
             durs == [r \in DOMAIN tracks[1].runs |-> Lasts(tracks[1].runs[r])]
  <1>1. Written(tracks) = Read(Added(durs), tracks[1].runs[1][1].sync)
    BY DEF Written
  <1>2. Added(durs) > 0
    BY <1>1 DEF Read
  <1>3. ParseTraf(Traf(tracks[1]).body) = Written(tracks)
    BY <1>1, <1>2, TrafRead
  <1>4. moof = head \o rest
    BY DEF Moof, Box
  <1>5. Len(tracks) \in Nat \ {0} /\ DOMAIN tracks = 1 .. Len(tracks)
    BY EmptySeq, LenProperties
  <1>6. /\ DOMAIN moof = 1 .. Len(tracks) + 1
        /\ moof[1] = Box("mfhd", TRUE, <<>>) /\ moof[2] = Traf(tracks[1])
    BY <1>4, <1>5
  <1>7. /\ moof[1].fits /\ moof[1].type = "mfhd"
        /\ moof[2].fits /\ moof[2].type = "traf"
    BY <1>6 DEF Traf, Box
  <1> HIDE DEF moof, durs
  <1>8. 2 \in timed
    <2>1. 2 \in DOMAIN moof /\ \A j \in 1 .. 2 : j = 1 \/ j = 2
      BY <1>5, <1>6
    <2>2. 2 \in Seen(moof, "traf")
      BY <2>1, <1>7 DEF Seen
    <2>3. ParseTraf(moof[2].body).dur > 0
      BY <1>1, <1>2, <1>3, <1>6 DEF Read
    <2> QED BY <2>2, <2>3
  <1>9. \A i \in timed : i \in Nat /\ 2 <= i
    <2>1. ASSUME NEW i \in timed PROVE i \in Nat /\ 2 <= i
      <3>1. i \in DOMAIN moof /\ moof[i].type = "traf"
        BY DEF Seen
      <3>2. i # 1
        BY <3>1, <1>7
      <3>3. i \in Nat \ {0}
        BY <3>1, <1>5, <1>6
      <3> QED BY <3>2, <3>3
    <2> QED BY <2>1
  <1> HIDE DEF timed
  <1>10. Min(timed) = 2
    <2>1. \A x \in timed : (\A y \in timed : x <= y) => x = 2
      BY <1>8, <1>9
    <2> QED BY <2>1, <1>8, <1>9 DEF Min
  <1>11. ParseMoof(moof, timescale)
             = IF timed = {} THEN Fallback
               ELSE InSeconds(ParseTraf(moof[Min(timed)].body), Units(timescale))
    BY DEF ParseMoof, timed, Units
  <1>12. timed # {}
    BY <1>8
  <1>13. ParseMoof(moof, timescale) = InSeconds(ParseTraf(moof[2].body), Units(timescale))
    BY <1>10, <1>11, <1>12
  <1> QED BY <1>3, <1>6, <1>13 DEF moof

\* The boxes before the moof, if they fit and are none, are passed over.
LEMMA FileRead ==
    ASSUME NEW boxes, NEW moof, NEW i \in DOMAIN boxes, DOMAIN boxes \subseteq Nat \ {0},
           boxes[i] = Box("moof", TRUE, moof),
           \A j \in 1 .. i - 1 : boxes[j].fits /\ boxes[j].type # "moof",
           NEW timescale
    PROVE  ParseMoofFromBytes(boxes, timescale) = ParseMoof(moof, timescale)
  <1> DEFINE seen == Seen(boxes, "moof")
  <1>1. i \in Nat \ {0} /\ boxes[i].type = "moof" /\ boxes[i].fits /\ boxes[i].body = moof
    BY DEF Box
  <1>2. \A j \in 1 .. i : boxes[j].fits
    <2>1. \A j \in 1 .. i : j = i \/ j \in 1 .. i - 1
      BY <1>1
    <2> QED BY <2>1, <1>1
  <1>3. i \in seen
    BY <1>1, <1>2 DEF Seen
  <1>4. \A j \in seen : j \in Nat /\ i <= j
    <2>1. ASSUME NEW j \in seen PROVE j \in Nat /\ i <= j
      <3>1. j \in Nat \ {0} /\ boxes[j].type = "moof"
        BY DEF Seen
      <3>2. j \notin 1 .. i - 1
        BY <3>1
      <3> QED BY <3>1, <3>2, <1>1
    <2> QED BY <2>1
  <1> HIDE DEF seen
  <1>5. (CHOOSE k \in seen : \A j \in seen : k <= j) = i
    <2>1. \A k \in seen : (\A j \in seen : k <= j) => k = i
      BY <1>1, <1>3, <1>4
    <2> QED BY <2>1, <1>3, <1>4
  <1>6. FirstSeen(boxes, "moof") = moof
    BY <1>1, <1>5 DEF FirstSeen, seen
  <1>7. Seen(boxes, "moof") # {}
    BY <1>3 DEF seen
  <1> QED BY <1>6, <1>7 DEF ParseMoofFromBytes

\* A file in which no trun can be reached counts as a keyframe of 33 ms.
LEMMA NothingRead ==
    ASSUME NEW boxes, DOMAIN boxes \subseteq Nat,
           \A i \in Seen(boxes, "moof") :
               LET moof == boxes[i].body
               IN  \A t \in Seen(moof, "traf") :
                       IsSequence(moof[t].body) /\ Seen(moof[t].body, "trun") = {},
           NEW timescale
    PROVE  ParseMoofFromBytes(boxes, timescale) = Fallback
  <1>1. SUFFICES ASSUME Seen(boxes, "moof") # {}
                 PROVE  ParseMoof(FirstSeen(boxes, "moof"), timescale) = Fallback
    BY DEF ParseMoofFromBytes
  <1>2. PICK i \in Seen(boxes, "moof") : FirstSeen(boxes, "moof") = boxes[i].body
    <2>1. Seen(boxes, "moof") \subseteq Nat
      BY DEF Seen
    <2>2. \E i \in Seen(boxes, "moof") : \A j \in Seen(boxes, "moof") : i <= j
      BY <1>1, <2>1, LeastNumber
    <2> QED BY <2>2 DEF FirstSeen
  <1> DEFINE moof == boxes[i].body
  <1>3. ASSUME NEW t \in Seen(moof, "traf") PROVE ~(ParseTraf(moof[t].body).dur > 0)
    <2> DEFINE traf == moof[t].body
               run == [k \in DOMAIN traf |-> IF k \in Seen(traf, "trun")
                                             THEN ParseTrun(traf[k].body, Defaults(traf))
                                             ELSE Read(0, TRUE)]
               all == [k \in DOMAIN traf |-> run[k].dur]
    <2>1. Len(traf) \in Nat /\ DOMAIN traf = 1 .. Len(traf) /\ Seen(traf, "trun") = {}
      BY DEF IsSequence
    <2>2. ParseTraf(traf).dur = Added(all)
      BY DEF ParseTraf, Read
    <2> DEFINE n == Len(traf)
    <2> HIDE DEF traf, n
    <2>3. all = [k \in 1 .. n |-> 0]
      BY <2>1 DEF Read, n
    <2>4. n \in Nat
      BY <2>1 DEF n
    <2> HIDE DEF all
    <2>5. all \in Seq(Nat) /\ Len(all) = n
      BY <2>3, <2>4
    <2>6. Added(all) = 0
      BY <2>3, <2>5, AddedNothing
    <2> QED BY <2>2, <2>6 DEF traf
  <1>4. ParseMoof(moof, timescale) = Fallback
    BY <1>3 DEF ParseMoof
  <1> QED BY <1>2, <1>4

-----------------------------------------------------------------------------
(* A file of any content.                                                  *)

\* As much of a file as the parser can reach: boxes within boxes, and words.
\* Which boxes, which flags and which words, and how many, is left open.
AnyFile(boxes) ==
    /\ IsSequence(boxes)
    /\ \A i \in Seen(boxes, "moof") :
          /\ IsSequence(boxes[i].body)
          /\ \A t \in Seen(boxes[i].body, "traf") :
                LET traf == boxes[i].body[t].body
                IN  /\ IsSequence(traf)
                    /\ \A b \in Seen(traf, "tfhd") \cup Seen(traf, "trun") :
                          traf[b].body.words \in Seq(Nat)

Reads == [dur : Nat, key : BOOLEAN]
TimedReads == [dur : Nat, units : Nat \ {0}, key : BOOLEAN]

LEMMA FirstIsSeen ==
    ASSUME NEW boxes, IsSequence(boxes), NEW type, Seen(boxes, type) # {}
    PROVE  \E i \in Seen(boxes, type) : FirstSeen(boxes, type) = boxes[i].body
  <1>1. Seen(boxes, type) \subseteq Nat
    BY DEF Seen, IsSequence
  <1>2. \E i \in Seen(boxes, type) : \A j \in Seen(boxes, type) : i <= j
    BY <1>1, LeastNumber
  <1> QED BY <1>2 DEF FirstSeen

LEMMA TrunTotal ==
    ASSUME NEW trun, trun.words \in Seq(Nat), NEW defaults, defaults.dur \in Nat
    PROVE  ParseTrun(trun, defaults) \in Reads
  <1> DEFINE words == trun.words
             first == 2 + One(trun.flags, "offset")
             start == first + One(trun.flags, "first")
             at(i) == start + (i - 1) * EntrySize(trun)
             read == [i \in 1 .. words[1] |-> IF at(i) <= Len(words) THEN words[at(i)] ELSE 0]
             dur == IF "duration" \in trun.flags THEN Added(read) ELSE defaults.dur * words[1]
             key == IsSync(IF "first" \in trun.flags THEN words[first] ELSE defaults.flags)
  <1>1. CASE words = <<>> \/ words[1] = 0 \/ ("first" \in trun.flags /\ first > Len(words))
    <2>1. ParseTrun(trun, defaults) = Read(0, TRUE)
      BY <1>1 DEF ParseTrun
    <2> QED BY <2>1 DEF Read, Reads
  <1>2. CASE ~(words = <<>> \/ words[1] = 0 \/ ("first" \in trun.flags /\ first > Len(words)))
    <2>1. ParseTrun(trun, defaults) = Read(dur, key)
      BY <1>2 DEF ParseTrun
    <2>2. words \in Seq(Nat) /\ words[1] \in Nat /\ Len(words) \in Nat
      BY <1>2
    <2>3. start \in Nat /\ start >= 1
      BY DEF One
    <2>4. EntrySize(trun) \in Nat
      BY DEF EntrySize, One
    <2> HIDE DEF words, start
    <2>5. ASSUME NEW i \in 1 .. words[1], at(i) <= Len(words) PROVE words[at(i)] \in Nat
      <3>1. (i - 1) * EntrySize(trun) \in Nat
        <4> DEFINE e == EntrySize(trun)
        <4>1. e \in Nat
          BY <2>4
        <4> HIDE DEF e
        <4>2. i - 1 \in Nat
          BY <2>2
        <4>3. (i - 1) * e \in Nat
          BY <4>1, <4>2
        <4> QED BY <4>3 DEF e
      <3>2. at(i) \in 1 .. Len(words)
        BY <3>1, <2>2, <2>3, <2>5
      <3> HIDE DEF at
      <3> QED BY <3>2, <2>2
    <2> HIDE DEF at
    <2>6. read \in Seq(Nat)
      <3>1. read \in [1 .. words[1] -> Nat]
        BY <2>5
      <3> HIDE DEF read
      <3> QED BY <3>1, <2>2, SeqDef
    <2> HIDE DEF read
    <2>7. Added(read) \in Nat
      BY <2>6, AddedType
    <2>8. defaults.dur * words[1] \in Nat
      BY <2>2
    <2>9. dur \in Nat
      BY <2>7, <2>8
    <2>10. key \in BOOLEAN
      BY DEF IsSync
    <2> HIDE DEF dur, key
    <2> QED BY <2>1, <2>9, <2>10 DEF Read, Reads
  <1> QED BY <1>1, <1>2

LEMMA DefaultsTotal ==
    ASSUME NEW traf, IsSequence(traf),
           \A b \in Seen(traf, "tfhd") : traf[b].body.words \in Seq(Nat)
    PROVE  Defaults(traf).dur \in Nat
  <1>1. CASE Seen(traf, "tfhd") = {}
    BY <1>1 DEF Defaults
  <1>2. CASE Seen(traf, "tfhd") # {}
    <2> DEFINE tfhd == FirstSeen(traf, "tfhd")
               at == 1 + 2 * One(tfhd.flags, "base") + One(tfhd.flags, "desc")
               hasDur == "duration" \in tfhd.flags /\ at <= Len(tfhd.words)
    <2>1. tfhd.words \in Seq(Nat)
      BY <1>2, FirstIsSeen
    <2> HIDE DEF tfhd
    <2>2. at \in Nat \ {0}
      BY DEF One
    <2>3. Defaults(traf).dur = IF hasDur THEN tfhd.words[at] ELSE 0
      BY <1>2 DEF Defaults, tfhd
    <2> HIDE DEF at
    <2>4. hasDur => tfhd.words[at] \in Nat
      BY <2>1, <2>2
    <2> QED BY <2>3, <2>4
  <1> QED BY <1>1, <1>2

LEMMA TrafTotal ==
    ASSUME NEW traf, IsSequence(traf),
           \A b \in Seen(traf, "tfhd") \cup Seen(traf, "trun") :
               traf[b].body.words \in Seq(Nat)
    PROVE  ParseTraf(traf) \in Reads
  <1> DEFINE given == Defaults(traf)
             run == [i \in DOMAIN traf |-> IF i \in Seen(traf, "trun")
                                           THEN ParseTrun(traf[i].body, given)
                                           ELSE Read(0, TRUE)]
             all == [i \in DOMAIN traf |-> run[i].dur]
             timed == {i \in DOMAIN traf : run[i].dur > 0}
             key == IF timed = {} THEN TRUE ELSE run[Max(timed)].key
             n == Len(traf)
  <1>1. given.dur \in Nat
    BY DefaultsTotal
  <1>2. n \in Nat /\ DOMAIN traf = 1 .. n
    BY DEF IsSequence
  <1> HIDE DEF given, n
  <1>3. ASSUME NEW i \in DOMAIN traf PROVE run[i] \in Reads
    <2>1. CASE i \in Seen(traf, "trun")
      BY <2>1, <1>1, TrunTotal
    <2>2. CASE i \notin Seen(traf, "trun")
      BY <2>2 DEF Read, Reads
    <2> QED BY <2>1, <2>2
  <1>4. ParseTraf(traf) = Read(Added(all), key)
    BY DEF ParseTraf, given
  <1> HIDE DEF run
  <1>5. all \in Seq(Nat)
    <2>1. all \in [1 .. n -> Nat]
      BY <1>2, <1>3 DEF Reads
    <2> HIDE DEF all
    <2> QED BY <2>1, <1>2, SeqDef
  <1>6. Added(all) \in Nat
    BY <1>5, AddedType
  <1>7. timed # {} => Max(timed) \in timed
    <2>1. timed \subseteq 0 .. n
      BY <1>2
    <2>2. timed # {} => \E m \in timed : \A k \in timed : m >= k
      BY <2>1, <1>2, GreatestNumber
    <2> QED BY <2>2 DEF Max
  <1>8. timed \subseteq DOMAIN traf
    OBVIOUS
  <1> HIDE DEF all, timed
  <1>9. key \in BOOLEAN
    BY <1>3, <1>7, <1>8 DEF Reads
  <1> HIDE DEF key
  <1> QED BY <1>4, <1>6, <1>9 DEF Read, Reads

(***************************************************************************)
(* Of a file of any content whatever, cut short or made up, the parser     *)
(* returns a duration and a flag: each duration it adds is a word that is  *)
(* there (an index out of range would end the process: the callback        *)
(* recovers nothing), and each choice of a box or a run has one to choose. *)
(***************************************************************************)
THEOREM ParserTotal ==
    ASSUME NEW boxes, AnyFile(boxes), NEW timescale \in Nat
    PROVE  ParseMoofFromBytes(boxes, timescale) \in TimedReads
  <1>1. Fallback \in TimedReads
    BY DEF Fallback, InSeconds, Read, TimedReads
  <1>2. ASSUME NEW read \in Reads
        PROVE  InSeconds(read, Units(timescale)) \in TimedReads
    <2>1. Units(timescale) \in Nat \ {0}
      BY SMT DEF Units, Timescale
    <2> HIDE DEF Units
    <2> QED BY <1>2, <2>1 DEF Reads, TimedReads, InSeconds
  <1>3. CASE Seen(boxes, "moof") = {}
    BY <1>1, <1>3 DEF ParseMoofFromBytes
  <1>4. CASE Seen(boxes, "moof") # {}
    <2>1. PICK i \in Seen(boxes, "moof") : FirstSeen(boxes, "moof") = boxes[i].body
      BY <1>4, FirstIsSeen DEF AnyFile
    <2> DEFINE moof == boxes[i].body
               timed == {t \in Seen(moof, "traf") : ParseTraf(moof[t].body).dur > 0}
    <2>2. ParseMoofFromBytes(boxes, timescale) = ParseMoof(moof, timescale)
      BY <1>4, <2>1 DEF ParseMoofFromBytes
    <2>3. /\ IsSequence(moof)
          /\ \A t \in Seen(moof, "traf") : ParseTraf(moof[t].body) \in Reads
      BY TrafTotal DEF AnyFile
    <2> HIDE DEF moof
    <2>4. ParseMoof(moof, timescale)
              = IF timed = {} THEN Fallback
                ELSE InSeconds(ParseTraf(moof[Min(timed)].body), Units(timescale))
      BY DEF ParseMoof, Units
    <2>5. timed # {} => Min(timed) \in timed
      <3>1. timed \subseteq Nat
        BY <2>3 DEF Seen, IsSequence
      <3>2. timed # {} => \E m \in timed : \A k \in timed : m <= k
        BY <3>1, LeastNumber
      <3> QED BY <3>2 DEF Min
    <2>6. timed \subseteq Seen(moof, "traf")
      OBVIOUS
    <2> HIDE DEF timed
    <2> QED BY <1>1, <1>2, <2>2, <2>3, <2>4, <2>5, <2>6
  <1> QED BY <1>3, <1>4

=============================================================================

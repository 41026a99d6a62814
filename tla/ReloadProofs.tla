---------------------------- MODULE ReloadProofs ----------------------------
(***************************************************************************)
(* Blocking requests, any number of them, against a store of any           *)
(* configuration: the locking of the notifier loses no wakeup, no handler  *)
(* serves before its time, and a hinted part is not denied.                *)
(*                                                                         *)
(* The handlers see the store through two windows, the store's RLock and   *)
(* the notifier's record.  Covers brings both to one question, asked of    *)
(* the newest media the store has (Latest) or the notifier was told of.    *)
(*                                                                         *)
(* The hint names the next part of the current segment, and a segment is   *)
(* completed only by a part, unless the stream ends: so in whichever       *)
(* segment of the window the hinted number is found, the part is there.    *)
(***************************************************************************)
EXTENDS BlockingReload, StoreProofs

-----------------------------------------------------------------------------
(* What news cover.                                                        *)

Covers(news, msn, part) ==
    \/ news.msn > msn
    \/ news.msn = msn /\ (news.part < 0 \/ (part >= 0 /\ news.part >= part))

Told == Media(notifier.lastMSN, notifier.lastPart)

LEMMA ReachedIsCovered ==
    ASSUME NEW msn, NEW part
    PROVE  Reached(notifier, msn, part) <=> notifier.ended \/ Covers(Told, msn, part)
  BY DEF Reached, Covers, Told, Media

LEMMA LaterCoversMore ==
    ASSUME NEW x \in News, NEW y \in News, NEW msn \in Int, NEW part \in Int,
           Later(x, y), Covers(y, msn, part)
    PROVE  Covers(x, msn, part)
  BY DEF Later, Covers, News

\* Where a segment of the window is looked for, it is older than the current.
LEMMA WindowIsOlder ==
    ASSUME NEW s, Sound(s), NEW i \in DOMAIN s.segments
    PROVE  /\ s.segments[i].msn \in Int /\ s.segments[i].msn < s.currentSeg.msn
           /\ s.currentSeg.msn >= 0
  <1>1. /\ s.segments \in Seq(Segment) /\ s.currentSeg.msn \in Int
        /\ s.currentSeg.msn >= -1
    BY StoreFields, LatestTypes DEF Sound
  <1>2. i \in 1 .. Len(s.segments) /\ Len(s.segments) \in Nat
    BY <1>1, LenProperties
  <1>3. /\ s.segments[i].msn = s.currentSeg.msn - Len(s.segments) + i - 1
        /\ s.segments[i].msn >= 0
    BY <1>2 DEF Sound, Windowed
  <1> QED BY <1>1, <1>2, <1>3

\* What the store contains, or has contained, is what its newest media covers.
LEMMA CoveredIsContained ==
    ASSUME NEW s, Sound(s), NEW r \in Requests,
           req[r].msn \in Nat, req[r].part \in Int
    PROVE  Contains(s, r) <=> Covers(Latest(s), req[r].msn, req[r].part)
  <1> DEFINE msn == req[r].msn
             part == req[r].part
             cur == s.currentSeg
             len == Len(cur.parts)
  <1> HIDE DEF msn, part
  <1>1. /\ msn \in Nat /\ part \in Int /\ cur.msn \in Int /\ cur.msn >= -1 /\ len \in Nat
        /\ cur.parts = <<>> <=> len = 0
    BY LatestTypes DEF msn, part
  <1>2. /\ Latest(s).msn = IF cur.parts = <<>> /\ cur.msn >= 0 THEN cur.msn - 1 ELSE cur.msn
        /\ Latest(s).part = len - 1
    BY LatestTypes DEF LatestMSN, LatestPart
  <1>3. GetCurrentMSN(s) = IF cur.msn = -1 THEN 0 ELSE cur.msn
    <2>1. CASE cur = NoSegment
      <3>1. cur.msn = -1
        BY <2>1 DEF NoSegment, NewSegment
      <3>2. s.nextMSN = 0
        BY <3>1 DEF Sound, Windowed
      <3> QED BY <2>1, <3>1, <3>2 DEF GetCurrentMSN
    <2>2. CASE cur # NoSegment
      BY <2>2 DEF GetCurrentMSN, Sound, Windowed
    <2> QED BY <2>1, <2>2
  <1>4. cur = NoSegment <=> cur.msn = -1
    BY DEF NoSegment, NewSegment, Sound, Windowed
  <1>5. HasPartOrSegment(s, msn, part) =>
            \/ msn < cur.msn
            \/ msn = cur.msn /\ part >= 0 /\ part < len
    <2>1. ASSUME HasPartOrSegment(s, msn, part)
          PROVE  \/ \E i \in DOMAIN s.segments : s.segments[i].msn = msn
                 \/ part >= 0 /\ cur.msn = msn /\ part < len
      BY <1>1, <2>1 DEF HasPartOrSegment, HasSegment, HasPart
    <2> QED BY <1>1, <2>1, WindowIsOlder
  <1>6. msn = cur.msn /\ part >= 0 /\ part < len => HasPartOrSegment(s, msn, part)
    BY <1>1, <1>4 DEF HasPartOrSegment, HasPart
  <1>7. Contains(s, r) <=> \/ msn < cur.msn
                           \/ msn = cur.msn /\ part >= 0 /\ part < len
    <2>1. Contains(s, r) <=> msn < GetCurrentMSN(s) \/ HasPartOrSegment(s, msn, part)
      BY DEF Contains, msn, part
    <2> QED BY <1>1, <1>3, <1>5, <1>6, <2>1
  <1>8. Covers(Latest(s), msn, part) <=> \/ msn < cur.msn
                                         \/ msn = cur.msn /\ part >= 0 /\ part < len
    <2> DEFINE m == Latest(s).msn
               p == Latest(s).part
    <2>1. Covers(Latest(s), msn, part) <=>
              \/ m > msn
              \/ m = msn /\ (p < 0 \/ (part >= 0 /\ p >= part))
      BY DEF Covers
    <2> HIDE DEF m, p
    <2>2. /\ m = IF len = 0 /\ cur.msn >= 0 THEN cur.msn - 1 ELSE cur.msn
          /\ p = len - 1
      BY <1>1, <1>2 DEF m, p
    <2>3. len # 0 => cur.msn >= 0
      <3>1. cur = NoSegment => len = 0
        BY <1>1 DEF NoSegment, NewSegment
      <3> QED BY <1>1, <1>4, <3>1
    <2> HIDE DEF cur, len
    <2> QED BY <1>1, <2>1, <2>2, <2>3
  <1> QED BY <1>7, <1>8 DEF msn, part

-----------------------------------------------------------------------------
(* The end is told only once it is there.                                  *)

EndIsTold == notifier.ended \/ owed.kind = "ended" => store.ended

LEMMA EndIsToldNext ==
    ASSUME StoreInv, StoreInv', EndIsTold, [Next]_vars
    PROVE  EndIsTold' /\ (store.ended => store'.ended)
  <1>1. store \in StoreRecord /\ notifier \in [lastMSN : Int, lastPart : Int, ended : BOOLEAN]
    BY DEF StoreInv, TypeOK
  <1>2. CASE SetInit
    BY <1>1, <1>2 DEF SetInit, EndIsTold, StoreRecord
  <1>3. ASSUME NEW frag \in Fragment, NEW lost \in SUBSET Uses, AddFragment(frag, lost)
        PROVE  EndIsTold' /\ (store.ended => store'.ended)
    <2>1. ~store.ended /\ ~notifier.ended /\ notifier' = notifier
      BY <1>3 DEF AddFragment, EndIsTold
    <2>2. owed'.kind # "ended"
      <3> DEFINE fed == Accumulate(store, Len(fragments'), frag, lost)
      <3>1. owed' = FinalizePart(fed).news \/ owed' = Nothing
        BY <1>3 DEF AddFragment
      <3> QED BY <3>1 DEF FinalizePart, PartNews, Media, Nothing
    <2> QED BY <2>1, <2>2 DEF EndIsTold
  <1>4. CASE Finalize
    <2> DEFINE flushed == FlushSegment(FlushPart(store)).store
    <2>1. store' = [flushed EXCEPT !.ended = TRUE] /\ flushed \in StoreRecord
      BY <1>1, <1>4, FlushType DEF Finalize
    <2> HIDE DEF flushed
    <2> QED BY <2>1 DEF EndIsTold, StoreRecord
  <1>5. CASE Broadcast \/ BroadcastEnded
    <2>1. store' = store /\ owed'.kind = "none"
      BY <1>5 DEF Broadcast, BroadcastEnded, Nothing
    <2>2. notifier'.ended => notifier.ended \/ owed.kind = "ended"
      BY <1>1, <1>5 DEF Broadcast, BroadcastEnded
    <2> QED BY <2>1, <2>2 DEF EndIsTold
  <1>6. CASE UNCHANGED vars
    BY <1>6 DEF vars, EndIsTold
  <1> QED BY <1>2, <1>3, <1>4, <1>5, <1>6 DEF Next

\* What the notifier was told of is there; with no broadcast owed it is all.
LEMMA ToldIsThere ==
    StoreInv => /\ Told \in News /\ Latest(store) \in News
                /\ Told = Latest(store) \/ Later(Latest(store), Told)
                /\ owed.kind # "media" => Told = Latest(store)
  <1> SUFFICES ASSUME StoreInv
               PROVE  /\ Told \in News /\ Latest(store) \in News
                      /\ Told = Latest(store) \/ Later(Latest(store), Told)
                      /\ owed.kind # "media" => Told = Latest(store)
    OBVIOUS
  <1>1. notifier.lastMSN \in Int /\ notifier.lastPart \in Int /\ owed \in News
    BY DEF StoreInv, TypeOK
  <1>2. LatestMSN(store) \in Int /\ LatestPart(store) \in Int
    BY LatestTypes DEF StoreInv
  <1>3. Told \in News /\ Latest(store) \in News
    BY <1>1, <1>2, NewsTypes DEF Told, Latest
  <1>4. CASE owed.kind = "media"
    <2>1. owed.msn = LatestMSN(store) /\ owed.part = LatestPart(store)
      BY <1>4 DEF StoreInv, NotifierIsCurrent
    <2>2. Later(owed, Told)
      BY <1>4 DEF StoreInv, OwedIsLater, Told
    <2> QED BY <1>3, <1>4, <2>1, <2>2 DEF Later, Latest, Media
  <1>5. CASE owed.kind # "media"
    BY <1>3, <1>5 DEF StoreInv, NotifierIsCurrent, Told, Latest
  <1> QED BY <1>3, <1>4, <1>5

\* The store only ever gains media.
LEMMA LatestAdvances ==
    ASSUME StoreInv, StoreInv', [Next]_vars
    PROVE  Latest(store') = Latest(store) \/ Later(Latest(store'), Latest(store))
  <1>1. CASE store'.currentSeg = store.currentSeg
    BY <1>1 DEF Latest, LatestMSN, LatestPart
  <1>2. CASE owed = Nothing /\ notifier' = notifier
    <2>1. Told = Latest(store) /\ Told' = Told
      BY <1>2, ToldIsThere DEF Nothing, Told
    <2>2. (Told = Latest(store) \/ Later(Latest(store), Told))'
      BY ToldIsThere, PTL
    <2> QED BY <2>1, <2>2
  <1>3. store \in StoreRecord
    BY DEF StoreInv, TypeOK
  <1> QED BY <1>1, <1>2, <1>3
      DEF Next, SetInit, AddFragment, Finalize, Broadcast, BroadcastEnded, vars, StoreRecord

LEMMA CoveredStays ==
    ASSUME StoreInv, StoreInv', [Next]_vars, NEW msn \in Int, NEW part \in Int,
           Covers(Latest(store), msn, part)
    PROVE  Covers(Latest(store'), msn, part)
  <1>1. Latest(store') = Latest(store) \/ Later(Latest(store'), Latest(store))
    BY LatestAdvances
  <1>2. Latest(store) \in News /\ Latest(store') \in News
    <2>1. Sound(store) /\ Sound(store')
      BY DEF StoreInv
    <2> QED BY <2>1, LatestTypes, NewsTypes DEF Latest
  <1> QED BY <1>1, <1>2, LaterCoversMore

-----------------------------------------------------------------------------
(* The handlers.                                                           *)
(*                                                                         *)
(* A handler that waits has an armed watcher until its context is done; a  *)
(* watcher that fired cannot broadcast, and disarm itself, while a handler *)
(* is between its look at the context and its sleep.  A sleeper was not    *)
(* released by the news when it tested them, and every change of the news  *)
(* wakes it.                                                               *)

HandlerTypes ==
    /\ req \in [Requests -> Request]
    /\ watcher \in [Requests -> {"off", "armed", "firing"}]
    /\ expired \subseteq Requests
    /\ mu \in Requests \cup {Free}

Waits(r) == At(r, "locking") \/ At(r, "testing") \/ At(r, "asleep")

CoveredBy(news, r) == Covers(news, req[r].msn, req[r].part)

HandlerOK(r) ==
    /\ At(r, "testing") <=> mu = r
    /\ Waits(r) /\ r \notin expired => watcher[r] = "armed"
    /\ At(r, "testing") \/ At(r, "asleep") => watcher[r] # "off"
    /\ At(r, "asleep") => ~notifier.ended /\ ~CoveredBy(Told, r)
    /\ At(r, "serving") => store.ended \/ CoveredBy(Latest(store), r)

ReloadInv ==
    /\ StoreInv
    /\ EndIsTold
    /\ HandlerTypes
    /\ \A r \in Requests : HandlerOK(r)

LEMMA NoRequestType == NoRequest \in Request
  BY DEF NoRequest, Request, Steps, Answers

LEMMA ReloadInvInit == ReloadInit => ReloadInv
  <1> SUFFICES ASSUME ReloadInit PROVE ReloadInv
    OBVIOUS
  <1>1. StoreInv
    BY StoreInvInit DEF ReloadInit
  <1>2. EndIsTold
    BY DEF ReloadInit, Init, NewNotifier, Nothing, EndIsTold
  <1>3. HandlerTypes
    BY NoRequestType DEF ReloadInit, HandlerTypes
  <1>4. ASSUME NEW r \in Requests PROVE HandlerOK(r)
    <2>1. req[r].step = "idle" /\ mu # r
      BY ReloadAssumption DEF ReloadInit, NoRequest, ReloadAssumption, Free
    <2> QED BY <2>1 DEF HandlerOK, Waits, At
  <1> QED BY <1>1, <1>2, <1>3, <1>4 DEF ReloadInv

\* A request that reads the answer in the store finds it covered.
LEMMA FoundIsCovered ==
    ASSUME ReloadInv, NEW r \in Requests,
           HasPartOrSegment(store, req[r].msn, req[r].part)
    PROVE  CoveredBy(Latest(store), r)
  <1>1. Sound(store) /\ req[r].msn \in Nat /\ req[r].part \in Int
    BY DEF ReloadInv, StoreInv, HandlerTypes, Request
  <1>2. Contains(store, r)
    BY DEF Contains
  <1> QED BY <1>1, <1>2, CoveredIsContained DEF CoveredBy

\* And so does one that the news released.
LEMMA ReleasedIsCovered ==
    ASSUME ReloadInv, NEW r \in Requests, Reached(notifier, req[r].msn, req[r].part)
    PROVE  store.ended \/ CoveredBy(Latest(store), r)
  <1>1. req[r].msn \in Int /\ req[r].part \in Int
    BY DEF ReloadInv, HandlerTypes, Request
  <1>2. notifier.ended \/ CoveredBy(Told, r)
    BY ReachedIsCovered DEF CoveredBy
  <1>3. /\ Told \in News /\ Latest(store) \in News
        /\ Told = Latest(store) \/ Later(Latest(store), Told)
    BY ToldIsThere DEF ReloadInv
  <1> QED BY <1>1, <1>2, <1>3, LaterCoversMore DEF ReloadInv, EndIsTold, CoveredBy

LEMMA AnswerMoves ==
    ASSUME HandlerTypes, NEW r \in Requests, NEW code \in Answers, Answer(r, code)
    PROVE  /\ req' \in [Requests -> Request]
           /\ watcher' \in [Requests -> {"off", "armed", "firing"}]
           /\ At(r, "done")'
           /\ \A q \in Requests \ {r} : req'[q] = req[q] /\ watcher'[q] = watcher[q]
  <1>1. req' = [req EXCEPT ![r].step = "done", ![r].answer = code]
        /\ \E w \in {"off", "firing"} :
              watcher' = [watcher EXCEPT ![r] = w] \/ watcher' = watcher
    BY DEF Answer
  <1>2. req' \in [Requests -> Request]
    <2> DEFINE x == [req[r] EXCEPT !.step = "done", !.answer = code]
    <2>1. x \in Request
      BY DEF HandlerTypes, Request, Steps
    <2>2. req' = [req EXCEPT ![r] = x]
      BY <1>1
    <2> HIDE DEF x
    <2> QED BY <2>1, <2>2 DEF HandlerTypes
  <1> QED BY <1>1, <1>2 DEF HandlerTypes, At, Request

LEMMA ClientStep ==
    ASSUME ReloadInv, NEW r \in Requests, Client(r), UNCHANGED vars
    PROVE  HandlerTypes' /\ \A q \in Requests : HandlerOK(q)'
  <1>0. HandlerTypes /\ HandlerOK(r)
    BY DEF ReloadInv
  <1>1. CASE Expire(r)
    <2>1. HandlerTypes'
      BY <1>0, <1>1 DEF Expire, HandlerTypes
    <2>2. HandlerOK(r)'
      BY <1>0, <1>1 DEF Expire, HandlerOK, HandlerTypes, Waits, At, CoveredBy, Told, vars
    <2>3. ASSUME NEW q \in Requests, q # r PROVE HandlerOK(q)'
      <3>1. /\ req'[q] = req[q] /\ (q \in expired' <=> q \in expired)
            /\ watcher'[q] = watcher[q] /\ mu' = mu
        BY <1>1, <2>3 DEF Expire
      <3> QED BY <2>3, <3>1 DEF ReloadInv, HandlerOK, Waits, At, CoveredBy, Told, vars
    <2> QED BY <2>1, <2>2, <2>3
  <1>2. ASSUME NEW x \in Request, req' = [req EXCEPT ![r] = x],
               x.step \in {"idle", "arrived", "looking"}, ~At(r, "testing"),
               expired' \subseteq Requests,
               \A q \in Requests \ {r} : q \in expired' <=> q \in expired,
               UNCHANGED <<watcher, mu>>
        PROVE  HandlerTypes' /\ \A q \in Requests : HandlerOK(q)'
    <2>1. HandlerTypes'
      BY <1>0, <1>2 DEF HandlerTypes
    <2>2. HandlerOK(r)'
      BY <1>0, <1>2 DEF HandlerOK, HandlerTypes, Waits, At
    <2>3. ASSUME NEW q \in Requests, q # r PROVE HandlerOK(q)'
      <3>1. /\ req'[q] = req[q] /\ (q \in expired' <=> q \in expired)
            /\ watcher'[q] = watcher[q] /\ mu' = mu
        BY <1>0, <1>2, <2>3 DEF HandlerTypes
      <3> QED BY <2>3, <3>1 DEF ReloadInv, HandlerOK, Waits, At, CoveredBy, Told, vars
    <2> QED BY <2>1, <2>2, <2>3
  <1>3. ASSUME NEW msn \in 0 .. MaxTarget, NEW part \in -1 .. MaxPart,
               AskPlaylist(r, msn, part)
        PROVE  HandlerTypes' /\ \A q \in Requests : HandlerOK(q)'
    <2> DEFINE x == [NoRequest EXCEPT !.step = "arrived", !.kind = "playlist",
                                      !.msn = msn, !.part = part]
    <2>1. x \in Request /\ x.step = "arrived"
      <3>1. msn \in Nat /\ part \in Int
        BY ReloadAssumption DEF ReloadAssumption
      <3> QED BY <3>1, NoRequestType DEF Request, Steps
    <2>2. /\ req' = [req EXCEPT ![r] = x] /\ ~At(r, "testing")
          /\ UNCHANGED <<expired, watcher, mu>>
      BY <1>3 DEF AskPlaylist, At
    <2> HIDE DEF x
    <2> QED BY <1>0, <1>2, <2>1, <2>2 DEF HandlerTypes
  <1>4. CASE AskPart(r)
    <2> DEFINE x == [NoRequest EXCEPT !.step = "looking", !.kind = "part",
                                      !.msn = Hint(store)[1], !.part = Hint(store)[2]]
    <2>1. Hint(store)[1] \in Nat /\ Hint(store)[2] \in Int
      <3>1. Sound(store) /\ store.currentSeg # NoSegment
        BY <1>4 DEF ReloadInv, StoreInv, AskPart
      <3>2. /\ store.currentSeg.msn \in Int /\ store.currentSeg.msn >= -1
            /\ Len(store.currentSeg.parts) \in Nat
        BY <3>1, LatestTypes
      <3>3. store.currentSeg.msn # -1
        BY <3>1 DEF Sound, Windowed
      <3> QED BY <3>2, <3>3 DEF Hint
    <2>2. x \in Request /\ x.step = "looking"
      BY <2>1, NoRequestType DEF Request, Steps
    <2>3. /\ req' = [req EXCEPT ![r] = x] /\ ~At(r, "testing")
          /\ UNCHANGED <<expired, watcher, mu>>
      BY <1>4 DEF AskPart, At
    <2> HIDE DEF x
    <2> QED BY <1>0, <1>2, <2>2, <2>3 DEF HandlerTypes
  <1>5. CASE Forget(r)
    BY <1>0, <1>2, <1>5, NoRequestType DEF Forget, HandlerTypes, NoRequest, At
  <1> QED BY <1>1, <1>3, <1>4, <1>5 DEF Client

\* A handler returns, or goes on to another step.
LEMMA AnswerStep ==
    ASSUME ReloadInv, NEW r \in Requests, NEW code \in Answers, Answer(r, code),
           ~At(r, "testing"), UNCHANGED <<expired, mu>>, UNCHANGED vars
    PROVE  HandlerTypes' /\ \A q \in Requests : HandlerOK(q)'
  <1>0. HandlerTypes /\ HandlerOK(r)
    BY DEF ReloadInv
  <1>1. /\ req' \in [Requests -> Request]
        /\ watcher' \in [Requests -> {"off", "armed", "firing"}]
        /\ req'[r].step = "done"
        /\ \A q \in Requests \ {r} : req'[q] = req[q] /\ watcher'[q] = watcher[q]
    BY <1>0, AnswerMoves DEF At
  <1>2. HandlerTypes'
    BY <1>0, <1>1 DEF HandlerTypes
  <1>3. HandlerOK(r)'
    BY <1>0, <1>1 DEF HandlerOK, Waits, At
  <1>4. ASSUME NEW q \in Requests, q # r PROVE HandlerOK(q)'
    <2>1. req'[q] = req[q] /\ watcher'[q] = watcher[q]
      BY <1>1, <1>4
    <2> QED BY <2>1 DEF ReloadInv, HandlerOK, Waits, At, CoveredBy, Told, vars
  <1> QED BY <1>2, <1>3, <1>4

LEMMA GoesMoves ==
    ASSUME HandlerTypes, NEW r \in Requests, NEW step \in Steps, Goes(r, step)
    PROVE  /\ req' \in [Requests -> Request]
           /\ req'[r].step = step
           /\ req'[r].msn = req[r].msn /\ req'[r].part = req[r].part
           /\ \A q \in Requests \ {r} : req'[q] = req[q]
  <1> DEFINE x == [req[r] EXCEPT !.step = step]
  <1>1. x \in Request /\ x.step = step /\ x.msn = req[r].msn /\ x.part = req[r].part
    BY DEF HandlerTypes, Request
  <1>2. req' = [req EXCEPT ![r] = x]
    BY DEF Goes
  <1> HIDE DEF x
  <1> QED BY <1>1, <1>2 DEF HandlerTypes

LEMMA HandleStep ==
    ASSUME ReloadInv, NEW r \in Requests, Handle(r), UNCHANGED vars
    PROVE  HandlerTypes' /\ \A q \in Requests : HandlerOK(q)'
  <1>0. HandlerTypes /\ HandlerOK(r) /\ (\A q \in Requests : HandlerOK(q)) /\ Free \notin Requests
    BY ReloadAssumption DEF ReloadInv, ReloadAssumption, Free
  <1>1. CASE ReadCurrent(r)
    <2>1. CASE Answer(r, "400") /\ UNCHANGED <<expired, mu>>
      BY <1>1, <2>1, AnswerStep DEF ReadCurrent, At, Answers
    <2>2. CASE Goes(r, "looking") /\ UNCHANGED watcher
      <3>1. /\ req' \in [Requests -> Request] /\ req'[r].step = "looking"
            /\ \A q \in Requests \ {r} : req'[q] = req[q]
        BY <1>0, <2>2, GoesMoves DEF Steps
      <3>2. UNCHANGED <<expired, mu, watcher>> /\ req[r].step = "arrived"
        BY <1>1, <2>2 DEF ReadCurrent, At
      <3>3. HandlerTypes' /\ HandlerOK(r)'
        BY <1>0, <3>1, <3>2 DEF HandlerTypes, HandlerOK, Waits, At
      <3>4. ASSUME NEW q \in Requests, q # r PROVE HandlerOK(q)'
        <4>1. req'[q] = req[q]
          BY <3>1, <3>4
        <4> QED BY <1>0, <3>2, <4>1 DEF HandlerOK, Waits, At, CoveredBy, Told, vars
      <3> QED BY <3>3, <3>4
    <2> QED BY <1>1, <2>1, <2>2 DEF ReadCurrent
  <1>2. CASE Look(r)
    <2>1. /\ At(r, "looking") /\ UNCHANGED <<expired, mu>>
          /\ \/ /\ HasPartOrSegment(store, req[r].msn, req[r].part)
                /\ Goes(r, "serving") /\ UNCHANGED watcher
             \/ Goes(r, "locking") /\ watcher' = [watcher EXCEPT ![r] = "armed"]
      BY <1>2 DEF Look
    <2>2. /\ req' \in [Requests -> Request]
          /\ req'[r].step \in {"serving", "locking"}
          /\ req'[r].msn = req[r].msn /\ req'[r].part = req[r].part
          /\ \A q \in Requests \ {r} : req'[q] = req[q]
      BY <1>0, <2>1, GoesMoves DEF Steps
    <2>3. /\ watcher' \in [Requests -> {"off", "armed", "firing"}]
          /\ \A q \in Requests \ {r} : watcher'[q] = watcher[q]
      BY <1>0, <2>1 DEF HandlerTypes
    <2>4. req'[r].step = "serving" => CoveredBy(Latest(store), r)
      BY <1>0, <2>1, FoundIsCovered, GoesMoves DEF Steps
    <2>5. req'[r].step = "locking" => watcher'[r] = "armed"
      BY <1>0, <2>1, GoesMoves DEF Steps, HandlerTypes
    <2>6. HandlerTypes' /\ HandlerOK(r)'
      BY <1>0, <2>1, <2>2, <2>3, <2>4, <2>5
      DEF HandlerTypes, HandlerOK, Waits, At, CoveredBy, vars
    <2>7. ASSUME NEW q \in Requests, q # r PROVE HandlerOK(q)'
      <3>1. req'[q] = req[q] /\ watcher'[q] = watcher[q]
        BY <2>2, <2>3, <2>7
      <3> QED BY <1>0, <2>1, <3>1 DEF HandlerOK, Waits, At, CoveredBy, Told, vars
    <2> QED BY <2>6, <2>7
  <1>3. CASE TakeLock(r)
    <2>1. ASSUME NEW code \in {"503", "none"}, Answer(r, code), UNCHANGED <<expired, mu>>
          PROVE  HandlerTypes' /\ \A q \in Requests : HandlerOK(q)'
      BY <1>3, <2>1, AnswerStep DEF TakeLock, At, Answers
    <2>2. CASE r \notin expired /\ Goes(r, "testing") /\ mu' = r /\ UNCHANGED watcher
      <3>1. /\ req' \in [Requests -> Request] /\ req'[r].step = "testing"
            /\ \A q \in Requests \ {r} : req'[q] = req[q]
        BY <1>0, <2>2, GoesMoves DEF Steps
      <3>2. /\ UNCHANGED <<expired, watcher>> /\ req[r].step = "locking"
            /\ mu = Free /\ mu' = r
        BY <1>3, <2>2 DEF TakeLock, At
      <3>3. HandlerTypes' /\ HandlerOK(r)'
        BY <1>0, <2>2, <3>1, <3>2 DEF HandlerTypes, HandlerOK, Waits, At
      <3>4. ASSUME NEW q \in Requests, q # r PROVE HandlerOK(q)'
        <4>1. req'[q] = req[q]
          BY <3>1, <3>4
        <4> QED BY <1>0, <3>2, <3>4, <4>1 DEF HandlerOK, Waits, At, CoveredBy, Told, vars
      <3> QED BY <3>3, <3>4
    <2> QED BY <1>3, <2>1, <2>2 DEF TakeLock
  <1>4. CASE Test(r)
    <2>1. /\ At(r, "testing") /\ mu = r /\ mu' = Free /\ UNCHANGED <<expired, watcher>>
          /\ \/ Reached(notifier, req[r].msn, req[r].part) /\ Goes(r, "serving")
             \/ ~Reached(notifier, req[r].msn, req[r].part) /\ Goes(r, "asleep")
      BY <1>4 DEF Test
    <2>2. /\ req' \in [Requests -> Request]
          /\ req'[r].step \in {"serving", "asleep"}
          /\ req'[r].msn = req[r].msn /\ req'[r].part = req[r].part
          /\ \A q \in Requests \ {r} : req'[q] = req[q]
      BY <1>0, <2>1, GoesMoves DEF Steps
    <2>3. req'[r].step = "serving" => store.ended \/ CoveredBy(Latest(store), r)
      BY <1>0, <2>1, ReleasedIsCovered, GoesMoves DEF Steps
    <2>4. req'[r].step = "asleep" => ~notifier.ended /\ ~CoveredBy(Told, r)
      BY <1>0, <2>1, ReachedIsCovered, GoesMoves DEF Steps, CoveredBy
    <2>5. HandlerTypes' /\ HandlerOK(r)'
      BY <1>0, <2>1, <2>2, <2>3, <2>4
      DEF HandlerTypes, HandlerOK, Waits, At, CoveredBy, Told, vars
    <2>6. ASSUME NEW q \in Requests, q # r PROVE HandlerOK(q)'
      <3>1. req'[q] = req[q]
        BY <2>2, <2>6
      <3> QED BY <1>0, <2>1, <2>6, <3>1 DEF HandlerOK, Waits, At, CoveredBy, Told, vars
    <2> QED BY <2>5, <2>6
  <1>5. CASE Serve(r)
    BY <1>5, AnswerStep DEF Serve, At, Answers
  <1>6. CASE WatcherFires(r)
    <2>1. /\ watcher[r] = "armed" /\ r \in expired /\ UNCHANGED <<req, expired, mu>>
          /\ watcher' = [watcher EXCEPT ![r] = "firing"]
      BY <1>6 DEF WatcherFires
    <2>2. HandlerTypes' /\ HandlerOK(r)'
      BY <1>0, <2>1 DEF HandlerTypes, HandlerOK, Waits, At, CoveredBy, Told, vars
    <2>3. ASSUME NEW q \in Requests, q # r PROVE HandlerOK(q)'
      <3>1. watcher'[q] = watcher[q]
        BY <1>0, <2>1, <2>3 DEF HandlerTypes
      <3> QED BY <1>0, <2>1, <3>1 DEF HandlerOK, Waits, At, CoveredBy, Told, vars
    <2> QED BY <2>2, <2>3
  <1>7. CASE WatcherBroadcasts(r)
    <2>1. /\ watcher[r] = "firing" /\ mu = Free /\ UNCHANGED <<expired, mu>>
          /\ req' = Woken(req)
          /\ watcher' = [watcher EXCEPT ![r] = "off"]
      BY <1>7 DEF WatcherBroadcasts
    <2>2. /\ req' \in [Requests -> Request]
          /\ \A q \in Requests :
                /\ req'[q].step = IF At(q, "asleep") THEN "locking" ELSE req[q].step
                /\ req'[q].msn = req[q].msn /\ req'[q].part = req[q].part
      BY <1>0, <2>1 DEF HandlerTypes, Woken, Request, Steps, At
    <2>3. HandlerTypes'
      BY <1>0, <2>1, <2>2 DEF HandlerTypes
    <2>4. ASSUME NEW q \in Requests PROVE HandlerOK(q)'
      <3>1. ~At(q, "testing") /\ HandlerOK(q)
        BY <1>0, <2>1 DEF HandlerOK
      <3>2. /\ req'[q].step = IF At(q, "asleep") THEN "locking" ELSE req[q].step
            /\ req'[q].msn = req[q].msn /\ req'[q].part = req[q].part
        BY <2>2
      <3>3. watcher'[q] = IF q = r THEN "off" ELSE watcher[q]
        BY <1>0, <2>1 DEF HandlerTypes
      <3> QED BY <2>1, <3>1, <3>2, <3>3 DEF HandlerOK, Waits, At, CoveredBy, Told, vars
    <2> QED BY <2>3, <2>4
  <1> QED BY <1>1, <1>2, <1>3, <1>4, <1>5, <1>6, <1>7 DEF Handle

-----------------------------------------------------------------------------
(* The store below them.                                                   *)

LEMMA MuxerStep ==
    ASSUME ReloadInv, StoreInv', EndIsTold', store.ended => store'.ended, Muxer
    PROVE  HandlerTypes' /\ \A q \in Requests : HandlerOK(q)'
  <1>0. HandlerTypes /\ StoreInv /\ UNCHANGED handlers /\ [Next]_vars
    BY DEF ReloadInv, Muxer, Next
  <1>1. UNCHANGED <<req, expired, watcher, mu, notifier>>
    BY DEF Muxer, handlers, SetInit, AddFragment, Finalize
  <1>2. HandlerTypes'
    BY <1>0, <1>1 DEF HandlerTypes
  <1>3. ASSUME NEW q \in Requests PROVE HandlerOK(q)'
    <2>1. HandlerOK(q) /\ req[q].msn \in Int /\ req[q].part \in Int
      BY <1>0 DEF ReloadInv, HandlerTypes, Request
    <2>2. CoveredBy(Latest(store), q) => Covers(Latest(store'), req[q].msn, req[q].part)
      BY <1>0, <2>1, CoveredStays DEF CoveredBy
    <2>3. At(q, "serving") =>
              store'.ended \/ Covers(Latest(store'), req[q].msn, req[q].part)
      BY <2>1, <2>2 DEF HandlerOK
    <2> QED BY <1>1, <2>1, <2>3 DEF HandlerOK, Waits, At, CoveredBy, Told
  <1> QED BY <1>2, <1>3

LEMMA AnnounceStep ==
    ASSUME ReloadInv, Announce
    PROVE  HandlerTypes' /\ \A q \in Requests : HandlerOK(q)'
  <1>0. /\ HandlerTypes /\ (\A q \in Requests : HandlerOK(q)) /\ Free \notin Requests
    BY ReloadAssumption DEF ReloadInv, ReloadAssumption, Free
  <1>1. /\ mu = Free /\ req' = Woken(req) /\ UNCHANGED <<expired, watcher, mu, store>>
    BY DEF Announce, Broadcast, BroadcastEnded
  <1>2. /\ req' \in [Requests -> Request]
        /\ \A q \in Requests :
              /\ req'[q].step = IF At(q, "asleep") THEN "locking" ELSE req[q].step
              /\ req'[q].msn = req[q].msn /\ req'[q].part = req[q].part
    BY <1>0, <1>1 DEF HandlerTypes, Woken, Request, Steps, At
  <1>3. HandlerTypes'
    BY <1>0, <1>1, <1>2 DEF HandlerTypes
  <1>4. ASSUME NEW q \in Requests PROVE HandlerOK(q)'
    <2>1. ~At(q, "testing") /\ HandlerOK(q)
      BY <1>0, <1>1 DEF HandlerOK
    <2>2. /\ req'[q].step = IF At(q, "asleep") THEN "locking" ELSE req[q].step
          /\ req'[q].msn = req[q].msn /\ req'[q].part = req[q].part
      BY <1>2
    <2> QED BY <1>1, <2>1, <2>2 DEF HandlerOK, Waits, At, CoveredBy
  <1> QED BY <1>3, <1>4

LEMMA ReloadInvNext == ReloadInv /\ [ReloadNext]_allVars => ReloadInv'
  <1> SUFFICES ASSUME ReloadInv, [ReloadNext]_allVars PROVE ReloadInv'
    OBVIOUS
  <1>1. [Next]_vars
    BY DEF ReloadNext, Muxer, Announce, Next, allVars, vars
  <1>2. StoreInv'
    BY <1>1, StoreInvNext DEF ReloadInv
  <1>3. EndIsTold' /\ (store.ended => store'.ended)
    BY <1>1, <1>2, EndIsToldNext DEF ReloadInv
  <1>4. CASE Muxer
    BY <1>2, <1>3, <1>4, MuxerStep DEF ReloadInv
  <1>5. CASE Announce
    BY <1>2, <1>3, <1>5, AnnounceStep DEF ReloadInv
  <1>6. ASSUME NEW r \in Requests, Handle(r) \/ Client(r), UNCHANGED vars
        PROVE  ReloadInv'
    BY <1>2, <1>3, <1>6, HandleStep, ClientStep DEF ReloadInv
  <1>7. CASE UNCHANGED allVars
    <2>1. UNCHANGED <<store, notifier, req, expired, watcher, mu>>
      BY <1>7 DEF allVars
    <2>2. HandlerTypes' /\ \A q \in Requests : HandlerOK(q)'
      BY <2>1 DEF ReloadInv, HandlerTypes, HandlerOK, Waits, At, CoveredBy, Told
    <2> QED BY <1>2, <1>3, <2>2 DEF ReloadInv
  <1> QED BY <1>4, <1>5, <1>6, <1>7 DEF ReloadNext

LEMMA ReloadInvariant == ReloadSpec => []ReloadInv
  BY ReloadInvInit, ReloadInvNext, PTL DEF ReloadSpec

-----------------------------------------------------------------------------
(***************************************************************************)
(* The handlers' state has its type, and the handler that tests the news   *)
(* is the holder of n.mu.                                                  *)
(***************************************************************************)
THEOREM ReloadTypeCorrect == ReloadSpec => []ReloadTypeOK
  <1>1. ReloadInv => ReloadTypeOK
    BY DEF ReloadInv, StoreInv, HandlerTypes, HandlerOK, ReloadTypeOK
  <1> QED BY <1>1, ReloadInvariant, PTL

(***************************************************************************)
(* No handler serves before the store contains what was asked for.         *)
(***************************************************************************)
THEOREM ServedIsThere == ReloadSpec => []ServesOnlyWhatIsThere
  <1>1. ReloadInv => ServesOnlyWhatIsThere
    <2> SUFFICES ASSUME ReloadInv, NEW r \in Requests, At(r, "serving"), ~store.ended
                 PROVE  Contains(store, r)
      BY DEF ServesOnlyWhatIsThere
    <2>1. Sound(store) /\ req[r].msn \in Nat /\ req[r].part \in Int
      BY DEF ReloadInv, StoreInv, HandlerTypes, Request
    <2>2. CoveredBy(Latest(store), r)
      BY DEF ReloadInv, HandlerOK
    <2> QED BY <2>1, <2>2, CoveredIsContained DEF CoveredBy
  <1> QED BY <1>1, ReloadInvariant, PTL

(***************************************************************************)
(* No wakeup is lost: with no broadcast owed, nobody sleeps on media that  *)
(* the store contains, however many requests wait and whatever they ask.   *)
(***************************************************************************)
THEOREM NoLostWakeup == ReloadSpec => []NobodySleepsOverMedia
  <1>1. ReloadInv => NobodySleepsOverMedia
    <2> SUFFICES ASSUME ReloadInv, owed = Nothing, NEW r \in Requests, At(r, "asleep")
                 PROVE  ~Contains(store, r)
      BY DEF NobodySleepsOverMedia
    <2>1. Sound(store) /\ req[r].msn \in Nat /\ req[r].part \in Int
      BY DEF ReloadInv, StoreInv, HandlerTypes, Request
    <2>2. Told = Latest(store)
      BY ToldIsThere DEF ReloadInv, Nothing
    <2>3. ~CoveredBy(Told, r)
      BY DEF ReloadInv, HandlerOK
    <2> QED BY <2>1, <2>2, <2>3, CoveredIsContained DEF CoveredBy
  <1> QED BY <1>1, ReloadInvariant, PTL

(***************************************************************************)
(* A sleeper whose context is done has a watcher still to wake it.         *)
(***************************************************************************)
THEOREM SleeperHasAlarm == ReloadSpec => []ExpiredSleeperHasAlarm
  <1>1. ReloadInv => ExpiredSleeperHasAlarm
    <2> SUFFICES ASSUME ReloadInv, NEW r \in Requests, At(r, "asleep")
                 PROVE  watcher[r] \in {"armed", "firing"}
      BY DEF ExpiredSleeperHasAlarm
    <2> QED BY DEF ReloadInv, HandlerTypes, HandlerOK
  <1> QED BY <1>1, ReloadInvariant, PTL

-----------------------------------------------------------------------------
(* The oldest number a playlist lists follows from the current one.        *)

LEMMA OldestIs ==
    ASSUME NEW s, Sound(s)
    PROVE  OldestMSN(s) = IF s.currentSeg.msn < PlaylistWindow
                          THEN 0 ELSE s.currentSeg.msn - (PlaylistWindow - 1)
  <1> DEFINE cur == s.currentSeg.msn
             len == Len(s.segments)
  <1>1. cur \in Int /\ cur >= -1 /\ len \in Nat /\ PlaylistWindow \in Nat \ {0}
    BY CurrentIs, StoreAssumption DEF StoreAssumption
  <1>2. len < PlaylistWindow /\ (len < PlaylistWindow - 1 => len = cur \/ cur = -1)
    BY CurrentIs DEF Sound, Windowed
  <1>3. CASE s.segments = <<>>
    <2>1. len = 0 /\ OldestMSN(s) = IF cur = -1 THEN 0 ELSE cur
      BY <1>3, CurrentIs DEF OldestMSN
    <2> HIDE DEF cur, len
    <2> QED BY <1>1, <1>2, <2>1 DEF cur
  <1>4. CASE s.segments # <<>>
    <2>1. 1 \in 1 .. len
      <3>1. s.segments \in Seq(Segment)
        BY StoreFields DEF Sound
      <3>2. len # 0
        BY <1>4, <3>1, EmptySeq
      <3> QED BY <1>1, <3>2
    <2>2. s.segments[1].msn = cur - len + 1 - 1 /\ s.segments[1].msn >= 0
      BY <2>1 DEF Sound, Windowed
    <2>3. OldestMSN(s) = s.segments[1].msn
      BY <1>4 DEF OldestMSN
    <2> DEFINE old == OldestMSN(s)
    <2>4. old = cur - len + 1 - 1 /\ old >= 0
      BY <2>2, <2>3
    <2> HIDE DEF cur, len, old
    <2>5. old = cur - len /\ cur >= len
      BY <1>1, <2>4
    <2> QED BY <1>1, <1>2, <2>1, <2>5 DEF cur, old
  <1> QED BY <1>3, <1>4

LEMMA OldestStays ==
    ASSUME NEW s, Sound(s), NEW t, Sound(t), GetCurrentMSN(t) >= GetCurrentMSN(s)
    PROVE  OldestMSN(s) \in Int /\ OldestMSN(t) \in Int /\ OldestMSN(t) >= OldestMSN(s)
  BY OldestIs, CurrentIs, StoreAssumption DEF StoreAssumption

\* Every number from the oldest to the current one is in the window.
LEMMA WindowIsFull ==
    ASSUME NEW s, Sound(s), NEW msn \in Int,
           OldestMSN(s) <= msn, msn < s.currentSeg.msn
    PROVE  \E i \in DOMAIN s.segments : s.segments[i].msn = msn
  <1> DEFINE cur == s.currentSeg.msn
             len == Len(s.segments)
             i == msn - (cur - len) + 1
  <1>1. cur \in Int /\ cur >= -1 /\ len \in Nat /\ DOMAIN s.segments = 1 .. len
    BY CurrentIs
  <1>2. OldestMSN(s) = cur - len
    <2>1. OldestMSN(s) = GetCurrentMSN(s) - len
      BY OldestByLength
    <2>2. cur = -1 => GetCurrentMSN(s) = 0 /\ len = 0
      BY CurrentIs, LenProperties DEF Sound, Windowed
    <2>3. cur # -1 => GetCurrentMSN(s) = cur
      BY CurrentIs
    <2> HIDE DEF cur, len
    <2> QED BY <1>1, <2>1, <2>2, <2>3 DEF cur
  <1>3. i \in 1 .. len
    <2> HIDE DEF cur, len
    <2> QED BY <1>1, <1>2 DEF cur
  <1>4. s.segments[i].msn = cur - len + i - 1
    BY <1>3 DEF Sound, Windowed
  <1>5. s.segments[i].msn = msn
    <2> HIDE DEF cur, len
    <2> QED BY <1>1, <1>4
  <1> QED BY <1>1, <1>3, <1>5

\* The current number never goes back.
LEMMA CurrentAdvances ==
    ASSUME NEW s, Sound(s), NEW t, Sound(t),
           Latest(t) = Latest(s) \/ Later(Latest(t), Latest(s))
    PROVE  GetCurrentMSN(t) >= GetCurrentMSN(s)
  <1>1. \A u : Sound(u) =>
           /\ u.currentSeg.msn \in Int /\ u.currentSeg.msn >= -1
           /\ Latest(u).part \in Int /\ Latest(u).part >= -1 /\ Latest(u).msn \in Int
           /\ Latest(u).msn = IF Latest(u).part = -1 /\ u.currentSeg.msn >= 0
                              THEN u.currentSeg.msn - 1 ELSE u.currentSeg.msn
    <2> SUFFICES ASSUME NEW u, Sound(u)
                 PROVE  /\ u.currentSeg.msn \in Int /\ u.currentSeg.msn >= -1
                        /\ Latest(u).part \in Int /\ Latest(u).part >= -1
                        /\ Latest(u).msn \in Int
                        /\ Latest(u).msn = IF Latest(u).part = -1 /\ u.currentSeg.msn >= 0
                                           THEN u.currentSeg.msn - 1 ELSE u.currentSeg.msn
      OBVIOUS
    <2>1. Latest(u).part = -1 <=> u.currentSeg.parts = <<>>
      BY LatestTypes DEF LatestPart
    <2> QED BY <2>1, LatestTypes DEF LatestMSN
  <1> QED BY <1>1, CurrentIs DEF Later

-----------------------------------------------------------------------------
(* What is hinted of a store: the next part of its current segment, or one *)
(* that is there.                                                          *)

Has(msn, part) == {seg \in Segment : seg.msn = msn => part < Len(seg.parts)}

Hinted(s, msn, part) ==
    /\ msn <= s.currentSeg.msn
    /\ msn = s.currentSeg.msn => part <= Len(s.currentSeg.parts)
    /\ \A i \in DOMAIN s.segments : s.segments[i] \in Has(msn, part)

LEMMA AccumulateHinted ==
    ASSUME NEW s, Sound(s), NEW id \in Nat,
           NEW frag \in Fragment, NEW lost \in SUBSET Uses,
           NEW msn \in Nat, NEW part \in Int, Hinted(s, msn, part)
    PROVE  Hinted(Accumulate(s, id, frag, lost), msn, part)
  <1>1. s.currentSeg # NoSegment
    BY CurrentIs DEF Hinted
  <1>2. /\ Accumulate(s, id, frag, lost).segments = s.segments
        /\ Accumulate(s, id, frag, lost).currentSeg = s.currentSeg
    BY <1>1, AccumulateFields DEF Sound
  <1> QED BY <1>2 DEF Hinted

LEMMA FinalizePartHinted ==
    ASSUME NEW s, Filled(s), NEW msn \in Nat, NEW part \in Int, Hinted(s, msn, part)
    PROVE  Hinted(FinalizePart(s).store, msn, part)
  <1> DEFINE grown == AppendPart(s)
             next == FinalizeSegment(grown)
             done == Done(grown.currentSeg)
  <1>1. /\ Sealable(grown) /\ grown \in StoreRecord /\ grown.segments = s.segments
        /\ grown.currentSeg.msn = s.currentSeg.msn
        /\ Len(grown.currentSeg.parts) = Len(s.currentSeg.parts) + 1
    BY AppendPartSound, AppendPartType, AppendPartFields DEF Filled, Sound
  <1>2. /\ s.currentSeg.msn \in Int /\ Len(s.currentSeg.parts) \in Nat
    BY LatestTypes DEF Filled
  <1>3. next.currentSeg = NewSegment(grown.currentSeg.msn + 1)
        /\ next.segments = TrimWindow(Append(grown.segments, done))
    BY <1>1, FinalizeSegmentSound, FinalizeSegmentFields
  <1>4. done \in Segment /\ done.msn = grown.currentSeg.msn
        /\ done.parts = grown.currentSeg.parts /\ grown.segments \in Seq(Segment)
    BY <1>1, StoreFields, DoneFields
  <1>5. FinalizePart(s).store = IF IsFull(grown.currentSeg) THEN next ELSE grown
    BY DEF FinalizePart
  <1> HIDE DEF grown, next, done
  <1>6. Hinted(grown, msn, part)
    BY <1>1, <1>2 DEF Hinted
  <1>7. Hinted(next, msn, part)
    <2>1. done \in Has(msn, part)
      BY <1>1, <1>2, <1>4 DEF Hinted, Has
    <2>2. \A i \in DOMAIN grown.segments : grown.segments[i] \in Has(msn, part)
      BY <1>6 DEF Hinted
    <2>3. \A i \in DOMAIN next.segments : next.segments[i] \in Has(msn, part)
      BY <1>3, <1>4, <2>1, <2>2, WindowKeeps
    <2>4. next.currentSeg.msn = s.currentSeg.msn + 1
      BY <1>1, <1>2, <1>3 DEF NewSegment
    <2> QED BY <1>2, <2>3, <2>4 DEF Hinted
  <1> QED BY <1>5, <1>6, <1>7

\* What is hinted of a store, and covered, is there or evicted.
LEMMA HintedIsThere ==
    ASSUME NEW s, Sound(s), NEW msn \in Nat, NEW part \in Nat,
           Hinted(s, msn, part), Covers(Latest(s), msn, part), ~HasPart(s, msn, part)
    PROVE  msn < OldestMSN(s)
  <1>1. /\ s.currentSeg.msn \in Int /\ Len(s.currentSeg.parts) \in Nat
        /\ s.currentSeg.msn >= -1
        /\ Latest(s).msn = IF s.currentSeg.parts = <<>> /\ s.currentSeg.msn >= 0
                           THEN s.currentSeg.msn - 1 ELSE s.currentSeg.msn
        /\ Latest(s).part = Len(s.currentSeg.parts) - 1
        /\ s.currentSeg.parts = <<>> <=> Len(s.currentSeg.parts) = 0
    BY LatestTypes DEF LatestMSN, LatestPart
  <1>2. s.currentSeg # NoSegment
    BY CurrentIs DEF Hinted
  <1>3. msn < s.currentSeg.msn
    <2> SUFFICES ASSUME msn = s.currentSeg.msn PROVE FALSE
      BY <1>1 DEF Hinted
    <2>1. part < Len(s.currentSeg.parts)
      BY <1>1 DEF Covers
    <2> QED BY <1>2, <2>1 DEF HasPart
  <1>4. SUFFICES ASSUME OldestMSN(s) <= msn PROVE FALSE
    <2>1. OldestMSN(s) \in Int
      BY OldestStays, CurrentIs
    <2> QED BY <1>4, <2>1
  <1>5. PICK i \in DOMAIN s.segments : s.segments[i].msn = msn
    BY <1>3, <1>4, WindowIsFull
  <1>6. part < Len(s.segments[i].parts)
    BY <1>5 DEF Hinted, Has
  <1> QED BY <1>5, <1>6 DEF HasPart

-----------------------------------------------------------------------------
(* The steps.                                                              *)

LEMMA HintedStays ==
    ASSUME StoreInv, [Next]_vars, NEW msn \in Nat, NEW part \in Int,
           Hinted(store, msn, part)
    PROVE  store'.ended \/ Hinted(store', msn, part)
  <1>1. /\ Sound(store) /\ store \in StoreRecord /\ fragments \in Seq(Fragment)
    BY DEF StoreInv, TypeOK
  <1>2. CASE SetInit
    BY <1>1, <1>2 DEF SetInit, StoreRecord, Hinted
  <1>3. ASSUME NEW frag \in Fragment, NEW lost \in SUBSET Uses, AddFragment(frag, lost)
        PROVE  Hinted(store', msn, part)
    <2> DEFINE fed == Accumulate(store, Len(fragments'), frag, lost)
    <2>1. Len(fragments') \in Nat
      BY <1>1, <1>3, AppendProperties, LenProperties DEF AddFragment
    <2>2. Filled(fed) /\ Hinted(fed, msn, part)
      BY <1>1, <2>1, AccumulateSound, AccumulateHinted
    <2>3. store' = FinalizePart(fed).store \/ store' = fed
      BY <1>3 DEF AddFragment
    <2> HIDE DEF fed
    <2> QED BY <2>2, <2>3, FinalizePartHinted
  <1>4. CASE Finalize
    <2> DEFINE flushed == FlushSegment(FlushPart(store)).store
    <2>1. store' = [flushed EXCEPT !.ended = TRUE] /\ flushed \in StoreRecord
      BY <1>1, <1>4, FlushType DEF Finalize
    <2> HIDE DEF flushed
    <2> QED BY <2>1 DEF StoreRecord
  <1>5. CASE Broadcast \/ BroadcastEnded \/ UNCHANGED vars
    BY <1>5 DEF Broadcast, BroadcastEnded, vars
  <1> QED BY <1>2, <1>3, <1>4, <1>5 DEF Next

HintOK(r) ==
    /\ req[r].kind = "part" =>
          req[r].part >= 0 /\ (store.ended \/ Hinted(store, req[r].msn, req[r].part))
    /\ req[r].answer = "404" => store.ended \/ req[r].msn < OldestMSN(store)

HintInv == ReloadInv /\ \A r \in Requests : HintOK(r)

LEMMA HintInvInit == ReloadInit => HintInv
  BY ReloadInvInit DEF ReloadInit, HintInv, HintOK, NoRequest

\* What a request was hinted at stays so; what it was denied stays evicted.
LEMMA HintStays ==
    ASSUME HintInv, ReloadInv', [Next]_vars, NEW r \in Requests,
           req'[r].msn = req[r].msn, req'[r].part = req[r].part,
           req'[r].kind = req[r].kind,
           req'[r].answer = "404" => store'.ended \/ req[r].msn < OldestMSN(store)
    PROVE  HintOK(r)'
  <1>1. StoreInv /\ StoreInv' /\ Sound(store) /\ Sound(store') /\ HintOK(r)
    BY DEF HintInv, ReloadInv, StoreInv
  <1>2. req[r].msn \in Nat /\ req[r].part \in Int
    BY DEF HintInv, ReloadInv, HandlerTypes, Request
  <1>3. store.ended => store'.ended
    BY <1>1, EndIsToldNext DEF HintInv, ReloadInv
  <1>4. Hinted(store, req[r].msn, req[r].part) =>
            store'.ended \/ Hinted(store', req[r].msn, req[r].part)
    BY <1>1, <1>2, HintedStays
  <1>5. /\ OldestMSN(store) \in Int /\ OldestMSN(store') \in Int
        /\ OldestMSN(store') >= OldestMSN(store)
    <2>1. GetCurrentMSN(store') >= GetCurrentMSN(store)
      BY <1>1, LatestAdvances, CurrentAdvances
    <2> QED BY <1>1, <2>1, OldestStays
  <1>6. req[r].msn < OldestMSN(store) => req[r].msn < OldestMSN(store')
    BY <1>2, <1>5
  <1> QED BY <1>1, <1>3, <1>4, <1>6 DEF HintOK

\* A new request is hinted at the next part.
LEMMA AskStep ==
    ASSUME HintInv, NEW r \in Requests, AskPart(r), UNCHANGED vars
    PROVE  HintOK(r)'
  <1> DEFINE msn == Hint(store)[1]
             part == Hint(store)[2]
  <1>1. /\ req' = [req EXCEPT ![r] = [NoRequest EXCEPT !.step = "looking",
                                        !.kind = "part", !.msn = msn, !.part = part]]
        /\ store' = store
    BY DEF AskPart, vars
  <1>2. Sound(store) /\ req \in [Requests -> Request]
    BY DEF HintInv, ReloadInv, StoreInv, HandlerTypes
  <1>3. /\ msn = store.currentSeg.msn /\ part = Len(store.currentSeg.parts)
        /\ msn \in Int /\ part \in Nat
    BY <1>2, LatestTypes DEF Hint
  <1>4. ASSUME NEW i \in DOMAIN store.segments PROVE store.segments[i] \in Has(msn, part)
    <2>1. store.segments[i].msn < msn /\ store.segments[i].msn \in Int
      BY <1>2, <1>3, WindowIsOlder
    <2>2. store.segments[i] \in Segment
      BY <1>2, StoreFields, ElementOfSeq, LenProperties DEF Sound
    <2> QED BY <1>3, <2>1, <2>2 DEF Has
  <1>5. Hinted(store, msn, part)
    BY <1>3, <1>4 DEF Hinted
  <1>6. /\ req'[r].msn = msn /\ req'[r].part = part /\ req'[r].answer = "-"
        /\ req'[r].kind = "part"
    BY <1>1, <1>2 DEF NoRequest
  <1> HIDE DEF msn, part
  <1> QED BY <1>1, <1>3, <1>5, <1>6 DEF HintOK

\* A part is denied only when it is neither there nor to come.
LEMMA ServeStep ==
    ASSUME HintInv, ReloadInv', NEW r \in Requests, Serve(r), UNCHANGED vars
    PROVE  HintOK(r)'
  <1> DEFINE msn == req[r].msn
             part == req[r].part
  <1>1. /\ Sound(store) /\ req \in [Requests -> Request] /\ HintOK(r) /\ HandlerOK(r)
        /\ msn \in Nat /\ part \in Int /\ store' = store /\ [Next]_vars
    BY DEF HintInv, ReloadInv, StoreInv, HandlerTypes, Request, vars
  <1>2. /\ req'[r].msn = msn /\ req'[r].part = part /\ req'[r].kind = req[r].kind
        /\ req'[r].answer = IF req[r].kind = "part" /\ ~HasPart(store, msn, part)
                            THEN "404" ELSE "200"
    BY <1>1 DEF Serve, Answer, Request
  <1>3. ASSUME req'[r].answer = "404" PROVE store.ended \/ msn < OldestMSN(store)
    <2>1. req[r].kind = "part" /\ ~HasPart(store, msn, part)
      BY <1>2, <1>3
    <2>2. store.ended \/ (Hinted(store, msn, part) /\ part >= 0)
      BY <1>1, <2>1 DEF HintOK
    <2>3. store.ended \/ Covers(Latest(store), msn, part)
      BY <1>1 DEF HandlerOK, CoveredBy, Serve
    <2> QED BY <1>1, <2>1, <2>2, <2>3, HintedIsThere
  <1> QED BY <1>1, <1>2, <1>3, HintStays

LEMMA HintInvNext == HintInv /\ [ReloadNext]_allVars => HintInv'
  <1> SUFFICES ASSUME HintInv, [ReloadNext]_allVars PROVE HintInv'
    OBVIOUS
  <1>1. ReloadInv' /\ req \in [Requests -> Request] /\ \A q \in Requests : HintOK(q)
    BY ReloadInvNext DEF HintInv, ReloadInv, HandlerTypes
  <1>2. [Next]_vars
    BY DEF ReloadNext, Muxer, Announce, Next, allVars, vars
  <1>3. SUFFICES ASSUME NEW q \in Requests PROVE HintOK(q)'
    BY <1>1 DEF HintInv
  \* Most steps leave what q asks for, and what it was answered.
  <1>4. ASSUME /\ req'[q].msn = req[q].msn /\ req'[q].part = req[q].part
               /\ req'[q].kind = req[q].kind
               /\ req'[q].answer = req[q].answer \/ req'[q].answer # "404"
        PROVE  HintOK(q)'
    BY <1>1, <1>2, <1>4, HintStays, EndIsToldNext DEF HintOK, HintInv, ReloadInv
  <1>5. CASE Muxer \/ UNCHANGED allVars
    BY <1>4, <1>5 DEF Muxer, handlers, allVars
  <1>6. ASSUME req' = Woken(req) PROVE HintOK(q)'
    BY <1>1, <1>4, <1>6 DEF Woken, Request
  <1>7. ASSUME NEW r \in Requests, UNCHANGED vars, Handle(r) PROVE HintOK(q)'
    <2>1. ASSUME NEW step, Goes(r, step) PROVE HintOK(q)'
      BY <1>1, <1>4, <2>1 DEF Goes, Request
    <2>2. ASSUME NEW code, Answer(r, code), code # "404" PROVE HintOK(q)'
      BY <1>1, <1>4, <2>2 DEF Answer, Request
    <2>3. CASE Serve(r)
      <3>1. CASE q = r
        BY <1>1, <1>7, <2>3, <3>1, ServeStep
      <3>2. CASE q # r
        BY <1>1, <1>4, <2>3, <3>2 DEF Serve, Answer
      <3> QED BY <3>1, <3>2
    <2>4. CASE WatcherFires(r)
      BY <1>4, <2>4 DEF WatcherFires
    <2> QED BY <1>6, <1>7, <2>1, <2>2, <2>3, <2>4
        DEF Handle, ReadCurrent, Look, TakeLock, Test, WatcherBroadcasts
  <1>8. ASSUME NEW r \in Requests, UNCHANGED vars, Client(r) PROVE HintOK(q)'
    <2>1. CASE q # r \/ Expire(r)
      BY <1>1, <1>4, <1>8, <2>1 DEF Client, AskPlaylist, AskPart, Expire, Forget
    <2>2. CASE q = r /\ AskPart(r)
      BY <1>8, <2>2, AskStep
    <2>3. CASE q = r /\ ~AskPart(r) /\ ~Expire(r)
      <3>1. req'[q].kind # "part" /\ req'[q].answer = "-"
        <4>1. CASE Forget(r)
          BY <1>1, <2>3, <4>1 DEF Forget, NoRequest
        <4>2. ASSUME NEW msn, NEW part, AskPlaylist(r, msn, part)
              PROVE  req'[q].kind # "part" /\ req'[q].answer = "-"
          BY <1>1, <2>3, <4>2 DEF AskPlaylist, NoRequest
        <4> QED BY <1>8, <2>3, <4>1, <4>2 DEF Client
      <3> QED BY <3>1 DEF HintOK
    <2> QED BY <2>1, <2>2, <2>3
  <1> QED BY <1>5, <1>6, <1>7, <1>8 DEF ReloadNext, Announce

(***************************************************************************)
(* A part that was hinted is not denied before the end of the stream,      *)
(* unless its segment was evicted, whatever the muxer did since the hint.  *)
(***************************************************************************)
THEOREM HintKept == ReloadSpec => []HintedPartIsNotDenied
  <1>1. HintInv => HintedPartIsNotDenied
    BY DEF HintInv, HintOK, HintedPartIsNotDenied
  <1> QED BY <1>1, HintInvInit, HintInvNext, PTL DEF ReloadSpec
(***************************************************************************)
(* The store and the notifier that the handlers wait on are those of       *)
(* module Store: handlers, watchers and clients change neither, so what is *)
(* proved of the store holds however many requests block on it.            *)
(***************************************************************************)
THEOREM ReloadIsStream == ReloadSpec => Spec
  <1>1. ReloadInit => Init
    BY DEF ReloadInit
  <1>2. [ReloadNext]_allVars => [Next]_vars
    BY DEF ReloadNext, Muxer, Announce, Next, allVars, vars
  <1> QED BY <1>1, <1>2, PTL DEF ReloadSpec, Spec

=============================================================================

--------------------------- MODULE BlockingReload ---------------------------
(***************************************************************************)
(* LL-HLS blocking requests: the handlers servePlaylist and servePart of   *)
(* internal/httpserver/server.go, and the condition variable they sleep on *)
(* (Notifier.WaitFor and OnContextCancel of internal/hls/store/notifier.go)*)
(* while the muxer thread fills the store.                                 *)
(*                                                                         *)
(* A handler reads the store under RLocks it takes and releases one by     *)
(* one, then tests and sleeps under the notifier's mutex n.mu, then reads  *)
(* the store again; the muxer may run between any two of these steps.      *)
(* WaitFor looks at its context before it looks at the news, and the       *)
(* context may expire in between: those are two steps, with n.mu held.     *)
(*                                                                         *)
(* Left out: requests without _HLS_msn, and the requests for init.mp4 and  *)
(* segment-N.m4s, which read the store once and never wait.                *)
(***************************************************************************)
EXTENDS Store

CONSTANTS
    Requests,   \* the requests that may be in flight together
    MaxTarget,  \* bound: the largest _HLS_msn a client asks for
    MaxPart     \* bound: the largest _HLS_part a client asks for

ASSUME ReloadAssumption ==
    MaxTarget \in Nat /\ MaxPart \in Nat /\ "free" \notin Requests

VARIABLES
    req,        \* each request: what it asks, how far its handler is, its answer
    expired,    \* the requests whose context is done
    watcher,    \* the goroutine that OnContextCancel starts for each request
    mu          \* who holds n.mu

handlers == <<req, expired, watcher, mu>>
allVars == <<fragments, store, owed, notifier, req, expired, watcher, mu>>

Free == "free"

(***************************************************************************)
(* The steps of a handler.                                                 *)
(*   idle     no request                                                   *)
(*   arrived  to read GetCurrentMSN (playlists only)                       *)
(*   looking  to read HasPartOrSegment or HasPart                          *)
(*   locking  in WaitFor, to take n.mu: on entry, or woken in cond.Wait    *)
(*   testing  holds n.mu, has seen its context not done                    *)
(*   asleep   in cond.Wait                                                 *)
(*   serving  to read the playlist's Snapshot or the part                  *)
(*   done     answered                                                     *)
(***************************************************************************)
Steps == {"idle", "arrived", "looking", "locking", "testing", "asleep", "serving", "done"}

\* "none": the client had gone, nothing was written.
Answers == {"-", "200", "400", "404", "503", "none"}

NoRequest == [step |-> "idle", kind |-> "-", msn |-> 0, part |-> -1,
              answer |-> "-"]

At(r, step) == req[r].step = step

Goes(r, step) == req' = [req EXCEPT ![r].step = step]

\* cond.Broadcast: every sleeper is up, and has n.mu to take again.
Woken(q) == [r \in Requests |-> IF q[r].step = "asleep"
                                THEN [q[r] EXCEPT !.step = "locking"] ELSE q[r]]

(***************************************************************************)
(* The handler returns.  Its deferred calls close `done` and cancel the    *)
(* context: the watcher, if it runs, sees both and may take either branch. *)
(***************************************************************************)
Answer(r, code) ==
    /\ req' = [req EXCEPT ![r].step = "done", ![r].answer = code]
    /\ IF watcher[r] = "armed"
       THEN \E w \in {"off", "firing"} : watcher' = [watcher EXCEPT ![r] = w]
       ELSE UNCHANGED watcher

-----------------------------------------------------------------------------
ReloadInit ==
    /\ Init
    /\ req = [r \in Requests |-> NoRequest]
    /\ expired = {}
    /\ watcher = [r \in Requests |-> "off"]
    /\ mu = Free

\* The part that a playlist served now hints at (EXT-X-PRELOAD-HINT).
Hint_OnePartAhead(s) == <<s.currentSeg.msn, Len(s.currentSeg.parts) + 1>>
Hint(s) == <<s.currentSeg.msn, Len(s.currentSeg.parts)>>

\* A client asks for a playlist of its choice.
AskPlaylist(r, msn, part) ==
    /\ At(r, "idle") /\ watcher[r] = "off"
    /\ req' = [req EXCEPT ![r] = [NoRequest EXCEPT !.step = "arrived",
                                    !.kind = "playlist", !.msn = msn, !.part = part]]
    /\ UNCHANGED <<expired, watcher, mu>>

\* A client asks for the part its playlist hinted at.  The playlist may be old
\* by the time the handler looks: between the two steps the muxer may run.
AskPart(r) ==
    /\ At(r, "idle") /\ watcher[r] = "off"
    /\ store.currentSeg # NoSegment /\ ~store.ended
    /\ req' = [req EXCEPT ![r] = [NoRequest EXCEPT !.step = "looking", !.kind = "part",
                                    !.msn = Hint(store)[1], !.part = Hint(store)[2]]]
    /\ UNCHANGED <<expired, watcher, mu>>

(***************************************************************************)
(* A playlist more than two segments ahead of the current one is refused.  *)
(* The code makes this test after its look at the target, but of the       *)
(* current number it read before.                                          *)
(***************************************************************************)
ReadCurrent(r) ==
    /\ At(r, "arrived")
    /\ IF req[r].msn > GetCurrentMSN(store) + 2
       THEN Answer(r, "400")
       ELSE Goes(r, "looking") /\ UNCHANGED watcher
    /\ UNCHANGED <<expired, mu>>

\* Is the target there already?  To wait, the handler arms the watcher.
Look_NeverWaits(r) ==
    /\ At(r, "looking")
    /\ Goes(r, "serving")
    /\ UNCHANGED <<expired, watcher, mu>>

Look(r) ==
    /\ At(r, "looking")
    /\ IF HasPartOrSegment(store, req[r].msn, req[r].part)
       THEN Goes(r, "serving") /\ UNCHANGED watcher
       ELSE Goes(r, "locking") /\ watcher' = [watcher EXCEPT ![r] = "armed"]
    /\ UNCHANGED <<expired, mu>>

\* The 3 x SegmentDuration timeout, or the client going away.
Expire(r) ==
    /\ req[r].step \in {"locking", "testing", "asleep"} /\ r \notin expired
    /\ expired' = expired \cup {r}
    /\ UNCHANGED <<req, watcher, mu>>

\* n.mu is taken, and the context looked at.
TakeLock_OfTheHolder(r) ==
    /\ At(r, "locking")
    /\ IF r \in expired
       THEN (\E code \in {"503", "none"} : Answer(r, code)) /\ UNCHANGED mu
       ELSE Goes(r, "testing") /\ mu' = r /\ UNCHANGED watcher
    /\ UNCHANGED expired

TakeLock(r) ==
    /\ At(r, "locking") /\ mu = Free
    /\ IF r \in expired
       THEN (\E code \in {"503", "none"} : Answer(r, code)) /\ UNCHANGED mu
       ELSE Goes(r, "testing") /\ mu' = r /\ UNCHANGED watcher
    /\ UNCHANGED expired

\* With n.mu held: the news releases the request, or it goes to sleep, which
\* puts it on the condition's list before n.mu is released.
Test(r) ==
    /\ At(r, "testing") /\ mu = r
    /\ IF Reached(notifier, req[r].msn, req[r].part) THEN Goes(r, "serving")
                                                     ELSE Goes(r, "asleep")
    /\ mu' = Free
    /\ UNCHANGED <<expired, watcher>>

\* generatePlaylist reads a Snapshot; servePart reads GetPart once more.
Serve(r) ==
    /\ At(r, "serving")
    /\ Answer(r, IF req[r].kind = "part" /\ ~HasPart(store, req[r].msn, req[r].part)
                 THEN "404" ELSE "200")
    /\ UNCHANGED <<expired, mu>>

\* The watcher sees its context done, and goes for n.mu ...
WatcherFires(r) ==
    /\ watcher[r] = "armed" /\ r \in expired
    /\ watcher' = [watcher EXCEPT ![r] = "firing"]
    /\ UNCHANGED <<req, expired, mu>>

\* ... with which it wakes everybody.
WatcherBroadcasts_WithoutLock(r) ==
    /\ watcher[r] = "firing"
    /\ req' = Woken(req)
    /\ watcher' = [watcher EXCEPT ![r] = "off"]
    /\ UNCHANGED <<expired, mu>>

WatcherBroadcasts_ToNobody(r) ==
    /\ watcher[r] = "firing" /\ mu = Free
    /\ watcher' = [watcher EXCEPT ![r] = "off"]
    /\ UNCHANGED <<req, expired, mu>>

WatcherBroadcasts(r) ==
    /\ watcher[r] = "firing" /\ mu = Free
    /\ req' = Woken(req)
    /\ watcher' = [watcher EXCEPT ![r] = "off"]
    /\ UNCHANGED <<expired, mu>>

\* The connection is ready for another request.
Forget(r) ==
    /\ At(r, "done")
    /\ req' = [req EXCEPT ![r] = NoRequest]
    /\ expired' = expired \ {r}
    /\ UNCHANGED <<watcher, mu>>

Handle(r) ==
    \/ ReadCurrent(r) \/ Look(r) \/ TakeLock(r) \/ Test(r) \/ Serve(r)
    \/ WatcherFires(r) \/ WatcherBroadcasts(r)

Client(r) ==
    \/ \E msn \in 0 .. MaxTarget, part \in -1 .. MaxPart : AskPlaylist(r, msn, part)
    \/ AskPart(r)
    \/ Expire(r)
    \/ Forget(r)

\* The store's own steps; only a broadcast touches the handlers, and needs n.mu.
Muxer ==
    /\ \/ SetInit
       \/ \E frag \in Fragment, lost \in SUBSET Uses : AddFragment(frag, lost)
       \/ Finalize
    /\ UNCHANGED handlers

Announce_WakesNobody ==
    /\ mu = Free
    /\ Broadcast \/ BroadcastEnded
    /\ UNCHANGED handlers

Announce ==
    /\ mu = Free
    /\ Broadcast \/ BroadcastEnded
    /\ req' = Woken(req)
    /\ UNCHANGED <<expired, watcher, mu>>

ReloadNext ==
    \/ Muxer
    \/ Announce
    \/ \E r \in Requests : (Handle(r) \/ Client(r)) /\ UNCHANGED vars

ReloadSpec == ReloadInit /\ [][ReloadNext]_allVars

(***************************************************************************)
(* Fairness: a running handler or watcher keeps running, and a sync.Mutex  *)
(* that is free again and again is eventually got (its starvation mode     *)
(* hands it over first come first served), hence SF on the steps that take *)
(* n.mu.  Nothing is assumed of the muxer, the clients or the timeouts.    *)
(***************************************************************************)
ReloadFairness ==
    /\ SF_allVars(Announce)
    /\ \A r \in Requests :
          /\ WF_allVars((ReadCurrent(r) \/ Look(r) \/ Test(r) \/ Serve(r)
                           \/ WatcherFires(r)) /\ UNCHANGED vars)
          /\ SF_allVars(TakeLock(r) /\ UNCHANGED vars)
          /\ SF_allVars(WatcherBroadcasts(r) /\ UNCHANGED vars)

FairReloadSpec == ReloadSpec /\ ReloadFairness

-----------------------------------------------------------------------------
(* Properties.                                                             *)

Request == [step : Steps, kind : {"-", "playlist", "part"}, msn : Nat,
            part : Int, answer : Answers]

\* The type of the handlers' state; only the holder of n.mu tests the news.
ReloadTypeOK ==
    /\ TypeOK
    /\ req \in [Requests -> Request]
    /\ expired \subseteq Requests
    /\ watcher \in [Requests -> {"off", "armed", "firing"}]
    /\ mu \in Requests \cup {Free}
    /\ \A r \in Requests : At(r, "testing") <=> mu = r

\* The store holds, or has held, what r asks for: a part or segment that was
\* evicted since is older than the current segment.
Contains(s, r) ==
    \/ req[r].msn < GetCurrentMSN(s)
    \/ HasPartOrSegment(s, req[r].msn, req[r].part)

(***************************************************************************)
(* "WaitFor blocks until the store contains at least segment targetMSN and *)
(* part targetPart": no handler goes on to serve before the store contains *)
(* what was asked for, or the stream is over.  The news that released it   *)
(* was broadcast after s.mu was released, never before the store changed.  *)
(***************************************************************************)
ServesOnlyWhatIsThere ==
    \A r \in Requests : At(r, "serving") => Contains(store, r) \/ store.ended

(***************************************************************************)
(* A hinted part is denied (404) only if the stream ended without it or    *)
(* its segment was evicted before the handler looked: the hint names the   *)
(* very next part of the store, whatever the muxer does in between.        *)
(***************************************************************************)
HintedPartIsNotDenied ==
    \A r \in Requests :
        req[r].answer = "404" => store.ended \/ req[r].msn < OldestMSN(store)

(***************************************************************************)
(* No lost wakeup: once no broadcast is owed, nobody sleeps on media that  *)
(* the store contains, although the part may have been added between the   *)
(* handler's look at the store and its look at the news.                   *)
(***************************************************************************)
NobodySleepsOverMedia ==
    owed = Nothing =>
        \A r \in Requests : At(r, "asleep") => ~Contains(store, r)

(***************************************************************************)
(* A sleeper whose context is done has a watcher still to wake it, even if *)
(* the context expired after WaitFor looked at it and before it slept:     *)
(* that is why OnContextCancel broadcasts under n.mu.                      *)
(***************************************************************************)
ExpiredSleeperHasAlarm ==
    \A r \in Requests :
        At(r, "asleep") /\ r \in expired => watcher[r] \in {"armed", "firing"}

(***************************************************************************)
(* "Always broadcast after marking ended so that any clients blocked on a  *)
(* blocking playlist reload (WaitFor) are woken and can read the final     *)
(* playlist" (Store.Finalize), and BroadcastEnded "unblocks all WaitFor    *)
(* calls": once the end has been broadcast nobody is left asleep.          *)
(***************************************************************************)
EndWakesEveryWaiter ==
    store.ended /\ owed = Nothing => \A r \in Requests : ~At(r, "asleep")

(***************************************************************************)
(* A request that waits for media the store contains is answered, with no  *)
(* help from its timeout.                                                  *)
(***************************************************************************)
MediaReleasesWaiters ==
    \A r \in Requests :
        (At(r, "asleep") /\ Contains(store, r)) ~> At(r, "done")

(***************************************************************************)
(* A request whose time is up, or whose client went away, does not stay in *)
(* WaitFor: its handler returns.                                           *)
(***************************************************************************)
ExpiredRequestsReturn ==
    \A r \in Requests :
        (r \in expired /\ req[r].step \in {"locking", "testing", "asleep"})
            ~> At(r, "done")

=============================================================================

------------------------------ MODULE Sessions ------------------------------
(***************************************************************************)
(* The life of a session: the gRPC handlers of internal/server/server.go,  *)
(* RegisterSession, UnregisterSession and the grace timers of              *)
(* internal/httpserver/server.go, and the session handles and callback map *)
(* of internal/webrtchls/webrtchls.go, around a native library that is     *)
(* external.                                                               *)
(*                                                                         *)
(* CreateSession and DestroySession hold the gRPC server's mutex from      *)
(* their first look to their return, and so does Close; the other calls    *)
(* hold it only to look the session up, and go on with what they found.    *)
(* The HTTP server's mutex and the callback map's are held for one         *)
(* statement at a time, so each such statement is a step; router, muxer    *)
(* threads and timers run between them.                                    *)
(*                                                                         *)
(* Every successful native create is followed by one NewStore and one      *)
(* callback id, so one number names the Session, its native handle, its    *)
(* store and its callback.  Of the library is assumed what its header      *)
(* says: a destroyed session is gone with its threads, so destroying one   *)
(* waits for the callback its muxer thread is in.  Of a store only whether *)
(* it was finalized, and how much it was fed, is kept (see module Store).  *)
(***************************************************************************)
EXTENDS Integers, FiniteSets

CONSTANTS
    Ids,            \* session ids a controller uses
    Callers,        \* gRPC handlers that may run together
    MaxSessions,    \* bound: native sessions ever created
    MaxFragments    \* bound: fragments fed to one store

ASSUME SessionsAssumption ==
    /\ MaxSessions \in Nat /\ MaxFragments \in Nat
    /\ {"main", "free"} \cap Callers = {}

VARIABLES
    sessions,   \* Server.sessions: the number of each id's session, None if none
    memStats,   \* the ids in Server.memStats
    stores,     \* httpserver's Server.stores, likewise
    callbacks,  \* the keys of segmentCallbackMap
    handle,     \* the sessions whose Session.handle is not nil
    native,     \* the library's side of each session
    muxer,      \* the muxer thread of each session
    fed,        \* how many fragments each store was given
    ended,      \* the stores that were finalized
    timers,     \* the grace periods running, each of an id and a store
    calls,      \* what each handler, and main, is doing
    mu,         \* who holds the gRPC server's mutex for writing
    stopping    \* the process was told to stop

vars == <<sessions, memStats, stores, callbacks, handle, native, muxer, fed,
          ended, timers, calls, mu, stopping>>

Numbers == 1 .. MaxSessions
None == 0
Main == "main"
Free == "free"

(***************************************************************************)
(* The steps of CreateSession (creating .. recording), of DestroySession   *)
(* (unhooking .. forgetting) and of the other calls (reading, entering).   *)
(* main, in Close, alternates between picking a session and destroying it. *)
(***************************************************************************)
Critical == {"creating", "registering", "hooking", "installing", "dropping",
             "recording", "unhooking", "stopping", "clearing", "finalizing",
             "arming", "forgetting", "picking"}
Steps == Critical \cup {"idle", "waiting", "reading", "entering", "closed"}

Call(step, op, id, n, answer) ==
    [step |-> step, op |-> op, id |-> id, n |-> n, answer |-> answer]

At(c, step) == calls[c].step = step

Goes(c, step) == calls' = [calls EXCEPT ![c].step = step]

\* The handler returns.
Answers(c, answer) ==
    calls' = [calls EXCEPT ![c] = Call("idle", "-", "-", None, answer)]

\* The number the library's next session will have.
NextNumber == 1 + Cardinality({n \in Numbers : native[n] # "none"})

-----------------------------------------------------------------------------
Init ==
    /\ sessions = [id \in Ids |-> None]
    /\ memStats = {}
    /\ stores = [id \in Ids |-> None]
    /\ callbacks = {} /\ handle = {}
    /\ native = [n \in Numbers |-> "none"]
    /\ muxer = [n \in Numbers |-> "idle"]
    /\ fed = [n \in Numbers |-> 0]
    /\ ended = {} /\ timers = {}
    /\ calls = [c \in Callers \cup {Main} |-> Call("idle", "-", "-", None, "-")]
    /\ mu = Free
    /\ stopping = FALSE

\* A controller calls.  GracefulStop refuses new calls.
Ask(c, op, id) ==
    /\ At(c, "idle") /\ ~stopping
    /\ calls' = [calls EXCEPT ![c] = Call("waiting", op, id, None, "-")]
    /\ UNCHANGED <<sessions, memStats, stores, callbacks, handle, native, muxer,
                   fed, ended, timers, mu, stopping>>

-----------------------------------------------------------------------------
(* CreateSession, and in it RegisterSession and SetSegmentCallback.        *)

BeginCreate(c) ==
    /\ At(c, "waiting") /\ calls[c].op = "create" /\ mu = Free
    /\ IF sessions[calls[c].id] # None
       THEN Answers(c, "exists") /\ UNCHANGED mu
       ELSE Goes(c, "creating") /\ mu' = c
    /\ UNCHANGED <<sessions, memStats, stores, callbacks, handle, native, muxer,
                   fed, ended, timers, stopping>>

\* webrtc_hls_session_create gives a handle or NULL.
CreateNative_KeepsLock(c) ==
    /\ At(c, "creating")
    /\ \/ /\ NextNumber \in Numbers
          /\ native' = [native EXCEPT ![NextNumber] = "live"]
          /\ handle' = handle \cup {NextNumber}
          /\ sessions' = [sessions EXCEPT ![calls[c].id] = NextNumber]
          /\ calls' = [calls EXCEPT ![c].step = "registering", ![c].n = NextNumber]
          /\ UNCHANGED mu
       \/ /\ Answers(c, "internal")
          /\ UNCHANGED <<native, handle, sessions, mu>>
    /\ UNCHANGED <<memStats, stores, callbacks, muxer, fed, ended, timers, stopping>>

CreateNative(c) ==
    /\ At(c, "creating")
    /\ \/ /\ NextNumber \in Numbers
          /\ native' = [native EXCEPT ![NextNumber] = "live"]
          /\ handle' = handle \cup {NextNumber}
          /\ sessions' = [sessions EXCEPT ![calls[c].id] = NextNumber]
          /\ calls' = [calls EXCEPT ![c].step = "registering", ![c].n = NextNumber]
          /\ UNCHANGED mu
       \/ /\ Answers(c, "internal") /\ mu' = Free
          /\ UNCHANGED <<native, handle, sessions>>
    /\ UNCHANGED <<memStats, stores, callbacks, muxer, fed, ended, timers, stopping>>

\* RegisterSession's new store replaces one that is in its grace period.
Register(c) ==
    /\ At(c, "registering")
    /\ stores' = [stores EXCEPT ![calls[c].id] = calls[c].n]
    /\ Goes(c, "hooking")
    /\ UNCHANGED <<sessions, memStats, callbacks, handle, native, muxer, fed,
                   ended, timers, mu, stopping>>

\* The callback is in the map before the library knows of it ...
Hook(c) ==
    /\ At(c, "hooking")
    /\ callbacks' = callbacks \cup {calls[c].n}
    /\ Goes(c, "installing")
    /\ UNCHANGED <<sessions, memStats, stores, handle, native, muxer, fed, ended,
                   timers, mu, stopping>>

\* ... which may refuse it: then it is taken out of the map again.
Install(c) ==
    /\ At(c, "installing")
    /\ \/ /\ native' = [native EXCEPT ![calls[c].n] = "hooked"]
          /\ Goes(c, "recording")
          /\ UNCHANGED callbacks
       \/ /\ callbacks' = callbacks \ {calls[c].n}
          /\ Goes(c, "dropping")
          /\ UNCHANGED native
    /\ UNCHANGED <<sessions, memStats, stores, handle, muxer, fed, ended, timers,
                   mu, stopping>>

\* RegisterSession failed; CreateSession only logs that.
DropStore(c) ==
    /\ At(c, "dropping")
    /\ stores' = [stores EXCEPT ![calls[c].id] = None]
    /\ Goes(c, "recording")
    /\ UNCHANGED <<sessions, memStats, callbacks, handle, native, muxer, fed,
                   ended, timers, mu, stopping>>

RecordStats(c) ==
    /\ At(c, "recording")
    /\ memStats' = memStats \cup {calls[c].id}
    /\ Answers(c, "ok") /\ mu' = Free
    /\ UNCHANGED <<sessions, stores, callbacks, handle, native, muxer, fed, ended,
                   timers, stopping>>

-----------------------------------------------------------------------------
(* DestroySession, in it Session.Destroy and UnregisterSession.            *)

BeginDestroy(c) ==
    /\ At(c, "waiting") /\ calls[c].op = "destroy" /\ mu = Free
    /\ IF sessions[calls[c].id] = None
       THEN Answers(c, "notfound") /\ UNCHANGED mu
       ELSE /\ calls' = [calls EXCEPT ![c].step = "unhooking",
                                      ![c].n = sessions[calls[c].id]]
            /\ mu' = c
    /\ UNCHANGED <<sessions, memStats, stores, callbacks, handle, native, muxer,
                   fed, ended, timers, stopping>>

Unhook_KeepsEntry(c) ==
    /\ At(c, "unhooking")
    /\ Goes(c, "stopping")
    /\ UNCHANGED <<sessions, memStats, stores, callbacks, handle, native, muxer,
                   fed, ended, timers, mu, stopping>>

\* Session.Destroy takes the callback out of the map (nothing is there when
\* its registration had failed), releases the map and only then ...
Unhook(c) ==
    /\ At(c, "unhooking")
    /\ callbacks' = callbacks \ {calls[c].n}
    /\ Goes(c, "stopping")
    /\ UNCHANGED <<sessions, memStats, stores, handle, native, muxer, fed, ended,
                   timers, mu, stopping>>

\* ... calls webrtc_hls_session_destroy, which waits for the muxer thread.
StopNative_Skipped(c) ==
    /\ At(c, "stopping")
    /\ Goes(c, "clearing")
    /\ UNCHANGED <<sessions, memStats, stores, callbacks, handle, native, muxer,
                   fed, ended, timers, mu, stopping>>

StopNative(c) ==
    /\ At(c, "stopping") /\ muxer[calls[c].n] = "idle"
    /\ native' = [native EXCEPT ![calls[c].n] = "destroyed"]
    /\ Goes(c, "clearing")
    /\ UNCHANGED <<sessions, memStats, stores, callbacks, handle, muxer, fed,
                   ended, timers, mu, stopping>>

\* The handle becomes nil after the call returned.
ClearHandle(c) ==
    /\ At(c, "clearing")
    /\ handle' = handle \ {calls[c].n}
    /\ IF c = Main
       THEN Goes(c, "picking") /\ UNCHANGED sessions
       ELSE /\ sessions' = [sessions EXCEPT ![calls[c].id] = None]
            /\ Goes(c, "finalizing")
    /\ UNCHANGED <<memStats, stores, callbacks, native, muxer, fed, ended, timers,
                   mu, stopping>>

FinalizeStore(c) ==
    /\ At(c, "finalizing")
    /\ LET st == stores[calls[c].id]
       IN  IF st = None
           THEN Goes(c, "forgetting") /\ UNCHANGED ended
           ELSE /\ ended' = ended \cup {st}
                /\ calls' = [calls EXCEPT ![c].step = "arming", ![c].n = st]
    /\ UNCHANGED <<sessions, memStats, stores, callbacks, handle, native, muxer,
                   fed, timers, mu, stopping>>

ArmTimer_Never(c) ==
    /\ At(c, "arming")
    /\ Goes(c, "forgetting")
    /\ UNCHANGED <<sessions, memStats, stores, callbacks, handle, native, muxer,
                   fed, ended, timers, mu, stopping>>

ArmTimer(c) ==
    /\ At(c, "arming")
    /\ timers' = timers \cup {<<calls[c].id, calls[c].n>>}
    /\ Goes(c, "forgetting")
    /\ UNCHANGED <<sessions, memStats, stores, callbacks, handle, native, muxer,
                   fed, ended, mu, stopping>>

ForgetStats_Never(c) ==
    /\ At(c, "forgetting")
    /\ Answers(c, "ok") /\ mu' = Free
    /\ UNCHANGED <<sessions, memStats, stores, callbacks, handle, native, muxer,
                   fed, ended, timers, stopping>>

ForgetStats(c) ==
    /\ At(c, "forgetting")
    /\ memStats' = memStats \ {calls[c].id}
    /\ Answers(c, "ok") /\ mu' = Free
    /\ UNCHANGED <<sessions, stores, callbacks, handle, native, muxer, fed, ended,
                   timers, stopping>>

TimerFires_WhateverIsThere(id, st) ==
    /\ <<id, st>> \in timers
    /\ timers' = timers \ {<<id, st>>}
    /\ stores' = [stores EXCEPT ![id] = None]
    /\ UNCHANGED <<sessions, memStats, callbacks, handle, native, muxer, fed,
                   ended, calls, mu, stopping>>

TimerFires(id, st) ==
    /\ <<id, st>> \in timers
    /\ timers' = timers \ {<<id, st>>}
    /\ stores' = [stores EXCEPT ![id] = IF @ = st THEN None ELSE @]
    /\ UNCHANGED <<sessions, memStats, callbacks, handle, native, muxer, fed,
                   ended, calls, mu, stopping>>

-----------------------------------------------------------------------------
(* AddInput, RemoveInput, SetMute, SetVideoOn, WriteID3Tag, GetSessionInfo *)
(* all find the session under a read lock, release it, evaluate the        *)
(* handle as an argument, and enter the library with that value.           *)

Lookup(c) ==
    /\ At(c, "waiting") /\ calls[c].op = "call" /\ mu = Free
    /\ IF sessions[calls[c].id] = None
       THEN Answers(c, "notfound")
       ELSE calls' = [calls EXCEPT ![c].step = "reading",
                                   ![c].n = sessions[calls[c].id]]
    /\ UNCHANGED <<sessions, memStats, stores, callbacks, handle, native, muxer,
                   fed, ended, timers, mu, stopping>>

\* The library refuses a NULL handle.
ReadHandle(c) ==
    /\ At(c, "reading")
    /\ IF calls[c].n \in handle THEN Goes(c, "entering") ELSE Answers(c, "internal")
    /\ UNCHANGED <<sessions, memStats, stores, callbacks, handle, native, muxer,
                   fed, ended, timers, mu, stopping>>

\* "stale": the library was entered with the handle of a destroyed session.
EnterNative(c) ==
    /\ At(c, "entering")
    /\ IF native[calls[c].n] = "destroyed"
       THEN Answers(c, "stale")
       ELSE \E code \in {"ok", "internal"} : Answers(c, code)
    /\ UNCHANGED <<sessions, memStats, stores, callbacks, handle, native, muxer,
                   fed, ended, timers, mu, stopping>>

-----------------------------------------------------------------------------
(* The muxer thread of a session in the library, and goSegmentCallback.    *)

MuxerEmits(n) ==
    /\ native[n] = "hooked" /\ muxer[n] = "idle" /\ fed[n] < MaxFragments
    /\ muxer' = [muxer EXCEPT ![n] = "calling"]
    /\ UNCHANGED <<sessions, memStats, stores, callbacks, handle, native, fed,
                   ended, timers, calls, mu, stopping>>

FindCallback(n) ==
    /\ muxer[n] = "calling"
    /\ muxer' = [muxer EXCEPT ![n] = IF n \in callbacks THEN "feeding" ELSE "idle"]
    /\ UNCHANGED <<sessions, memStats, stores, callbacks, handle, native, fed,
                   ended, timers, calls, mu, stopping>>

\* The callback captured its store when it was registered.
FeedStore(n) ==
    /\ muxer[n] = "feeding"
    /\ fed' = [fed EXCEPT ![n] = @ + 1]
    /\ muxer' = [muxer EXCEPT ![n] = "idle"]
    /\ UNCHANGED <<sessions, memStats, stores, callbacks, handle, native, ended,
                   timers, calls, mu, stopping>>

-----------------------------------------------------------------------------
(* The end of the process: GracefulStop, then main's deferred Close.       *)

Stop ==
    /\ ~stopping /\ stopping' = TRUE
    /\ UNCHANGED <<sessions, memStats, stores, callbacks, handle, native, muxer,
                   fed, ended, timers, calls, mu>>

\* Serve returns when every handler has.
BeginClose ==
    /\ stopping /\ At(Main, "idle")
    /\ \A c \in Callers : At(c, "idle")
    /\ Goes(Main, "picking") /\ mu' = Main
    /\ UNCHANGED <<sessions, memStats, stores, callbacks, handle, native, muxer,
                   fed, ended, timers, stopping>>

PickSession ==
    /\ At(Main, "picking")
    /\ \E id \in Ids :
          /\ sessions[id] \in handle
          /\ calls' = [calls EXCEPT ![Main] =
                         Call("unhooking", "close", id, sessions[id], "-")]
    /\ UNCHANGED <<sessions, memStats, stores, callbacks, handle, native, muxer,
                   fed, ended, timers, mu, stopping>>

EndClose ==
    /\ At(Main, "picking")
    /\ \A id \in Ids : sessions[id] \notin handle
    /\ sessions' = [id \in Ids |-> None]
    /\ calls' = [calls EXCEPT ![Main] = Call("closed", "-", "-", None, "-")]
    /\ mu' = Free
    /\ UNCHANGED <<memStats, stores, callbacks, handle, native, muxer, fed, ended,
                   timers, stopping>>

-----------------------------------------------------------------------------
CreateSession(c) ==
    \/ BeginCreate(c) \/ CreateNative(c) \/ Register(c) \/ Hook(c) \/ Install(c)
    \/ DropStore(c) \/ RecordStats(c)

DestroySession(c) ==
    \/ BeginDestroy(c) \/ Unhook(c) \/ StopNative(c) \/ ClearHandle(c)
    \/ FinalizeStore(c) \/ ArmTimer(c) \/ ForgetStats(c)

SessionCall(c) == Lookup(c) \/ ReadHandle(c) \/ EnterNative(c)

Handler(c) == CreateSession(c) \/ DestroySession(c) \/ SessionCall(c)

Close == BeginClose \/ PickSession \/ Unhook(Main) \/ StopNative(Main)
            \/ ClearHandle(Main) \/ EndClose

Callback(n) == FindCallback(n) \/ FeedStore(n)

Next ==
    \/ \E c \in Callers :
          \/ Handler(c)
          \/ \E op \in {"create", "destroy", "call"}, id \in Ids : Ask(c, op, id)
    \/ \E id \in Ids, st \in Numbers : TimerFires(id, st)
    \/ \E n \in Numbers : MuxerEmits(n) \/ Callback(n)
    \/ Stop
    \/ Close

Spec == Init /\ [][Next]_vars

(***************************************************************************)
(* Fairness: handlers, callbacks in progress, timers and main run on; the  *)
(* mutex is first come first served, so a handler that waits for it gets   *)
(* it, and the library ends a session's muxer thread at some moment when   *)
(* it is not in a callback (SF on these steps).  None of controllers,      *)
(* media or the signal.                                                    *)
(***************************************************************************)
Fairness ==
    /\ \A c \in Callers :
          /\ WF_vars(Handler(c))
          /\ SF_vars(BeginCreate(c) \/ BeginDestroy(c) \/ Lookup(c))
          /\ SF_vars(StopNative(c))
    /\ \A n \in Numbers : WF_vars(Callback(n))
    /\ \A id \in Ids, st \in Numbers : WF_vars(TimerFires(id, st))
    /\ WF_vars(Close)

FairSpec == Spec /\ Fairness

-----------------------------------------------------------------------------
(* Properties.                                                             *)

Calls == [step : Steps, op : {"-", "create", "destroy", "call", "close"},
          id : Ids \cup {"-"}, n : Numbers \cup {None},
          answer : {"-", "ok", "exists", "notfound", "internal", "stale"}]

\* The types; and a handler is in the middle of creating, destroying or
\* closing exactly while it holds the mutex.
SessionsTypeOK ==
    /\ sessions \in [Ids -> Numbers \cup {None}]
    /\ memStats \subseteq Ids
    /\ stores \in [Ids -> Numbers \cup {None}]
    /\ callbacks \subseteq Numbers /\ handle \subseteq Numbers
    /\ native \in [Numbers -> {"none", "live", "hooked", "destroyed"}]
    /\ muxer \in [Numbers -> {"idle", "calling", "feeding"}]
    /\ fed \in [Numbers -> 0 .. MaxFragments]
    /\ ended \subseteq Numbers
    /\ timers \subseteq Ids \X Numbers
    /\ calls \in [Callers \cup {Main} -> Calls]
    /\ stopping \in BOOLEAN
    /\ mu \in Callers \cup {Main, Free}
    /\ \A c \in Callers \cup {Main} : calls[c].step \in Critical <=> mu = c

\* The session is fed to, and served from, the store registered under its id.
Served(id, n) ==
    stores[id] = n /\ n \notin ended /\ n \in callbacks /\ native[n] = "hooked"

\* Its registration failed: there is nothing under its id, not even the end
\* of an earlier session.
Unserved(id, n) ==
    stores[id] = None /\ n \notin callbacks /\ native[n] = "live"

(***************************************************************************)
(* Whenever no handler is in the middle of creating or destroying, the     *)
(* maps of the gRPC server, the HTTP server and the binding, and the       *)
(* library, agree on every id, whatever timers and callbacks are pending   *)
(* from earlier sessions of the same id: a session is served from its own  *)
(* open store, or its registration failed; without a session there is no   *)
(* open store and no statistics.                                           *)
(***************************************************************************)
RegistriesAgree ==
    mu = Free /\ ~At(Main, "closed") =>
        \A id \in Ids :
            IF sessions[id] # None
            THEN /\ id \in memStats
                 /\ Served(id, sessions[id]) \/ Unserved(id, sessions[id])
            ELSE /\ id \notin memStats
                 /\ stores[id] # None => stores[id] \in ended

(***************************************************************************)
(* The callback map does not keep the store of a dead session: every entry *)
(* belongs to a session the library still has.                             *)
(***************************************************************************)
CallbacksAreOfLiveSessions ==
    \A n \in callbacks : native[n] \in {"live", "hooked"}

(***************************************************************************)
(* "Call this after the encoding pipeline has been fully flushed"          *)
(* (Store.Finalize): no fragment reaches a store after its end, even from  *)
(* a callback that was under way when its session was destroyed.  Module   *)
(* Store takes this for granted.                                           *)
(***************************************************************************)
NothingAfterTheEnd ==
    [][\A n \in ended : fed'[n] = fed[n]]_vars

(***************************************************************************)
(* What a player sees under an id: an open stream stays until it ends,     *)
(* unless its registration is undone; an ended stream is never reopened,   *)
(* and stays for its own grace period or until a new session takes the id, *)
(* so that "requests arriving after destruction still get the ENDLIST".    *)
(***************************************************************************)
StreamsEndBeforeTheyGo ==
    [][\A id \in Ids :
         LET st == stores[id]
         IN  /\ st # None /\ st \notin ended =>
                   stores'[id] = st \/ native[st] = "live"
             /\ st \in ended =>
                   /\ st \in ended'
                   /\ \/ stores'[id] = st
                      \/ stores'[id] > st
                      \/ <<id, st>> \in timers \ timers']_vars

(***************************************************************************)
(* No store is kept for ever: a finalized one leaves the registry.         *)
(***************************************************************************)
EndedStoresAreEvicted ==
    \A id \in Ids, n \in Numbers :
        (stores[id] = n /\ n \in ended) ~> stores[id] # n

(***************************************************************************)
(* Every gRPC call returns: no path leaves the mutex held, and destroying  *)
(* a session while its muxer thread is in a callback does not deadlock.    *)
(***************************************************************************)
HandlersReturn == \A c \in Callers : ~At(c, "idle") ~> At(c, "idle")

(***************************************************************************)
(* "After calling this function, the session handle becomes invalid"       *)
(* (libwebrtc_hls.h, webrtc_hls_session_destroy): no call enters the       *)
(* library with the handle of a destroyed session.                         *)
(***************************************************************************)
CallsUseLiveHandles == \A c \in Callers : calls[c].answer # "stale"

(***************************************************************************)
(* "On stop: writes the final VOD playlist" (disk_writer.go), which        *)
(* Store.Finalize does: once Close has returned, every stream has ended.   *)
(***************************************************************************)
CloseEndsStreams ==
    At(Main, "closed") => \A id \in Ids : stores[id] # None => stores[id] \in ended

=============================================================================

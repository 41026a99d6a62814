--------------------------- MODULE SessionsProofs ---------------------------
(***************************************************************************)
(* The registries of the gRPC server, the HTTP server and the binding, for *)
(* any number of session ids and of handlers that run together.            *)
(*                                                                         *)
(* RegistriesAgree speaks of the moments when nobody holds the gRPC        *)
(* server's mutex.  The inductive invariant says what holds at every step  *)
(* in between: the holder of the mutex has one id in hand, of which        *)
(* InHand says how far the registries have come, and the registries agree  *)
(* on every other id.  Numbered says what a session's number tells of its  *)
(* session, its store and its callback, whoever looks.                     *)
(***************************************************************************)
EXTENDS Sessions, FiniteSetTheorems, TLAPS

-----------------------------------------------------------------------------
(* The invariant.                                                          *)

Agrees(id) ==
    IF sessions[id] # None
    THEN /\ id \in memStats
         /\ Served(id, sessions[id]) \/ Unserved(id, sessions[id])
    ELSE /\ id \notin memStats
         /\ stores[id] # None => stores[id] \in ended

Numbered ==
    /\ \A id \in Ids : sessions[id] # None => native[sessions[id]] # "none"
    /\ \A a, b \in Ids : sessions[a] = sessions[b] /\ sessions[a] # None => a = b
    /\ \A n \in callbacks : native[n] \in {"live", "hooked"}
    /\ \A n \in ended : native[n] = "destroyed"
    /\ \A n \in Numbers : native[n] = "destroyed" => muxer[n] = "idle"
    /\ \A n \in Numbers : muxer[n] # "idle" => fed[n] < MaxFragments
    /\ \A t \in timers : t[2] \in ended

\* Numbers are handed out in order.
UsedUpTo(k) == \A n \in Numbers : native[n] # "none" <=> n <= k
InOrder == \E k \in 0 .. MaxSessions : UsedUpTo(k)

Creating == {"registering", "hooking", "installing", "dropping", "recording"}

InHand(c) ==
    LET step == calls[c].step
        id == calls[c].id
        n == calls[c].n
    IN  /\ step \notin {"picking", "closed"}
        /\ step # "idle" => id \in Ids
        /\ mu = c /\ step # "creating" => n \in Numbers
        /\ step \in {"creating", "finalizing", "arming", "forgetting"} => sessions[id] = None
        /\ step \in {"creating", "unhooking"} => Agrees(id)
        /\ step \in Creating \cup {"unhooking", "stopping", "clearing"} => sessions[id] = n
        /\ step \in Creating => id \notin memStats
        /\ step \in Creating \ {"recording"} => native[n] = "live"
        /\ step \in {"registering", "hooking", "dropping", "stopping"} => n \notin callbacks
        /\ step = "installing" => n \in callbacks
        /\ step \in {"hooking", "installing", "dropping"} => stores[id] = n
        /\ step = "registering" => \A m \in Numbers : native[m] # "none" => m <= n
        /\ step = "recording" => Served(id, n) \/ Unserved(id, n)
        /\ step \in {"stopping", "clearing", "finalizing"} => stores[id] \in {None, n}
        /\ step \in {"clearing", "finalizing"} => native[n] = "destroyed"
        /\ step = "arming" => n \in ended
        /\ step \in {"registering", "arming", "forgetting"} =>
              (stores[id] # None => stores[id] \in ended)

\* main in Close: every handler has returned, and no other will come.
Closing ==
    LET step == calls[Main].step
        n == calls[Main].n
    IN  /\ step \in {"idle", "picking", "unhooking", "stopping", "clearing", "closed"}
        /\ step # "idle" => stopping /\ \A c \in Callers : At(c, "idle")
        /\ step \in {"unhooking", "stopping", "clearing"} => n \in Numbers /\ native[n] # "none"
        /\ step = "stopping" => n \notin callbacks

OthersAgree ==
    At(Main, "idle") =>
        \A id \in Ids : Agrees(id) \/ (mu \in Callers /\ calls[mu].id = id)

SessionsInv ==
    /\ SessionsTypeOK
    /\ Numbered
    /\ InOrder
    /\ \A c \in Callers : InHand(c)
    /\ Closing
    /\ OthersAgree

LEMMA Names ==
    /\ Main \notin Callers /\ Free \notin Callers /\ Main # Free
    /\ None \notin Numbers
  BY SessionsAssumption DEF SessionsAssumption, Main, Free, None, Numbers

LEMMA SessionsInvInit == Init => SessionsInv
  <1> SUFFICES ASSUME Init PROVE SessionsInv
    OBVIOUS
  <1>1. SessionsTypeOK
    <2>1. 0 \in 0 .. MaxFragments /\ MaxSessions \in Nat
      BY SessionsAssumption DEF SessionsAssumption
    <2>2. Call("idle", "-", "-", None, "-") \in Calls
      BY DEF Call, Calls, Steps
    <2>3. /\ calls \in [Callers \cup {Main} -> Calls]
          /\ \A c \in Callers \cup {Main} : calls[c].step = "idle" /\ mu # c
      BY <2>2, Names DEF Init, Call
    <2> QED BY <2>1, <2>3, Names DEF Init, SessionsTypeOK, Critical
  <1>2. Numbered
    BY DEF Init, Numbered
  <1>3. InOrder
    <2>1. UsedUpTo(0)
      BY DEF Init, UsedUpTo, Numbers
    <2> QED BY <2>1, SessionsAssumption DEF InOrder, SessionsAssumption
  <1>4. ASSUME NEW c \in Callers PROVE InHand(c)
    <2>1. calls[c].step = "idle" /\ mu # c
      BY Names DEF Init, Call
    <2> QED BY <2>1 DEF InHand, Creating
  <1>5. Closing /\ OthersAgree
    BY DEF Init, Closing, OthersAgree, Agrees, At, Call
  <1> QED BY <1>1, <1>2, <1>3, <1>4, <1>5 DEF SessionsInv

-----------------------------------------------------------------------------
(* The steps of the handlers.                                              *)

LEMMA BeginCreateStep ==
    ASSUME SessionsInv, NEW c \in Callers, BeginCreate(c)
    PROVE  SessionsInv'
  <1>1. /\ SessionsTypeOK /\ Numbered /\ InHand(c) /\ Closing /\ OthersAgree
        /\ At(Main, "idle") /\ calls[c].step # "idle" /\ calls[c].id \in Ids /\ c # Main
    BY Names DEF SessionsInv, BeginCreate, At, InHand, Closing
  <1>2. \A q \in Callers : InHand(q)
    BY DEF SessionsInv
  <1>3. SessionsTypeOK'
    BY <1>1, Names DEF BeginCreate, SessionsTypeOK, Calls, Steps, Critical, At, Goes, Answers, Call
  <1>4. Numbered'
    BY <1>1, <1>3, Names DEF BeginCreate, Numbered, SessionsTypeOK, At, InHand, Creating, Agrees, Served, Unserved
  <1>5. InOrder'
    BY <1>1, <1>2 DEF BeginCreate, SessionsInv, InOrder, UsedUpTo
  <1>6. ASSUME NEW q \in Callers PROVE InHand(q)'
    <2>1. CASE q = c
      <3>1. CASE sessions[calls[c].id] # None
        <4>1. calls'[c].step = "idle" /\ mu' # c
          BY <1>1, <3>1, Names DEF BeginCreate, SessionsTypeOK, Critical, At, Answers, Call
        <4> QED BY <2>1, <4>1 DEF InHand, Creating
      <3>2. CASE sessions[calls[c].id] = None
        <4>1. calls'[c].step = "creating" /\ calls'[c].id = calls[c].id /\ mu = Free
          BY <1>1, <3>2 DEF BeginCreate, SessionsTypeOK, Calls, Goes
        <4>2. Agrees(calls[c].id)
          BY <1>1, <4>1, Names DEF OthersAgree
        <4> QED BY <1>1, <2>1, <3>2, <4>1, <4>2
            DEF BeginCreate, InHand, Creating, Agrees, Served, Unserved
      <3> QED BY <3>1, <3>2
    <2>2. CASE q # c
      BY <1>1, <1>2, <1>3, <1>6, <2>2, Names
      DEF BeginCreate, InHand, Creating, Agrees, Served, Unserved, Numbered, SessionsTypeOK, Critical, At, Goes, Answers, Call
    <2> QED BY <2>1, <2>2
  <1>7. Closing'
    BY <1>1, Names DEF BeginCreate, Closing, SessionsTypeOK, At, Goes, Answers, Call
  <1>8. OthersAgree'
    BY <1>1, <1>3, Names
    DEF BeginCreate, OthersAgree, InHand, Creating, Agrees, Served, Unserved, Numbered, SessionsTypeOK, Critical, At, Goes, Answers, Call
  <1> QED BY <1>3, <1>4, <1>5, <1>6, <1>7, <1>8 DEF SessionsInv

LEMMA RegisterStep ==
    ASSUME SessionsInv, NEW c \in Callers, Register(c)
    PROVE  SessionsInv'
  <1>1. /\ SessionsTypeOK /\ Numbered /\ InHand(c) /\ Closing /\ OthersAgree
        /\ At(Main, "idle") /\ calls[c].step # "idle" /\ calls[c].id \in Ids /\ c # Main
    BY Names DEF SessionsInv, Register, At, InHand, Closing
  <1>2. \A q \in Callers : InHand(q)
    BY DEF SessionsInv
  <1>3. SessionsTypeOK'
    BY <1>1, Names DEF Register, SessionsTypeOK, Calls, Steps, Critical, At, Goes, Answers, Call
  <1>4. Numbered'
    BY <1>1, <1>3, Names DEF Register, Numbered, SessionsTypeOK, At, InHand, Creating, Agrees, Served, Unserved
  <1>5. InOrder'
    BY <1>1, <1>2 DEF Register, SessionsInv, InOrder, UsedUpTo
  <1>6. ASSUME NEW q \in Callers PROVE InHand(q)'
    <2>1. CASE q = c
      BY <1>1, <1>2, <1>3, <2>1, Names
      DEF Register, InHand, Creating, Agrees, Served, Unserved, Numbered, SessionsTypeOK, Critical, At, Goes, Answers, Call
    <2>2. CASE q # c
      BY <1>1, <1>2, <1>3, <1>6, <2>2, Names
      DEF Register, InHand, Creating, Agrees, Served, Unserved, Numbered, SessionsTypeOK, Critical, At, Goes, Answers, Call
    <2> QED BY <2>1, <2>2
  <1>7. Closing'
    BY <1>1, Names DEF Register, Closing, SessionsTypeOK, At, Goes, Answers, Call
  <1>8. OthersAgree'
    BY <1>1, <1>3, Names
    DEF Register, OthersAgree, InHand, Creating, Agrees, Served, Unserved, Numbered, SessionsTypeOK, Critical, At, Goes, Answers, Call
  <1> QED BY <1>3, <1>4, <1>5, <1>6, <1>7, <1>8 DEF SessionsInv

LEMMA HookStep ==
    ASSUME SessionsInv, NEW c \in Callers, Hook(c)
    PROVE  SessionsInv'
  <1>1. /\ SessionsTypeOK /\ Numbered /\ InHand(c) /\ Closing /\ OthersAgree
        /\ At(Main, "idle") /\ calls[c].step # "idle" /\ calls[c].id \in Ids /\ c # Main
    BY Names DEF SessionsInv, Hook, At, InHand, Closing
  <1>2. \A q \in Callers : InHand(q)
    BY DEF SessionsInv
  <1>3. SessionsTypeOK'
    BY <1>1, Names DEF Hook, SessionsTypeOK, Calls, Steps, Critical, At, Goes, Answers, Call, InHand, Creating
  <1>4. Numbered'
    BY <1>1, <1>3, Names DEF Hook, Numbered, SessionsTypeOK, At, InHand, Creating, Agrees, Served, Unserved
  <1>5. InOrder'
    BY <1>1, <1>2 DEF Hook, SessionsInv, InOrder, UsedUpTo
  <1>6. ASSUME NEW q \in Callers PROVE InHand(q)'
    <2>1. CASE q = c
      BY <1>1, <1>2, <1>3, <2>1, Names
      DEF Hook, InHand, Creating, Agrees, Served, Unserved, Numbered, SessionsTypeOK, Critical, At, Goes, Answers, Call
    <2>2. CASE q # c
      BY <1>1, <1>2, <1>3, <1>6, <2>2, Names
      DEF Hook, InHand, Creating, Agrees, Served, Unserved, Numbered, SessionsTypeOK, Critical, At, Goes, Answers, Call
    <2> QED BY <2>1, <2>2
  <1>7. Closing'
    BY <1>1, Names DEF Hook, Closing, SessionsTypeOK, At, Goes, Answers, Call
  <1>8. OthersAgree'
    BY <1>1, <1>3, Names
    DEF Hook, OthersAgree, InHand, Creating, Agrees, Served, Unserved, Numbered, SessionsTypeOK, Critical, At, Goes, Answers, Call
  <1> QED BY <1>3, <1>4, <1>5, <1>6, <1>7, <1>8 DEF SessionsInv

LEMMA InstallStep ==
    ASSUME SessionsInv, NEW c \in Callers, Install(c)
    PROVE  SessionsInv'
  <1>1. /\ SessionsTypeOK /\ Numbered /\ InHand(c) /\ Closing /\ OthersAgree
        /\ At(Main, "idle") /\ calls[c].step # "idle" /\ calls[c].id \in Ids /\ c # Main
    BY Names DEF SessionsInv, Install, At, InHand, Closing
  <1>2. \A q \in Callers : InHand(q)
    BY DEF SessionsInv
  <1> DEFINE n == calls[c].n
  <1>n. /\ n \in Numbers /\ native[n] = "live" /\ n \in callbacks
        /\ sessions[calls[c].id] = n /\ stores[calls[c].id] = n /\ calls[c].id \notin memStats
    BY <1>1 DEF InHand, Creating, Install, At, SessionsTypeOK, Critical
  <1>3. SessionsTypeOK'
    BY <1>1, <1>n, Names DEF Install, SessionsTypeOK, Calls, Steps, Critical, At, Goes, Answers, Call
  <1>4. Numbered'
    BY <1>1, <1>3, Names DEF Install, Numbered, SessionsTypeOK, At, InHand, Creating, Agrees, Served, Unserved
  <1>5. InOrder'
    <2>1. PICK k \in 0 .. MaxSessions : UsedUpTo(k)
      BY DEF SessionsInv, InOrder
    <2>2. \A m \in Numbers : native'[m] # "none" <=> native[m] # "none"
      BY <1>1, <1>n DEF Install, SessionsTypeOK
    <2> QED BY <2>1, <2>2 DEF InOrder, UsedUpTo
  <1>6. ASSUME NEW q \in Callers PROVE InHand(q)'
    <2>1. CASE q = c
      <3>1. /\ calls'[c].step \in {"recording", "dropping"}
            /\ calls'[c].id = calls[c].id /\ calls'[c].n = n /\ mu = c
            /\ UNCHANGED <<sessions, memStats, stores, ended, mu>>
        BY <1>1, <1>n DEF Install, SessionsTypeOK, Calls, Critical, At, Goes
      <3>2. CASE calls'[c].step = "recording"
        <4>1. native' = [native EXCEPT ![n] = "hooked"] /\ callbacks' = callbacks
          BY <1>1, <3>1, <3>2 DEF Install, Goes, SessionsTypeOK, Calls
        <4>2. native'[n] = "hooked"
          BY <1>1, <1>n, <4>1 DEF SessionsTypeOK
        <4>3. n \notin ended
          BY <1>1, <1>n DEF Numbered
        <4> QED BY <1>1, <1>n, <2>1, <3>1, <3>2, <4>1, <4>2, <4>3
            DEF InHand, Creating, Served
      <3>3. CASE calls'[c].step = "dropping"
        <4>1. native' = native /\ callbacks' = callbacks \ {n}
          BY <1>1, <3>1, <3>3 DEF Install, Goes, SessionsTypeOK, Calls
        <4> QED BY <1>1, <1>n, <2>1, <3>1, <3>3, <4>1 DEF InHand, Creating
      <3> QED BY <3>1, <3>2, <3>3
    <2>2. CASE q # c
      BY <1>1, <1>2, <1>3, <1>6, <2>2, Names
      DEF Install, InHand, Creating, Agrees, Served, Unserved, Numbered, SessionsTypeOK, Critical, At, Goes, Answers, Call
    <2> QED BY <2>1, <2>2
  <1>7. Closing'
    BY <1>1, Names DEF Install, Closing, SessionsTypeOK, At, Goes, Answers, Call
  <1>8. OthersAgree'
    <2> SUFFICES ASSUME NEW id \in Ids, ~(mu' \in Callers /\ calls'[mu'].id = id)
                 PROVE  Agrees(id)'
      BY DEF OthersAgree
    <2>1. mu = c /\ mu' = c /\ calls'[c].id = calls[c].id /\ id # calls[c].id
      BY <1>1 DEF Install, SessionsTypeOK, Calls, Critical, At, Goes
    <2>2. Agrees(id) /\ sessions[id] # n
      BY <1>1, <1>n, <2>1, Names DEF OthersAgree, Numbered
    <2>3. /\ sessions[id] # None =>
              native'[sessions[id]] = native[sessions[id]]
              /\ (sessions[id] \in callbacks' <=> sessions[id] \in callbacks)
      BY <1>1, <2>2, Names DEF Install, SessionsTypeOK
    <2> QED BY <2>2, <2>3 DEF Install, Agrees, Served, Unserved
  <1> QED BY <1>3, <1>4, <1>5, <1>6, <1>7, <1>8 DEF SessionsInv

LEMMA DropStoreStep ==
    ASSUME SessionsInv, NEW c \in Callers, DropStore(c)
    PROVE  SessionsInv'
  <1>1. /\ SessionsTypeOK /\ Numbered /\ InHand(c) /\ Closing /\ OthersAgree
        /\ At(Main, "idle") /\ calls[c].step # "idle" /\ calls[c].id \in Ids /\ c # Main
    BY Names DEF SessionsInv, DropStore, At, InHand, Closing
  <1>2. \A q \in Callers : InHand(q)
    BY DEF SessionsInv
  <1>3. SessionsTypeOK'
    BY <1>1, Names DEF DropStore, SessionsTypeOK, Calls, Steps, Critical, At, Goes, Answers, Call
  <1>4. Numbered'
    BY <1>1, <1>3, Names DEF DropStore, Numbered, SessionsTypeOK, At, InHand, Creating, Agrees, Served, Unserved
  <1>5. InOrder'
    BY <1>1, <1>2 DEF DropStore, SessionsInv, InOrder, UsedUpTo
  <1>6. ASSUME NEW q \in Callers PROVE InHand(q)'
    <2>1. CASE q = c
      BY <1>1, <1>2, <1>3, <2>1, Names
      DEF DropStore, InHand, Creating, Agrees, Served, Unserved, Numbered, SessionsTypeOK, Critical, At, Goes, Answers, Call
    <2>2. CASE q # c
      BY <1>1, <1>2, <1>3, <1>6, <2>2, Names
      DEF DropStore, InHand, Creating, Agrees, Served, Unserved, Numbered, SessionsTypeOK, Critical, At, Goes, Answers, Call
    <2> QED BY <2>1, <2>2
  <1>7. Closing'
    BY <1>1, Names DEF DropStore, Closing, SessionsTypeOK, At, Goes, Answers, Call
  <1>8. OthersAgree'
    BY <1>1, <1>3, Names
    DEF DropStore, OthersAgree, InHand, Creating, Agrees, Served, Unserved, Numbered, SessionsTypeOK, Critical, At, Goes, Answers, Call
  <1> QED BY <1>3, <1>4, <1>5, <1>6, <1>7, <1>8 DEF SessionsInv

LEMMA RecordStatsStep ==
    ASSUME SessionsInv, NEW c \in Callers, RecordStats(c)
    PROVE  SessionsInv'
  <1>1. /\ SessionsTypeOK /\ Numbered /\ InHand(c) /\ Closing /\ OthersAgree
        /\ At(Main, "idle") /\ calls[c].step # "idle" /\ calls[c].id \in Ids /\ c # Main
    BY Names DEF SessionsInv, RecordStats, At, InHand, Closing
  <1>2. \A q \in Callers : InHand(q)
    BY DEF SessionsInv
  <1>3. SessionsTypeOK'
    BY <1>1, Names DEF RecordStats, SessionsTypeOK, Calls, Steps, Critical, At, Goes, Answers, Call
  <1>4. Numbered'
    BY <1>1, <1>3, Names DEF RecordStats, Numbered, SessionsTypeOK, At, InHand, Creating, Agrees, Served, Unserved
  <1>5. InOrder'
    BY <1>1, <1>2 DEF RecordStats, SessionsInv, InOrder, UsedUpTo
  <1>6. ASSUME NEW q \in Callers PROVE InHand(q)'
    <2>1. CASE q = c
      BY <1>1, <1>2, <1>3, <2>1, Names
      DEF RecordStats, InHand, Creating, Agrees, Served, Unserved, Numbered, SessionsTypeOK, Critical, At, Goes, Answers, Call
    <2>2. CASE q # c
      BY <1>1, <1>2, <1>3, <1>6, <2>2, Names
      DEF RecordStats, InHand, Creating, Agrees, Served, Unserved, Numbered, SessionsTypeOK, Critical, At, Goes, Answers, Call
    <2> QED BY <2>1, <2>2
  <1>7. Closing'
    BY <1>1, Names DEF RecordStats, Closing, SessionsTypeOK, At, Goes, Answers, Call
  <1>8. OthersAgree'
    BY <1>1, <1>3, Names
    DEF RecordStats, OthersAgree, InHand, Creating, Agrees, Served, Unserved, Numbered, SessionsTypeOK, Critical, At, Goes, Answers, Call
  <1> QED BY <1>3, <1>4, <1>5, <1>6, <1>7, <1>8 DEF SessionsInv

LEMMA BeginDestroyStep ==
    ASSUME SessionsInv, NEW c \in Callers, BeginDestroy(c)
    PROVE  SessionsInv'
  <1>1. /\ SessionsTypeOK /\ Numbered /\ InHand(c) /\ Closing /\ OthersAgree
        /\ At(Main, "idle") /\ calls[c].step # "idle" /\ calls[c].id \in Ids /\ c # Main
    BY Names DEF SessionsInv, BeginDestroy, At, InHand, Closing
  <1>2. \A q \in Callers : InHand(q)
    BY DEF SessionsInv
  <1>3. SessionsTypeOK'
    BY <1>1, Names DEF BeginDestroy, SessionsTypeOK, Calls, Steps, Critical, At, Goes, Answers, Call
  <1>4. Numbered'
    BY <1>1, <1>3, Names DEF BeginDestroy, Numbered, SessionsTypeOK, At, InHand, Creating, Agrees, Served, Unserved
  <1>5. InOrder'
    BY <1>1, <1>2 DEF BeginDestroy, SessionsInv, InOrder, UsedUpTo
  <1>6. ASSUME NEW q \in Callers PROVE InHand(q)'
    <2>1. CASE q = c
      <3>1. CASE sessions[calls[c].id] = None
        <4>1. calls'[c].step = "idle" /\ mu' # c
          BY <1>1, <3>1, Names DEF BeginDestroy, SessionsTypeOK, Critical, At, Answers, Call
        <4> QED BY <2>1, <4>1 DEF InHand, Creating
      <3>2. CASE sessions[calls[c].id] # None
        <4>1. /\ calls'[c].step = "unhooking" /\ calls'[c].id = calls[c].id
              /\ calls'[c].n = sessions[calls[c].id] /\ mu = Free
          BY <1>1, <3>2 DEF BeginDestroy, SessionsTypeOK, Calls
        <4>2. Agrees(calls[c].id) /\ sessions[calls[c].id] \in Numbers
          BY <1>1, <3>2, <4>1, Names DEF OthersAgree, SessionsTypeOK
        <4> QED BY <1>1, <2>1, <4>1, <4>2
            DEF BeginDestroy, InHand, Creating, Agrees, Served, Unserved
      <3> QED BY <3>1, <3>2
    <2>2. CASE q # c
      BY <1>1, <1>2, <1>3, <1>6, <2>2, Names
      DEF BeginDestroy, InHand, Creating, Agrees, Served, Unserved, Numbered, SessionsTypeOK, Critical, At, Goes, Answers, Call
    <2> QED BY <2>1, <2>2
  <1>7. Closing'
    BY <1>1, Names DEF BeginDestroy, Closing, SessionsTypeOK, At, Goes, Answers, Call
  <1>8. OthersAgree'
    BY <1>1, <1>3, Names
    DEF BeginDestroy, OthersAgree, InHand, Creating, Agrees, Served, Unserved, Numbered, SessionsTypeOK, Critical, At, Goes, Answers, Call
  <1> QED BY <1>3, <1>4, <1>5, <1>6, <1>7, <1>8 DEF SessionsInv

LEMMA UnhookStep ==
    ASSUME SessionsInv, NEW c \in Callers, Unhook(c)
    PROVE  SessionsInv'
  <1>1. /\ SessionsTypeOK /\ Numbered /\ InHand(c) /\ Closing /\ OthersAgree
        /\ At(Main, "idle") /\ calls[c].step # "idle" /\ calls[c].id \in Ids /\ c # Main
    BY Names DEF SessionsInv, Unhook, At, InHand, Closing
  <1>2. \A q \in Callers : InHand(q)
    BY DEF SessionsInv
  <1>3. SessionsTypeOK'
    BY <1>1, Names DEF Unhook, SessionsTypeOK, Calls, Steps, Critical, At, Goes, Answers, Call
  <1>4. Numbered'
    BY <1>1, <1>3, Names DEF Unhook, Numbered, SessionsTypeOK, At, InHand, Creating, Agrees, Served, Unserved
  <1>5. InOrder'
    BY <1>1, <1>2 DEF Unhook, SessionsInv, InOrder, UsedUpTo
  <1>6. ASSUME NEW q \in Callers PROVE InHand(q)'
    <2>1. CASE q = c
      BY <1>1, <1>2, <1>3, <2>1, Names
      DEF Unhook, InHand, Creating, Agrees, Served, Unserved, Numbered, SessionsTypeOK, Critical, At, Goes, Answers, Call
    <2>2. CASE q # c
      BY <1>1, <1>2, <1>3, <1>6, <2>2, Names
      DEF Unhook, InHand, Creating, Agrees, Served, Unserved, Numbered, SessionsTypeOK, Critical, At, Goes, Answers, Call
    <2> QED BY <2>1, <2>2
  <1>7. Closing'
    BY <1>1, Names DEF Unhook, Closing, SessionsTypeOK, At, Goes, Answers, Call
  <1>8. OthersAgree'
    BY <1>1, <1>3, Names
    DEF Unhook, OthersAgree, InHand, Creating, Agrees, Served, Unserved, Numbered, SessionsTypeOK, Critical, At, Goes, Answers, Call
  <1> QED BY <1>3, <1>4, <1>5, <1>6, <1>7, <1>8 DEF SessionsInv

LEMMA StopNativeStep ==
    ASSUME SessionsInv, NEW c \in Callers, StopNative(c)
    PROVE  SessionsInv'
  <1>1. /\ SessionsTypeOK /\ Numbered /\ InHand(c) /\ Closing /\ OthersAgree
        /\ At(Main, "idle") /\ calls[c].step # "idle" /\ calls[c].id \in Ids /\ c # Main
    BY Names DEF SessionsInv, StopNative, At, InHand, Closing
  <1>2. \A q \in Callers : InHand(q)
    BY DEF SessionsInv
  <1>n. calls[c].n \in Numbers /\ native[calls[c].n] # "none"
    <2>1. mu = c /\ calls[c].step = "stopping"
      BY <1>1 DEF StopNative, At, SessionsTypeOK, Critical
    <2>2. calls[c].n \in Numbers /\ sessions[calls[c].id] = calls[c].n
      BY <1>1, <2>1 DEF InHand
    <2> QED BY <1>1, <2>2, Names DEF Numbered
  <1>3. SessionsTypeOK'
    BY <1>1, <1>n, Names DEF StopNative, SessionsTypeOK, Calls, Steps, Critical, At, Goes, Answers, Call
  <1>4. Numbered'
    BY <1>1, <1>3, Names DEF StopNative, Numbered, SessionsTypeOK, At, InHand, Creating, Agrees, Served, Unserved
  <1>5. InOrder'
    <2>1. PICK k \in 0 .. MaxSessions : UsedUpTo(k)
      BY DEF SessionsInv, InOrder
    <2>2. \A m \in Numbers : native'[m] # "none" <=> native[m] # "none"
      BY <1>1, <1>n DEF StopNative, SessionsTypeOK
    <2> QED BY <2>1, <2>2 DEF InOrder, UsedUpTo
  <1>6. ASSUME NEW q \in Callers PROVE InHand(q)'
    <2>1. CASE q = c
      BY <1>1, <1>2, <1>3, <2>1, Names
      DEF StopNative, InHand, Creating, Agrees, Served, Unserved, Numbered, SessionsTypeOK, Critical, At, Goes, Answers, Call
    <2>2. CASE q # c
      BY <1>1, <1>2, <1>3, <1>6, <2>2, Names
      DEF StopNative, InHand, Creating, Agrees, Served, Unserved, Numbered, SessionsTypeOK, Critical, At, Goes, Answers, Call
    <2> QED BY <2>1, <2>2
  <1>7. Closing'
    BY <1>1, Names DEF StopNative, Closing, SessionsTypeOK, At, Goes, Answers, Call
  <1>8. OthersAgree'
    BY <1>1, <1>3, Names
    DEF StopNative, OthersAgree, InHand, Creating, Agrees, Served, Unserved, Numbered, SessionsTypeOK, Critical, At, Goes, Answers, Call
  <1> QED BY <1>3, <1>4, <1>5, <1>6, <1>7, <1>8 DEF SessionsInv

LEMMA ClearHandleStep ==
    ASSUME SessionsInv, NEW c \in Callers, ClearHandle(c)
    PROVE  SessionsInv'
  <1>1. /\ SessionsTypeOK /\ Numbered /\ InHand(c) /\ Closing /\ OthersAgree
        /\ At(Main, "idle") /\ calls[c].step # "idle" /\ calls[c].id \in Ids /\ c # Main
    BY Names DEF SessionsInv, ClearHandle, At, InHand, Closing
  <1>2. \A q \in Callers : InHand(q)
    BY DEF SessionsInv
  <1>3. SessionsTypeOK'
    BY <1>1, Names DEF ClearHandle, SessionsTypeOK, Calls, Steps, Critical, At, Goes, Answers, Call
  <1>4. Numbered'
    BY <1>1, <1>3, Names DEF ClearHandle, Numbered, SessionsTypeOK, At, InHand, Creating, Agrees, Served, Unserved
  <1>5. InOrder'
    BY <1>1, <1>2 DEF ClearHandle, SessionsInv, InOrder, UsedUpTo
  <1>6. ASSUME NEW q \in Callers PROVE InHand(q)'
    <2>1. CASE q = c
      <3>1. /\ calls'[c].step = "finalizing" /\ calls'[c].id = calls[c].id
            /\ calls'[c].n = calls[c].n /\ mu = c /\ calls[c].step = "clearing"
        BY <1>1 DEF ClearHandle, SessionsTypeOK, Calls, Critical, At, Goes
      <3>2. sessions'[calls[c].id] = None
        BY <1>1 DEF ClearHandle, SessionsTypeOK
      <3> QED BY <1>1, <2>1, <3>1, <3>2 DEF ClearHandle, InHand, Creating
    <2>2. CASE q # c
      BY <1>1, <1>2, <1>3, <1>6, <2>2, Names
      DEF ClearHandle, InHand, Creating, Agrees, Served, Unserved, Numbered, SessionsTypeOK, Critical, At, Goes, Answers, Call
    <2> QED BY <2>1, <2>2
  <1>7. Closing'
    BY <1>1, Names DEF ClearHandle, Closing, SessionsTypeOK, At, Goes, Answers, Call
  <1>8. OthersAgree'
    <2> SUFFICES ASSUME NEW id \in Ids, ~(mu' \in Callers /\ calls'[mu'].id = id)
                 PROVE  Agrees(id)'
      BY DEF OthersAgree
    <2>1. mu = c /\ mu' = c /\ calls'[c].id = calls[c].id /\ id # calls[c].id
      BY <1>1 DEF ClearHandle, SessionsTypeOK, Calls, Critical, At, Goes
    <2>2. Agrees(id) /\ sessions'[id] = sessions[id]
      BY <1>1, <2>1 DEF ClearHandle, OthersAgree, SessionsTypeOK
    <2> QED BY <2>2 DEF ClearHandle, Agrees, Served, Unserved
  <1> QED BY <1>3, <1>4, <1>5, <1>6, <1>7, <1>8 DEF SessionsInv

LEMMA FinalizeStoreStep ==
    ASSUME SessionsInv, NEW c \in Callers, FinalizeStore(c)
    PROVE  SessionsInv'
  <1>1. /\ SessionsTypeOK /\ Numbered /\ InHand(c) /\ Closing /\ OthersAgree
        /\ At(Main, "idle") /\ calls[c].step # "idle" /\ calls[c].id \in Ids /\ c # Main
    BY Names DEF SessionsInv, FinalizeStore, At, InHand, Closing
  <1>2. \A q \in Callers : InHand(q)
    BY DEF SessionsInv
  <1>3. SessionsTypeOK'
    BY <1>1, Names DEF FinalizeStore, SessionsTypeOK, Calls, Steps, Critical, At, Goes, Answers, Call
  <1>4. Numbered'
    BY <1>1, <1>3, Names DEF FinalizeStore, Numbered, SessionsTypeOK, At, InHand, Creating, Agrees, Served, Unserved
  <1>5. InOrder'
    BY <1>1, <1>2 DEF FinalizeStore, SessionsInv, InOrder, UsedUpTo
  <1>6. ASSUME NEW q \in Callers PROVE InHand(q)'
    <2>1. CASE q = c
      <3>1. CASE stores[calls[c].id] = None
        <4>1. /\ calls'[c].step = "forgetting" /\ calls'[c].id = calls[c].id
              /\ calls'[c].n = calls[c].n /\ mu = c /\ calls[c].step = "finalizing"
          BY <1>1, <3>1 DEF FinalizeStore, SessionsTypeOK, Calls, Critical, At, Goes
        <4> QED BY <1>1, <2>1, <3>1, <4>1 DEF FinalizeStore, InHand, Creating
      <3>2. CASE stores[calls[c].id] # None
        <4>1. /\ calls'[c].step = "arming" /\ calls'[c].id = calls[c].id
              /\ calls'[c].n = stores[calls[c].id] /\ mu = c /\ calls[c].step = "finalizing"
              /\ ended' = ended \cup {stores[calls[c].id]}
          BY <1>1, <3>2 DEF FinalizeStore, SessionsTypeOK, Calls, Critical, At
        <4>2. stores[calls[c].id] \in Numbers
          BY <1>1, <3>2 DEF SessionsTypeOK
        <4> QED BY <1>1, <2>1, <4>1, <4>2 DEF FinalizeStore, InHand, Creating
      <3> QED BY <3>1, <3>2
    <2>2. CASE q # c
      BY <1>1, <1>2, <1>3, <1>6, <2>2, Names
      DEF FinalizeStore, InHand, Creating, Agrees, Served, Unserved, Numbered, SessionsTypeOK, Critical, At, Goes, Answers, Call
    <2> QED BY <2>1, <2>2
  <1>7. Closing'
    BY <1>1, Names DEF FinalizeStore, Closing, SessionsTypeOK, At, Goes, Answers, Call
  <1>8. OthersAgree'
    <2> SUFFICES ASSUME NEW id \in Ids, ~(mu' \in Callers /\ calls'[mu'].id = id)
                 PROVE  Agrees(id)'
      BY DEF OthersAgree
    <2>1. mu = c /\ mu' = c /\ calls'[c].id = calls[c].id /\ id # calls[c].id
      BY <1>1 DEF FinalizeStore, SessionsTypeOK, Calls, Critical, At, Goes
    <2>2. Agrees(id)
      BY <1>1, <2>1 DEF OthersAgree
    <2>3. ended \subseteq ended' /\ \A m \in ended' \ ended : native[m] = "destroyed"
      BY <1>1, <2>1 DEF FinalizeStore, At, InHand
    <2> QED BY <2>2, <2>3 DEF FinalizeStore, Agrees, Served, Unserved
  <1> QED BY <1>3, <1>4, <1>5, <1>6, <1>7, <1>8 DEF SessionsInv

LEMMA ArmTimerStep ==
    ASSUME SessionsInv, NEW c \in Callers, ArmTimer(c)
    PROVE  SessionsInv'
  <1>1. /\ SessionsTypeOK /\ Numbered /\ InHand(c) /\ Closing /\ OthersAgree
        /\ At(Main, "idle") /\ calls[c].step # "idle" /\ calls[c].id \in Ids /\ c # Main
    BY Names DEF SessionsInv, ArmTimer, At, InHand, Closing
  <1>2. \A q \in Callers : InHand(q)
    BY DEF SessionsInv
  <1>3. SessionsTypeOK'
    BY <1>1, Names DEF ArmTimer, SessionsTypeOK, Calls, Steps, Critical, At, Goes, Answers, Call, InHand, Creating
  <1>4. Numbered'
    BY <1>1, <1>3, Names DEF ArmTimer, Numbered, SessionsTypeOK, At, InHand, Creating, Agrees, Served, Unserved
  <1>5. InOrder'
    BY <1>1, <1>2 DEF ArmTimer, SessionsInv, InOrder, UsedUpTo
  <1>6. ASSUME NEW q \in Callers PROVE InHand(q)'
    <2>1. CASE q = c
      BY <1>1, <1>2, <1>3, <2>1, Names
      DEF ArmTimer, InHand, Creating, Agrees, Served, Unserved, Numbered, SessionsTypeOK, Critical, At, Goes, Answers, Call
    <2>2. CASE q # c
      BY <1>1, <1>2, <1>3, <1>6, <2>2, Names
      DEF ArmTimer, InHand, Creating, Agrees, Served, Unserved, Numbered, SessionsTypeOK, Critical, At, Goes, Answers, Call
    <2> QED BY <2>1, <2>2
  <1>7. Closing'
    BY <1>1, Names DEF ArmTimer, Closing, SessionsTypeOK, At, Goes, Answers, Call
  <1>8. OthersAgree'
    BY <1>1, <1>3, Names
    DEF ArmTimer, OthersAgree, InHand, Creating, Agrees, Served, Unserved, Numbered, SessionsTypeOK, Critical, At, Goes, Answers, Call
  <1> QED BY <1>3, <1>4, <1>5, <1>6, <1>7, <1>8 DEF SessionsInv

LEMMA ForgetStatsStep ==
    ASSUME SessionsInv, NEW c \in Callers, ForgetStats(c)
    PROVE  SessionsInv'
  <1>1. /\ SessionsTypeOK /\ Numbered /\ InHand(c) /\ Closing /\ OthersAgree
        /\ At(Main, "idle") /\ calls[c].step # "idle" /\ calls[c].id \in Ids /\ c # Main
    BY Names DEF SessionsInv, ForgetStats, At, InHand, Closing
  <1>2. \A q \in Callers : InHand(q)
    BY DEF SessionsInv
  <1>3. SessionsTypeOK'
    BY <1>1, Names DEF ForgetStats, SessionsTypeOK, Calls, Steps, Critical, At, Goes, Answers, Call
  <1>4. Numbered'
    BY <1>1, <1>3, Names DEF ForgetStats, Numbered, SessionsTypeOK, At, InHand, Creating, Agrees, Served, Unserved
  <1>5. InOrder'
    BY <1>1, <1>2 DEF ForgetStats, SessionsInv, InOrder, UsedUpTo
  <1>6. ASSUME NEW q \in Callers PROVE InHand(q)'
    <2>1. CASE q = c
      BY <1>1, <1>2, <1>3, <2>1, Names
      DEF ForgetStats, InHand, Creating, Agrees, Served, Unserved, Numbered, SessionsTypeOK, Critical, At, Goes, Answers, Call
    <2>2. CASE q # c
      BY <1>1, <1>2, <1>3, <1>6, <2>2, Names
      DEF ForgetStats, InHand, Creating, Agrees, Served, Unserved, Numbered, SessionsTypeOK, Critical, At, Goes, Answers, Call
    <2> QED BY <2>1, <2>2
  <1>7. Closing'
    BY <1>1, Names DEF ForgetStats, Closing, SessionsTypeOK, At, Goes, Answers, Call
  <1>8. OthersAgree'
    BY <1>1, <1>3, Names
    DEF ForgetStats, OthersAgree, InHand, Creating, Agrees, Served, Unserved, Numbered, SessionsTypeOK, Critical, At, Goes, Answers, Call
  <1> QED BY <1>3, <1>4, <1>5, <1>6, <1>7, <1>8 DEF SessionsInv

LEMMA LookupStep ==
    ASSUME SessionsInv, NEW c \in Callers, Lookup(c)
    PROVE  SessionsInv'
  <1>1. /\ SessionsTypeOK /\ Numbered /\ InHand(c) /\ Closing /\ OthersAgree
        /\ At(Main, "idle") /\ calls[c].step # "idle" /\ calls[c].id \in Ids /\ c # Main
    BY Names DEF SessionsInv, Lookup, At, InHand, Closing
  <1>2. \A q \in Callers : InHand(q)
    BY DEF SessionsInv
  <1>3. SessionsTypeOK'
    BY <1>1, Names DEF Lookup, SessionsTypeOK, Calls, Steps, Critical, At, Goes, Answers, Call
  <1>4. Numbered'
    BY <1>1, <1>3, Names DEF Lookup, Numbered, SessionsTypeOK, At, InHand, Creating, Agrees, Served, Unserved
  <1>5. InOrder'
    BY <1>1, <1>2 DEF Lookup, SessionsInv, InOrder, UsedUpTo
  <1>6. ASSUME NEW q \in Callers PROVE InHand(q)'
    <2>1. CASE q = c
      <3>1. /\ calls'[c].step = "idle" \/ (calls'[c].step = "reading" /\ calls'[c].id = calls[c].id)
            /\ mu' # c
        BY <1>1, Names DEF Lookup, SessionsTypeOK, Calls, At, Answers, Call
      <3> QED BY <1>1, <2>1, <3>1 DEF InHand, Creating
    <2>2. CASE q # c
      BY <1>1, <1>2, <1>3, <1>6, <2>2, Names
      DEF Lookup, InHand, Creating, Agrees, Served, Unserved, Numbered, SessionsTypeOK, Critical, At, Goes, Answers, Call
    <2> QED BY <2>1, <2>2
  <1>7. Closing'
    BY <1>1, Names DEF Lookup, Closing, SessionsTypeOK, At, Goes, Answers, Call
  <1>8. OthersAgree'
    BY <1>1, <1>3, Names
    DEF Lookup, OthersAgree, InHand, Creating, Agrees, Served, Unserved, Numbered, SessionsTypeOK, Critical, At, Goes, Answers, Call
  <1> QED BY <1>3, <1>4, <1>5, <1>6, <1>7, <1>8 DEF SessionsInv

LEMMA ReadHandleStep ==
    ASSUME SessionsInv, NEW c \in Callers, ReadHandle(c)
    PROVE  SessionsInv'
  <1>1. /\ SessionsTypeOK /\ Numbered /\ InHand(c) /\ Closing /\ OthersAgree
        /\ At(Main, "idle") /\ calls[c].step # "idle" /\ calls[c].id \in Ids /\ c # Main
    BY Names DEF SessionsInv, ReadHandle, At, InHand, Closing
  <1>2. \A q \in Callers : InHand(q)
    BY DEF SessionsInv
  <1>3. SessionsTypeOK'
    BY <1>1, Names DEF ReadHandle, SessionsTypeOK, Calls, Steps, Critical, At, Goes, Answers, Call
  <1>4. Numbered'
    BY <1>1, <1>3, Names DEF ReadHandle, Numbered, SessionsTypeOK, At, InHand, Creating, Agrees, Served, Unserved
  <1>5. InOrder'
    BY <1>1, <1>2 DEF ReadHandle, SessionsInv, InOrder, UsedUpTo
  <1>6. ASSUME NEW q \in Callers PROVE InHand(q)'
    <2>1. CASE q = c
      <3>1. /\ calls'[c].step = "idle" \/ (calls'[c].step = "entering" /\ calls'[c].id = calls[c].id)
            /\ mu' # c
        BY <1>1, Names DEF ReadHandle, SessionsTypeOK, Calls, Critical, At, Goes, Answers, Call
      <3> QED BY <1>1, <2>1, <3>1 DEF InHand, Creating
    <2>2. CASE q # c
      BY <1>1, <1>2, <1>3, <1>6, <2>2, Names
      DEF ReadHandle, InHand, Creating, Agrees, Served, Unserved, Numbered, SessionsTypeOK, Critical, At, Goes, Answers, Call
    <2> QED BY <2>1, <2>2
  <1>7. Closing'
    BY <1>1, Names DEF ReadHandle, Closing, SessionsTypeOK, At, Goes, Answers, Call
  <1>8. OthersAgree'
    BY <1>1, <1>3, Names
    DEF ReadHandle, OthersAgree, InHand, Creating, Agrees, Served, Unserved, Numbered, SessionsTypeOK, Critical, At, Goes, Answers, Call
  <1> QED BY <1>3, <1>4, <1>5, <1>6, <1>7, <1>8 DEF SessionsInv

LEMMA EnterNativeStep ==
    ASSUME SessionsInv, NEW c \in Callers, EnterNative(c)
    PROVE  SessionsInv'
  <1>1. /\ SessionsTypeOK /\ Numbered /\ InHand(c) /\ Closing /\ OthersAgree
        /\ At(Main, "idle") /\ calls[c].step # "idle" /\ calls[c].id \in Ids /\ c # Main
    BY Names DEF SessionsInv, EnterNative, At, InHand, Closing
  <1>2. \A q \in Callers : InHand(q)
    BY DEF SessionsInv
  <1>3. SessionsTypeOK'
    BY <1>1, Names DEF EnterNative, SessionsTypeOK, Calls, Steps, Critical, At, Goes, Answers, Call
  <1>4. Numbered'
    BY <1>1, <1>3, Names DEF EnterNative, Numbered, SessionsTypeOK, At, InHand, Creating, Agrees, Served, Unserved
  <1>5. InOrder'
    BY <1>1, <1>2 DEF EnterNative, SessionsInv, InOrder, UsedUpTo
  <1>6. ASSUME NEW q \in Callers PROVE InHand(q)'
    <2>1. CASE q = c
      BY <1>1, <1>2, <1>3, <2>1, Names
      DEF EnterNative, InHand, Creating, Agrees, Served, Unserved, Numbered, SessionsTypeOK, Critical, At, Goes, Answers, Call
    <2>2. CASE q # c
      BY <1>1, <1>2, <1>3, <1>6, <2>2, Names
      DEF EnterNative, InHand, Creating, Agrees, Served, Unserved, Numbered, SessionsTypeOK, Critical, At, Goes, Answers, Call
    <2> QED BY <2>1, <2>2
  <1>7. Closing'
    BY <1>1, Names DEF EnterNative, Closing, SessionsTypeOK, At, Goes, Answers, Call
  <1>8. OthersAgree'
    BY <1>1, <1>3, Names
    DEF EnterNative, OthersAgree, InHand, Creating, Agrees, Served, Unserved, Numbered, SessionsTypeOK, Critical, At, Goes, Answers, Call
  <1> QED BY <1>3, <1>4, <1>5, <1>6, <1>7, <1>8 DEF SessionsInv

\* The library's next session is numbered past all it ever had.
LEMMA NextIsFresh ==
    ASSUME SessionsInv, NextNumber \in Numbers
    PROVE  /\ native[NextNumber] = "none"
           /\ \A m \in Numbers : native[m] # "none" <=> m < NextNumber
  <1>1. PICK k \in 0 .. MaxSessions : UsedUpTo(k)
    BY DEF SessionsInv, InOrder
  <1>2. {n \in Numbers : native[n] # "none"} = 1 .. k
    BY <1>1, SessionsAssumption DEF UsedUpTo, Numbers, SessionsAssumption
  <1>3. Cardinality(1 .. k) = k
    BY <1>1, FS_Interval, SessionsAssumption DEF SessionsAssumption
  <1>4. NextNumber = k + 1
    <2>1. Cardinality({n \in Numbers : native[n] # "none"}) = k
      BY <1>2, <1>3
    <2>2. NextNumber = 1 + k
      BY <2>1 DEF NextNumber
    <2> QED BY <1>1, <2>2, SessionsAssumption DEF SessionsAssumption
  <1> QED BY <1>1, <1>4, SessionsAssumption DEF UsedUpTo, Numbers, SessionsAssumption

LEMMA CreateNativeStep ==
    ASSUME SessionsInv, NEW c \in Callers, CreateNative(c)
    PROVE  SessionsInv'
  <1>1. /\ SessionsTypeOK /\ Numbered /\ InHand(c) /\ Closing /\ OthersAgree
        /\ At(Main, "idle") /\ At(c, "creating") /\ calls[c].id \in Ids /\ c # Main
        /\ mu = c
    BY Names DEF SessionsInv, CreateNative, At, InHand, Closing, SessionsTypeOK, Critical
  <1>2. \A q \in Callers : InHand(q)
    BY DEF SessionsInv
  <1>3. sessions[calls[c].id] = None /\ Agrees(calls[c].id)
    BY <1>1 DEF InHand, At
  <1>4. CASE Answers(c, "internal") /\ mu' = Free /\ UNCHANGED <<native, handle, sessions>>
    <2>0. UNCHANGED <<sessions, memStats, stores, callbacks, handle, native, muxer,
                      fed, ended, timers, stopping>>
      BY <1>4 DEF CreateNative
    <2>1. SessionsTypeOK'
      BY <1>1, <1>4, <2>0, Names
      DEF SessionsTypeOK, Calls, Steps, Critical, At, Answers, Call
    <2>2. Numbered' /\ InOrder'
      BY <1>1, <2>0 DEF Numbered, SessionsInv, InOrder, UsedUpTo
    <2>3. ASSUME NEW q \in Callers PROVE InHand(q)'
      <3>1. mu # q \/ q = c
        BY <1>1
      <3>2. CASE q = c
        BY <1>1, <1>4, <3>2, Names DEF InHand, Creating, Answers, Call, SessionsTypeOK
      <3>3. CASE q # c
        BY <1>1, <1>2, <1>4, <2>0, <3>3, Names
        DEF InHand, Creating, Agrees, Served, Unserved, Answers, SessionsTypeOK, Critical
      <3> QED BY <3>2, <3>3
    <2>4. Closing'
      BY <1>1, <1>4, <2>0, Names DEF Closing, At, Answers, Call, SessionsTypeOK
    <2>5. OthersAgree'
      BY <1>1, <1>3, <2>0 DEF OthersAgree, Agrees, Served, Unserved
    <2> QED BY <2>1, <2>2, <2>3, <2>4, <2>5 DEF SessionsInv
  <1>5. CASE /\ NextNumber \in Numbers
             /\ native' = [native EXCEPT ![NextNumber] = "live"]
             /\ handle' = handle \cup {NextNumber}
             /\ sessions' = [sessions EXCEPT ![calls[c].id] = NextNumber]
             /\ calls' = [calls EXCEPT ![c].step = "registering", ![c].n = NextNumber]
             /\ UNCHANGED mu
    <2> DEFINE id == calls[c].id
    <2>0. UNCHANGED <<memStats, stores, callbacks, muxer, fed, ended, timers, stopping>>
      BY DEF CreateNative
    <2>1. PICK n \in Numbers :
            /\ n = NextNumber /\ native[n] = "none"
            /\ \A m \in Numbers : native[m] # "none" <=> m < n
      BY <1>5, NextIsFresh
    <2>2. /\ native' = [native EXCEPT ![n] = "live"]
          /\ sessions' = [sessions EXCEPT ![id] = n]
          /\ handle' = handle \cup {n} /\ mu' = c
          /\ calls' = [calls EXCEPT ![c].step = "registering", ![c].n = n]
      BY <1>1, <1>5, <2>1
    <2>3. n \notin callbacks /\ n \notin ended /\ \A a \in Ids : sessions[a] # n
      BY <1>1, <2>1, Names DEF Numbered, SessionsTypeOK
    <2>4. SessionsTypeOK'
      <3>1. calls' \in [Callers \cup {Main} -> Calls]
        <4>1. calls[c] \in Calls /\ "registering" \in Steps /\ n \in Numbers \cup {None}
          BY <1>1, <2>1 DEF SessionsTypeOK, Steps, Critical
        <4>2. PICK r \in Calls : r = [calls[c] EXCEPT !.step = "registering"]
          BY <4>1 DEF Calls
        <4>3. [r EXCEPT !.n = n] \in Calls
          BY <4>1 DEF Calls
        <4>4. calls' = [calls EXCEPT ![c] = [r EXCEPT !.n = n]]
          BY <2>2, <4>2
        <4> QED BY <1>1, <4>3, <4>4 DEF SessionsTypeOK
      <3>2. \A q \in Callers \cup {Main} : calls'[q].step \in Critical <=> mu' = q
        BY <1>1, <2>2 DEF SessionsTypeOK, Calls, Critical, At
      <3> QED BY <1>1, <2>0, <2>1, <2>2, <3>1, <3>2 DEF SessionsTypeOK
    <2>5. Numbered'
      BY <1>1, <2>0, <2>1, <2>2, <2>3 DEF Numbered, SessionsTypeOK
    <2>6. InOrder'
      <3>1. n \in 0 .. MaxSessions /\ \A m \in Numbers : m \in Int
        BY <2>1, SessionsAssumption DEF Numbers, SessionsAssumption
      <3>2. ASSUME NEW m \in Numbers PROVE native'[m] # "none" <=> m <= n
        <4>1. CASE m = n
          BY <1>1, <2>1, <2>2, <3>1, <4>1 DEF SessionsTypeOK
        <4>2. CASE m # n
          <5>1. native'[m] = native[m]
            BY <1>1, <2>1, <2>2, <4>2 DEF SessionsTypeOK
          <5> QED BY <2>1, <3>1, <4>2, <5>1
        <4> QED BY <4>1, <4>2
      <3>3. UsedUpTo(n)'
        BY <3>2 DEF UsedUpTo
      <3> QED BY <3>1, <3>3 DEF InOrder
    <2>7. ASSUME NEW q \in Callers PROVE InHand(q)'
      <3>1. CASE q = c
        <4>1. calls'[c].step = "registering" /\ calls'[c].id = id /\ calls'[c].n = n
          BY <1>1, <2>2 DEF SessionsTypeOK, Calls
        <4>2. sessions'[id] = n /\ native'[n] = "live" /\ id \notin memStats
              /\ (stores[id] # None => stores[id] \in ended)
          BY <1>1, <1>3, <2>1, <2>2 DEF SessionsTypeOK, Agrees
        <4>3. \A m \in Numbers : native'[m] # "none" => m <= n
          BY <1>1, <2>1, <2>2 DEF SessionsTypeOK, Numbers
        <4> QED BY <1>1, <2>0, <2>1, <2>3, <3>1, <4>1, <4>2, <4>3, Names DEF InHand, Creating
      <3>2. CASE q # c
        <4>1. calls'[q] = calls[q] /\ mu # q /\ mu' # q
          BY <1>1, <2>2, <3>2 DEF SessionsTypeOK
        <4>2. calls[q].step \notin Critical
          BY <1>1, <4>1 DEF SessionsTypeOK
        <4> QED BY <1>2, <2>0, <4>1, <4>2 DEF InHand, Creating, Critical
      <3> QED BY <3>1, <3>2
    <2>8. Closing'
      BY <1>1, <2>0, <2>2, Names DEF Closing, At, SessionsTypeOK
    <2>9. OthersAgree'
      <3> SUFFICES ASSUME NEW a \in Ids, a # id PROVE Agrees(a)'
        BY <1>1, <2>2 DEF OthersAgree, SessionsTypeOK, Calls
      <3>1. Agrees(a) /\ sessions'[a] = sessions[a]
        BY <1>1, <2>2 DEF OthersAgree, SessionsTypeOK
      <3>2. sessions[a] # None => native'[sessions[a]] = native[sessions[a]]
        BY <1>1, <2>2, <2>3 DEF SessionsTypeOK
      <3> QED BY <2>0, <3>1, <3>2 DEF Agrees, Served, Unserved
    <2> QED BY <2>4, <2>5, <2>6, <2>7, <2>8, <2>9 DEF SessionsInv
  <1> QED BY <1>4, <1>5 DEF CreateNative

\* A controller calls.
LEMMA AskStep ==
    ASSUME SessionsInv, NEW c \in Callers, NEW id \in Ids,
           NEW op \in {"create", "destroy", "call"}, Ask(c, op, id)
    PROVE  SessionsInv'
  <1>1. SessionsTypeOK /\ Numbered /\ Closing /\ OthersAgree /\ At(c, "idle") /\ c # Main
    BY Names DEF SessionsInv, Ask
  <1>2. \A q \in Callers : InHand(q)
    BY DEF SessionsInv
  <1>3. /\ calls' = [calls EXCEPT ![c] = Call("waiting", op, id, None, "-")]
        /\ UNCHANGED <<sessions, memStats, stores, callbacks, handle, native, muxer,
                       fed, ended, timers, mu, stopping>>
        /\ mu # c /\ ~stopping
    BY <1>1 DEF Ask, SessionsTypeOK, Critical, At
  <1>4. SessionsTypeOK'
    BY <1>1, <1>3 DEF SessionsTypeOK, Calls, Steps, Critical, Call
  <1>5. Numbered' /\ InOrder'
    BY <1>1, <1>3 DEF Numbered, SessionsInv, InOrder, UsedUpTo
  <1>6. ASSUME NEW q \in Callers PROVE InHand(q)'
    <2>1. CASE q = c
      BY <1>1, <1>3, <2>1 DEF InHand, Creating, Call, SessionsTypeOK
    <2>2. CASE q # c
      BY <1>1, <1>2, <1>3, <2>2 DEF InHand, Creating, Agrees, Served, Unserved, SessionsTypeOK
    <2> QED BY <2>1, <2>2
  <1>7. Closing' /\ OthersAgree'
    BY <1>1, <1>3 DEF Closing, OthersAgree, Agrees, Served, Unserved, At, SessionsTypeOK
  <1> QED BY <1>4, <1>5, <1>6, <1>7 DEF SessionsInv

-----------------------------------------------------------------------------
(* Timers and muxer threads.                                               *)

\* A timer takes only a store that was finalized: nobody's that is in hand.
LEMMA TimerFiresStep ==
    ASSUME SessionsInv, NEW id \in Ids, NEW st \in Numbers, TimerFires(id, st)
    PROVE  SessionsInv'
  <1>1. /\ SessionsTypeOK /\ Numbered /\ Closing /\ OthersAgree /\ st \in ended
        /\ native[st] = "destroyed"
    BY DEF SessionsInv, TimerFires, Numbered
  <1>2. \A q \in Callers : InHand(q)
    BY DEF SessionsInv
  <1>3. /\ timers' \subseteq timers
        /\ \A a \in Ids : stores'[a] = stores[a] \/ (stores[a] = st /\ stores'[a] = None)
        /\ UNCHANGED <<sessions, memStats, callbacks, handle, native, muxer, fed,
                       ended, calls, mu, stopping>>
    BY <1>1 DEF TimerFires, SessionsTypeOK
  <1>4. SessionsTypeOK'
    <2>1. stores' \in [Ids -> Numbers \cup {None}]
      BY <1>1 DEF TimerFires, SessionsTypeOK
    <2> QED BY <1>1, <1>3, <2>1 DEF SessionsTypeOK, At
  <1>5. Numbered' /\ InOrder' /\ Closing'
    BY <1>1, <1>3 DEF Numbered, SessionsInv, InOrder, UsedUpTo, Closing, At
  <1>6. \A a \in Ids : Agrees(a) => Agrees(a)'
    BY <1>1, <1>3 DEF Agrees, Served, Unserved
  <1>7. ASSUME NEW q \in Callers PROVE InHand(q)'
    <2>1. InHand(q) /\ calls'[q] = calls[q]
      BY <1>2, <1>3
    <2>2. CASE calls[q].step = "idle"
      BY <1>1, <1>3, <2>1, <2>2 DEF InHand, Creating, SessionsTypeOK, Critical
    <2>3. CASE calls[q].step # "idle"
      BY <1>1, <1>3, <1>6, <2>1, <2>3 DEF InHand, Creating, Served, Unserved
    <2> QED BY <2>2, <2>3
  <1>8. OthersAgree'
    BY <1>1, <1>3, <1>6 DEF OthersAgree, At
  <1> QED BY <1>4, <1>5, <1>7, <1>8 DEF SessionsInv

\* What the muxer threads do, no handler sees.
LEMMA MuxerSteps ==
    ASSUME SessionsInv, NEW n \in Numbers, MuxerEmits(n) \/ Callback(n)
    PROVE  SessionsInv'
  <1>1. SessionsTypeOK /\ Numbered /\ Closing /\ OthersAgree
    BY DEF SessionsInv
  <1>2. \A q \in Callers : InHand(q)
    BY DEF SessionsInv
  <1>3. /\ UNCHANGED <<sessions, memStats, stores, callbacks, handle, native, ended,
                       timers, calls, mu, stopping>>
    BY DEF MuxerEmits, Callback, FindCallback, FeedStore
  <1>4. SessionsTypeOK' /\ Numbered'
    <2>1. /\ native[n] # "destroyed" /\ fed[n] < MaxFragments
          /\ fed[n] \in Nat /\ MaxFragments \in Nat
      BY <1>1, SessionsAssumption
      DEF MuxerEmits, Callback, FindCallback, FeedStore, Numbered, SessionsTypeOK,
          SessionsAssumption
    <2>2. /\ muxer' \in [Numbers -> {"idle", "calling", "feeding"}]
          /\ \A m \in Numbers \ {n} : muxer'[m] = muxer[m] /\ fed'[m] = fed[m]
          /\ fed' \in [Numbers -> 0 .. MaxFragments]
          /\ muxer'[n] # "idle" => fed'[n] = fed[n]
      BY <1>1, <2>1 DEF MuxerEmits, Callback, FindCallback, FeedStore, SessionsTypeOK
    <2> QED BY <1>1, <1>3, <2>1, <2>2 DEF SessionsTypeOK, Numbered, At
  <1>5. InOrder' /\ Closing' /\ OthersAgree'
    BY <1>1, <1>3
    DEF SessionsInv, InOrder, UsedUpTo, Closing, OthersAgree, Agrees, Served, Unserved, At
  <1>6. \A q \in Callers : InHand(q)'
    BY <1>2, <1>3 DEF InHand, Creating, Agrees, Served, Unserved
  <1> QED BY <1>4, <1>5, <1>6 DEF SessionsInv

-----------------------------------------------------------------------------
(* The end of the process.                                                 *)

LEMMA StopStep ==
    ASSUME SessionsInv, Stop
    PROVE  SessionsInv'
  <1>1. SessionsTypeOK /\ Numbered /\ InOrder /\ Closing /\ OthersAgree
    BY DEF SessionsInv
  <1>2. \A q \in Callers : InHand(q)
    BY DEF SessionsInv
  <1>3. SessionsTypeOK' /\ Numbered' /\ InOrder' /\ Closing' /\ OthersAgree'
    BY <1>1
    DEF Stop, SessionsTypeOK, Numbered, InOrder, UsedUpTo, Closing, OthersAgree, Agrees,
        Served, Unserved, At
  <1>4. \A q \in Callers : InHand(q)'
    BY <1>2 DEF Stop, InHand, Creating, Agrees, Served, Unserved
  <1> QED BY <1>3, <1>4 DEF SessionsInv

\* Serve has returned: the callers are idle, and the steps are main's.
LEMMA CloseStep ==
    ASSUME SessionsInv, Close
    PROVE  SessionsInv'
  <1>1. SessionsTypeOK /\ Numbered /\ InOrder /\ Closing
    BY DEF SessionsInv
  <1>2. stopping /\ \A q \in Callers : At(q, "idle") /\ q # Main
    BY <1>1, Names
    DEF Close, BeginClose, PickSession, Unhook, StopNative, ClearHandle, EndClose, Closing, At
  <1>3. Main \in Callers \cup {Main} /\ (~At(Main, "idle") => calls[Main].step # "idle")
    BY DEF At
  <1> DEFINE After(step) ==
        /\ calls'[Main].step = step /\ step # "idle"
        /\ \A q \in Callers : calls'[q] = calls[q]
        /\ stopping' = stopping
  <1>4. ASSUME NEW step, After(step), SessionsTypeOK'
        PROVE  (\A q \in Callers : InHand(q)') /\ OthersAgree'
    <2>1. \A q \in Callers : calls'[q].step = "idle" /\ mu' # q
      BY <1>2, <1>4 DEF At, SessionsTypeOK, Critical
    <2>2. \A q \in Callers : InHand(q)'
      BY <2>1 DEF InHand, Creating
    <2> QED BY <1>4, <2>2 DEF OthersAgree, At
  <1>5. CASE BeginClose
    <2>1. After("picking")
      BY <1>1, <1>2, <1>5 DEF BeginClose, Goes, SessionsTypeOK
    <2>2. SessionsTypeOK'
      <3>1. calls' \in [Callers \cup {Main} -> Calls]
        BY <1>1, <1>5 DEF BeginClose, Goes, SessionsTypeOK, Calls, Steps, Critical
      <3>2. \A q \in Callers \cup {Main} : calls'[q].step \in Critical <=> mu' = q
        BY <1>2, <1>5, <2>1 DEF BeginClose, Critical, At
      <3> QED BY <1>1, <1>5, <3>1, <3>2 DEF BeginClose, SessionsTypeOK, At
    <2>3. Numbered' /\ InOrder' /\ Closing'
      BY <1>1, <1>2, <1>5, <2>1 DEF BeginClose, Numbered, InOrder, UsedUpTo, Closing, At
    <2> QED BY <1>4, <2>1, <2>2, <2>3 DEF SessionsInv
  <1>6. CASE PickSession
    <2>1. PICK id \in Ids :
            /\ sessions[id] \in handle
            /\ calls' = [calls EXCEPT ![Main] =
                           Call("unhooking", "close", id, sessions[id], "-")]
      BY <1>6 DEF PickSession
    <2>2. sessions[id] \in Numbers /\ native[sessions[id]] # "none"
      BY <1>1, <2>1, Names DEF SessionsTypeOK, Numbered
    <2>3. After("unhooking") /\ calls'[Main].n = sessions[id]
      BY <1>1, <1>2, <1>6, <2>1 DEF PickSession, Call, SessionsTypeOK
    <2>4. SessionsTypeOK'
      <3>1. calls' \in [Callers \cup {Main} -> Calls]
        BY <1>1, <2>1, <2>2 DEF Call, SessionsTypeOK, Calls, Steps, Critical
      <3>2. \A q \in Callers \cup {Main} : calls'[q].step \in Critical <=> mu' = q
        BY <1>1, <1>2, <1>6, <2>3 DEF PickSession, SessionsTypeOK, Critical, At
      <3> QED BY <1>1, <1>6, <3>1, <3>2 DEF PickSession, SessionsTypeOK, At
    <2>5. Numbered' /\ InOrder' /\ Closing'
      BY <1>1, <1>2, <1>6, <2>2, <2>3 DEF PickSession, Numbered, InOrder, UsedUpTo, Closing, At
    <2> QED BY <1>4, <2>3, <2>4, <2>5 DEF SessionsInv
  <1>7. CASE Unhook(Main)
    <2>1. After("stopping") /\ calls'[Main].n = calls[Main].n /\ mu = Main
      BY <1>1, <1>2, <1>7 DEF Unhook, Goes, SessionsTypeOK, Calls, Critical, At
    <2>2. SessionsTypeOK'
      <3>1. calls' \in [Callers \cup {Main} -> Calls]
        BY <1>1, <1>7 DEF Unhook, Goes, SessionsTypeOK, Calls, Steps, Critical
      <3>2. \A q \in Callers \cup {Main} : calls'[q].step \in Critical <=> mu' = q
        BY <1>1, <1>2, <1>7, <2>1 DEF Unhook, SessionsTypeOK, Critical, At
      <3> QED BY <1>1, <1>7, <3>1, <3>2 DEF Unhook, SessionsTypeOK, At
    <2>3. Numbered' /\ InOrder' /\ Closing'
      BY <1>1, <1>2, <1>7, <2>1 DEF Unhook, Numbered, InOrder, UsedUpTo, Closing, At
    <2> QED BY <1>4, <2>1, <2>2, <2>3 DEF SessionsInv
  <1>8. CASE StopNative(Main)
    <2> DEFINE n == calls[Main].n
    <2>1. After("clearing") /\ calls'[Main].n = n /\ mu = Main
      BY <1>1, <1>2, <1>8 DEF StopNative, Goes, SessionsTypeOK, Calls, Critical, At
    <2>2. /\ n \in Numbers /\ native[n] # "none" /\ n \notin callbacks
          /\ native' = [native EXCEPT ![n] = "destroyed"] /\ muxer[n] = "idle"
      BY <1>1, <1>8 DEF StopNative, Closing, At
    <2>3. SessionsTypeOK'
      <3>1. calls' \in [Callers \cup {Main} -> Calls]
        BY <1>1, <1>8 DEF StopNative, Goes, SessionsTypeOK, Calls, Steps, Critical
      <3>2. \A q \in Callers \cup {Main} : calls'[q].step \in Critical <=> mu' = q
        BY <1>1, <1>2, <1>8, <2>1 DEF StopNative, SessionsTypeOK, Critical, At
      <3> QED BY <1>1, <1>8, <2>2, <3>1, <3>2 DEF StopNative, SessionsTypeOK, At
    <2>4. Numbered'
      BY <1>1, <1>8, <2>2 DEF StopNative, Numbered, SessionsTypeOK
    <2>5. InOrder'
      <3>1. PICK k \in 0 .. MaxSessions : UsedUpTo(k)
        BY <1>1 DEF InOrder
      <3>2. \A m \in Numbers : native'[m] # "none" <=> native[m] # "none"
        BY <1>1, <2>2 DEF SessionsTypeOK
      <3> QED BY <3>1, <3>2 DEF InOrder, UsedUpTo
    <2>6. Closing'
      BY <1>1, <1>2, <1>8, <2>1, <2>2 DEF StopNative, Closing, At, SessionsTypeOK
    <2> QED BY <1>4, <2>1, <2>3, <2>4, <2>5, <2>6 DEF SessionsInv
  <1>9. CASE ClearHandle(Main)
    <2>1. After("picking") /\ calls' = [calls EXCEPT ![Main].step = "picking"] /\ mu = Main
      BY <1>1, <1>2, <1>9 DEF ClearHandle, Goes, SessionsTypeOK, Calls, Critical, At
    <2>2. SessionsTypeOK'
      <3>1. calls' \in [Callers \cup {Main} -> Calls]
        BY <1>1, <2>1 DEF SessionsTypeOK, Calls, Steps, Critical
      <3>2. \A q \in Callers \cup {Main} : calls'[q].step \in Critical <=> mu' = q
        BY <1>1, <1>2, <1>9, <2>1 DEF ClearHandle, SessionsTypeOK, Critical, At
      <3> QED BY <1>1, <1>9, <3>1, <3>2 DEF ClearHandle, SessionsTypeOK, At
    <2>3. Numbered' /\ InOrder' /\ Closing'
      BY <1>1, <1>2, <1>9, <2>1 DEF ClearHandle, Numbered, InOrder, UsedUpTo, Closing, At
    <2> QED BY <1>4, <2>1, <2>2, <2>3 DEF SessionsInv
  <1>10. CASE EndClose
    <2>1. After("closed") /\ mu = Main
      BY <1>1, <1>2, <1>10 DEF EndClose, Call, SessionsTypeOK, Critical, At
    <2>2. SessionsTypeOK'
      <3>1. calls' \in [Callers \cup {Main} -> Calls]
        BY <1>1, <1>10 DEF EndClose, Call, SessionsTypeOK, Calls, Steps, Critical
      <3>2. \A q \in Callers \cup {Main} : calls'[q].step \in Critical <=> mu' = q
        BY <1>1, <1>2, <1>10, <2>1, Names DEF EndClose, SessionsTypeOK, Critical, At
      <3> QED BY <1>1, <1>10, <3>1, <3>2 DEF EndClose, SessionsTypeOK, At
    <2>3. Numbered' /\ InOrder' /\ Closing'
      BY <1>1, <1>2, <1>10, <2>1 DEF EndClose, Numbered, InOrder, UsedUpTo, Closing, At
    <2> QED BY <1>4, <2>1, <2>2, <2>3 DEF SessionsInv
  <1> QED BY <1>5, <1>6, <1>7, <1>8, <1>9, <1>10 DEF Close

-----------------------------------------------------------------------------
(* What holds always.                                                      *)

LEMMA SessionsInvNext == SessionsInv /\ [Next]_vars => SessionsInv'
  <1> SUFFICES ASSUME SessionsInv, [Next]_vars PROVE SessionsInv'
    OBVIOUS
  <1>1. CASE UNCHANGED vars
    BY <1>1
    DEF SessionsInv, vars, SessionsTypeOK, Numbered, InOrder, UsedUpTo, InHand, Closing,
        OthersAgree, Agrees, Served, Unserved, At
  <1>2. ASSUME NEW c \in Callers, CreateSession(c) PROVE SessionsInv'
    BY <1>2, BeginCreateStep, CreateNativeStep, RegisterStep, HookStep, InstallStep,
       DropStoreStep, RecordStatsStep DEF CreateSession
  <1>3. ASSUME NEW c \in Callers, DestroySession(c) PROVE SessionsInv'
    BY <1>3, BeginDestroyStep, UnhookStep, StopNativeStep, ClearHandleStep,
       FinalizeStoreStep, ArmTimerStep, ForgetStatsStep DEF DestroySession
  <1>4. ASSUME NEW c \in Callers, SessionCall(c) PROVE SessionsInv'
    BY <1>4, LookupStep, ReadHandleStep, EnterNativeStep DEF SessionCall
  <1> QED BY <1>1, <1>2, <1>3, <1>4, AskStep, TimerFiresStep, MuxerSteps, StopStep, CloseStep
          DEF Next, Handler

LEMMA SessionsInvariant == Spec => []SessionsInv
  BY SessionsInvInit, SessionsInvNext, PTL DEF Spec

(***************************************************************************)
(* The types; and a handler is in the middle of creating, destroying or    *)
(* closing exactly while it holds the mutex of the gRPC server.            *)
(***************************************************************************)
THEOREM SessionsTypeCorrect == Spec => []SessionsTypeOK
  <1>1. SessionsInv => SessionsTypeOK
    BY DEF SessionsInv
  <1> QED BY <1>1, SessionsInvariant, PTL

(***************************************************************************)
(* With nobody creating or destroying, gRPC server, HTTP server, binding   *)
(* and library agree on every session id, for any number of handlers.      *)
(***************************************************************************)
THEOREM RegistriesInAgreement == Spec => []RegistriesAgree
  <1>1. SessionsInv => RegistriesAgree
    <2> SUFFICES ASSUME SessionsInv, mu = Free, ~At(Main, "closed"), NEW id \in Ids
                 PROVE  Agrees(id)
      BY DEF RegistriesAgree, Agrees
    <2>1. At(Main, "idle")
      BY Names DEF SessionsInv, SessionsTypeOK, Closing, Critical, At
    <2> QED BY <2>1, Names DEF SessionsInv, OthersAgree
  <1> QED BY <1>1, SessionsInvariant, PTL

(***************************************************************************)
(* The callback map holds no entry of a session the library has destroyed. *)
(***************************************************************************)
THEOREM CallbacksLive == Spec => []CallbacksAreOfLiveSessions
  <1>1. SessionsInv => CallbacksAreOfLiveSessions
    BY DEF SessionsInv, Numbered, CallbacksAreOfLiveSessions
  <1> QED BY <1>1, SessionsInvariant, PTL

(***************************************************************************)
(* No fragment reaches a store after its end: the session of an ended      *)
(* store is destroyed, and a destroyed session's muxer thread is idle.     *)
(***************************************************************************)
THEOREM NoFragmentAfterTheEnd == Spec => NothingAfterTheEnd
  <1> DEFINE Kept == \A n \in ended : fed'[n] = fed[n]
  <1>1. SessionsInv /\ [Next]_vars => [Kept]_vars
    <2> SUFFICES ASSUME SessionsInv, Next, NEW n \in ended PROVE fed'[n] = fed[n]
      OBVIOUS
    <2>1. n \in Numbers /\ muxer[n] = "idle" /\ fed \in [Numbers -> 0 .. MaxFragments]
      BY DEF SessionsInv, SessionsTypeOK, Numbered
    <2>2. CASE \E m \in Numbers : FeedStore(m)
      BY <2>1, <2>2 DEF FeedStore
    <2>3. CASE UNCHANGED fed
      BY <2>3
    <2> QED BY <2>2, <2>3
        DEF Next, Handler, CreateSession, DestroySession, SessionCall, Close, Callback, Ask,
            BeginCreate, CreateNative, Register, Hook, Install, DropStore, RecordStats,
            BeginDestroy, Unhook, StopNative, ClearHandle, FinalizeStore, ArmTimer,
            ForgetStats, TimerFires, Lookup, ReadHandle, EnterNative, MuxerEmits,
            FindCallback, Stop, BeginClose, PickSession, EndClose
  <1> QED BY <1>1, SessionsInvariant, PTL DEF Spec, NothingAfterTheEnd

(***************************************************************************)
(* Under every id an open stream stays until it ends or its registration   *)
(* is undone, and an ended one until its own timer or a newer session.     *)
(***************************************************************************)
THEOREM StreamsStay == Spec => StreamsEndBeforeTheyGo
  <1> DEFINE Stays(id) ==
        LET st == stores[id]
        IN  /\ st # None /\ st \notin ended =>
                  stores'[id] = st \/ native[st] = "live"
            /\ st \in ended =>
                  /\ st \in ended'
                  /\ \/ stores'[id] = st
                     \/ stores'[id] > st
                     \/ <<id, st>> \in timers \ timers'
  <1>1. SessionsInv /\ [Next]_vars => [\A id \in Ids : Stays(id)]_vars
    <2> SUFFICES ASSUME SessionsInv, Next, NEW id \in Ids PROVE Stays(id)
      OBVIOUS
    <2>1. SessionsTypeOK /\ Numbered /\ InOrder /\ \A c \in Callers : InHand(c)
      BY DEF SessionsInv
    <2>2. CASE \E c \in Callers : Register(c)
      <3>1. PICK c \in Callers : Register(c)
        BY <2>2
      <3> DEFINE n == calls[c].n
      <3>2. /\ n \in Numbers /\ native[n] = "live" /\ \A m \in Numbers : native[m] # "none" => m <= n
            /\ stores[calls[c].id] # None => stores[calls[c].id] \in ended
        BY <2>1, <3>1 DEF Register, At, InHand, Creating, SessionsTypeOK, Critical
      <3>3. \A m \in ended : m \in Numbers /\ native[m] = "destroyed" /\ m # n /\ m <= n
        BY <2>1, <3>2 DEF Numbered, SessionsTypeOK
      <3>4. \A m \in ended : n > m
        BY <3>2, <3>3 DEF Numbers
      <3>5. /\ ended' = ended
            /\ stores'[id] = IF id = calls[c].id THEN n ELSE stores[id]
        BY <2>1, <3>1 DEF Register, SessionsTypeOK
      <3> QED BY <3>2, <3>4, <3>5
    <2>3. CASE \E c \in Callers : DropStore(c)
      <3>1. PICK c \in Callers : DropStore(c)
        BY <2>3
      <3>2. native[calls[c].n] = "live" /\ stores[calls[c].id] = calls[c].n
        BY <2>1, <3>1 DEF DropStore, At, InHand, Creating
      <3>3. /\ ended' = ended
            /\ id # calls[c].id => stores'[id] = stores[id]
        BY <2>1, <3>1 DEF DropStore, SessionsTypeOK
      <3> QED BY <2>1, <3>2, <3>3 DEF Numbered
    <2>4. CASE \E a \in Ids, st \in Numbers : TimerFires(a, st)
      <3>1. PICK a \in Ids, st \in Numbers : TimerFires(a, st)
        BY <2>4
      <3>2. /\ st \in ended /\ ended' = ended
            /\ stores'[id] # stores[id] => stores[id] = st /\ a = id
            /\ <<a, st>> \in timers \ timers'
        BY <2>1, <3>1 DEF TimerFires, Numbered, SessionsTypeOK
      <3> QED BY <3>2
    <2>5. CASE stores' = stores /\ ended \subseteq ended'
      BY <2>5
    <2> QED BY <2>2, <2>3, <2>4, <2>5
        DEF Next, Handler, CreateSession, DestroySession, SessionCall, Close, Callback, Ask,
            BeginCreate, CreateNative, Hook, Install, RecordStats, BeginDestroy, Unhook,
            StopNative, ClearHandle, FinalizeStore, ArmTimer, ForgetStats, Lookup,
            ReadHandle, EnterNative, MuxerEmits, FindCallback, FeedStore, Stop, BeginClose,
            PickSession, EndClose
  <1> QED BY <1>1, SessionsInvariant, PTL DEF Spec, StreamsEndBeforeTheyGo
-----------------------------------------------------------------------------
(* The grace period of an ended store.                                     *)

\* A store is registered under one id, and the store a handler is about to
\* register is under none yet.
StoresAreOwn ==
    /\ \A id \in Ids : stores[id] # None => native[stores[id]] # "none"
    /\ \A a, b \in Ids : stores[a] = stores[b] /\ stores[a] # None => a = b
    /\ \A c \in Callers : At(c, "registering") => \A id \in Ids : stores[id] # calls[c].n

\* A handler is about to start the grace period of the store it finalized.
Arming(id, st) ==
    \E c \in Callers : At(c, "arming") /\ calls[c].id = id /\ calls[c].n = st

\* A registered store that has ended will leave the registry.
InGrace ==
    \A id \in Ids :
        stores[id] \in ended => <<id, stores[id]>> \in timers \/ Arming(id, stores[id])

GraceInv == SessionsInv /\ StoresAreOwn /\ InGrace

LEMMA GraceInvInit == Init => GraceInv
  BY SessionsInvInit DEF Init, GraceInv, StoresAreOwn, InGrace, At, Call, None

\* A step that registers and ends nothing, starts no registration and
\* completes no arming.
LEMMA GraceKept ==
    ASSUME GraceInv, SessionsInv', UNCHANGED <<stores, ended, timers>>,
           \A n \in Numbers : native[n] # "none" => native'[n] # "none",
           \A q \in Callers :
              /\ At(q, "registering")' => At(q, "registering") /\ calls'[q] = calls[q]
              /\ At(q, "arming") => calls'[q] = calls[q]
    PROVE  GraceInv'
  <1>1. stores \in [Ids -> Numbers \cup {None}]
    BY DEF GraceInv, SessionsInv, SessionsTypeOK
  <1>2. StoresAreOwn'
    <2>1. \A id \in Ids : stores'[id] # None => native'[stores'[id]] # "none"
      BY <1>1 DEF GraceInv, StoresAreOwn
    <2>2. \A a, b \in Ids : stores'[a] = stores'[b] /\ stores'[a] # None => a = b
      BY DEF GraceInv, StoresAreOwn
    <2>3. ASSUME NEW q \in Callers, At(q, "registering")', NEW id \in Ids
          PROVE  stores'[id] # calls'[q].n
      BY <2>3 DEF GraceInv, StoresAreOwn
    <2> QED BY <2>1, <2>2, <2>3 DEF StoresAreOwn
  <1>3. ASSUME NEW id \in Ids, stores'[id] \in ended'
        PROVE  <<id, stores'[id]>> \in timers' \/ Arming(id, stores[id])'
    BY <1>3 DEF GraceInv, InGrace, Arming, At
  <1> QED BY <1>2, <1>3 DEF GraceInv, InGrace

\* The handler that takes a step is the one of mu: nobody else registers,
\* and nobody else arms a timer.
LEMMA OneInHand ==
    ASSUME SessionsInv, NEW c \in Callers, calls[c].step \in Critical,
           NEW q \in Callers, q # c
    PROVE  ~At(q, "registering") /\ ~At(q, "arming")
  BY DEF SessionsInv, SessionsTypeOK, Critical, At

LEMMA CreateNativeGrace ==
    ASSUME GraceInv, SessionsInv', NEW c \in Callers, CreateNative(c)
    PROVE  GraceInv'
  <1>1. SessionsTypeOK /\ calls[c].step = "creating" /\ InOrder
    BY DEF GraceInv, SessionsInv, CreateNative, At
  <1>2. UNCHANGED <<stores, ended, timers>>
    BY DEF CreateNative
  <1>3. \A q \in Callers : q # c => ~At(q, "registering") /\ ~At(q, "arming")
    BY <1>1, OneInHand DEF GraceInv, Critical
  <1>4. CASE Answers(c, "internal") /\ UNCHANGED <<native, handle, sessions>>
    <2>1. \A q \in Callers : ~At(q, "arming") /\ ~At(q, "registering")'
      BY <1>1, <1>3, <1>4 DEF Answers, Call, At, SessionsTypeOK
    <2> QED BY <1>2, <1>4, <2>1, GraceKept
  <1>5. CASE /\ NextNumber \in Numbers
             /\ native' = [native EXCEPT ![NextNumber] = "live"]
             /\ calls' = [calls EXCEPT ![c].step = "registering", ![c].n = NextNumber]
    <2>1. PICK n \in Numbers : n = NextNumber /\ native[n] = "none"
      BY <1>1, <1>5, NextIsFresh DEF GraceInv
    <2>2. /\ native' = [native EXCEPT ![n] = "live"]
          /\ calls' = [calls EXCEPT ![c].step = "registering", ![c].n = n]
      BY <1>5, <2>1
    <2>3. /\ calls'[c].step = "registering" /\ calls'[c].n = n
          /\ \A q \in Callers : q # c => calls'[q] = calls[q]
      BY <1>1, <2>2 DEF SessionsTypeOK, Calls
    <2>4. \A id \in Ids : stores[id] # n
      BY <2>1, Names DEF GraceInv, StoresAreOwn
    <2>5. StoresAreOwn'
      <3>1. \A id \in Ids : stores'[id] # None => native'[stores'[id]] # "none"
        BY <1>1, <1>2, <2>2, <2>4 DEF GraceInv, StoresAreOwn, SessionsTypeOK
      <3>2. \A q \in Callers : At(q, "registering")' => \A id \in Ids : stores'[id] # calls'[q].n
        BY <1>2, <1>3, <2>3, <2>4 DEF At
      <3> QED BY <1>2, <3>1, <3>2 DEF GraceInv, StoresAreOwn
    <2>6. \A q \in Callers : ~At(q, "arming")
      BY <1>1, <1>3 DEF At
    <2>7. InGrace'
      BY <1>2, <2>6 DEF GraceInv, InGrace, Arming
    <2> QED BY <2>5, <2>7 DEF GraceInv
  <1> QED BY <1>4, <1>5 DEF CreateNative

LEMMA RegisterGrace ==
    ASSUME GraceInv, SessionsInv', NEW c \in Callers, Register(c)
    PROVE  GraceInv'
  <1> DEFINE id == calls[c].id
             n == calls[c].n
  <1>1. /\ SessionsTypeOK /\ Numbered /\ InHand(c) /\ calls[c].step = "registering"
        /\ mu = c /\ id \in Ids /\ n \in Numbers /\ native[n] = "live"
    <2>1. SessionsTypeOK /\ Numbered /\ InHand(c) /\ calls[c].step = "registering"
      BY DEF GraceInv, SessionsInv, Register, At
    <2>2. mu = c
      BY <2>1 DEF SessionsTypeOK, Critical
    <2> QED BY <2>1, <2>2 DEF InHand, Creating
  <1>2. /\ stores' = [stores EXCEPT ![id] = n] /\ UNCHANGED <<native, ended, timers>>
        /\ calls'[c].step = "hooking" /\ \A q \in Callers : q # c => calls'[q] = calls[q]
    BY <1>1 DEF Register, Goes, SessionsTypeOK, Calls
  <1>3. \A q \in Callers : q # c => ~At(q, "registering") /\ ~At(q, "arming")
    BY <1>1, OneInHand DEF GraceInv, Critical
  <1>4. n \notin ended /\ \A a \in Ids : stores[a] # n
    BY <1>1 DEF GraceInv, StoresAreOwn, Numbered, At
  <1> HIDE DEF id, n
  <1>5. /\ stores'[id] = n /\ \A a \in Ids : a # id => stores'[a] = stores[a]
    BY <1>1, <1>2 DEF SessionsTypeOK
  <1>6. StoresAreOwn'
    <2>1. \A a \in Ids : stores'[a] # None => native'[stores'[a]] # "none"
      BY <1>1, <1>2, <1>5 DEF GraceInv, StoresAreOwn
    <2>2. \A a, b \in Ids : stores'[a] = stores'[b] /\ stores'[a] # None => a = b
      BY <1>4, <1>5 DEF GraceInv, StoresAreOwn
    <2>3. \A q \in Callers : ~At(q, "registering")'
      BY <1>2, <1>3 DEF At
    <2> QED BY <2>1, <2>2, <2>3 DEF StoresAreOwn
  <1>7. \A q \in Callers : ~At(q, "arming")
    BY <1>1, <1>3 DEF At
  <1>8. InGrace'
    BY <1>2, <1>4, <1>5, <1>7 DEF GraceInv, InGrace, Arming
  <1> QED BY <1>6, <1>8 DEF GraceInv
LEMMA DropStoreGrace ==
    ASSUME GraceInv, SessionsInv', NEW c \in Callers, DropStore(c)
    PROVE  GraceInv'
  <1> DEFINE id == calls[c].id
  <1>1. SessionsTypeOK /\ InHand(c) /\ calls[c].step = "dropping" /\ id \in Ids
    BY DEF GraceInv, SessionsInv, DropStore, InHand, At
  <1>2. /\ stores' = [stores EXCEPT ![id] = None] /\ UNCHANGED <<native, ended, timers>>
        /\ calls'[c].step = "recording" /\ \A q \in Callers : q # c => calls'[q] = calls[q]
    BY <1>1 DEF DropStore, Goes, SessionsTypeOK, Calls
  <1>3. \A q \in Callers : ~At(q, "arming") /\ ~At(q, "registering")'
    BY <1>1, <1>2, OneInHand DEF GraceInv, Critical, At
  <1> HIDE DEF id
  <1>4. /\ stores'[id] = None /\ \A a \in Ids : a # id => stores'[a] = stores[a]
    BY <1>1, <1>2 DEF SessionsTypeOK
  <1>5. None \notin ended
    BY <1>1, Names DEF SessionsTypeOK
  <1>6. StoresAreOwn'
    BY <1>2, <1>3, <1>4 DEF GraceInv, StoresAreOwn
  <1>7. InGrace'
    BY <1>2, <1>3, <1>4, <1>5 DEF GraceInv, InGrace, Arming
  <1> QED BY <1>6, <1>7 DEF GraceInv

LEMMA FinalizeStoreGrace ==
    ASSUME GraceInv, SessionsInv', NEW c \in Callers, FinalizeStore(c)
    PROVE  GraceInv'
  <1> DEFINE id == calls[c].id
             st == stores[id]
  <1>1. SessionsTypeOK /\ InHand(c) /\ calls[c].step = "finalizing" /\ id \in Ids
    BY DEF GraceInv, SessionsInv, FinalizeStore, InHand, At
  <1>2. UNCHANGED <<stores, native, timers>>
    BY DEF FinalizeStore
  <1>3. \A q \in Callers : q # c => ~At(q, "registering") /\ ~At(q, "arming")
    BY <1>1, OneInHand DEF GraceInv, Critical
  <1>4. CASE st = None
    <2>1. UNCHANGED ended /\ calls' = [calls EXCEPT ![c].step = "forgetting"]
      BY <1>4 DEF FinalizeStore, Goes
    <2>2. \A q \in Callers : ~At(q, "arming") /\ ~At(q, "registering")'
      BY <1>1, <1>3, <2>1 DEF At, SessionsTypeOK, Calls
    <2> QED BY <1>2, <2>1, <2>2, GraceKept
  <1>5. CASE st # None
    <2>1. /\ ended' = ended \cup {st}
          /\ calls' = [calls EXCEPT ![c].step = "arming", ![c].n = st]
      BY <1>5 DEF FinalizeStore
    <2>2. /\ calls'[c].step = "arming" /\ calls'[c].id = id /\ calls'[c].n = st
          /\ \A q \in Callers : q # c => calls'[q] = calls[q]
      BY <1>1, <2>1 DEF SessionsTypeOK, Calls
    <2>3. \A q \in Callers : ~At(q, "arming") /\ ~At(q, "registering")'
      BY <1>1, <1>3, <2>2 DEF At
    <2>4. StoresAreOwn'
      BY <1>2, <2>3 DEF GraceInv, StoresAreOwn
    <2>5. \A a \in Ids : stores[a] = st => a = id
      BY <1>1, <1>5 DEF GraceInv, StoresAreOwn
    <2>6. Arming(id, st)'
      BY <1>2, <2>2 DEF Arming, At
    <2> HIDE DEF id, st
    <2>7. ASSUME NEW a \in Ids, stores[a] \in ended'
          PROVE  <<a, stores[a]>> \in timers \/ (a = id /\ stores[a] = st)
      BY <2>1, <2>3, <2>5, <2>7 DEF GraceInv, InGrace, Arming
    <2>8. InGrace'
      <3> SUFFICES ASSUME NEW a \in Ids, stores'[a] \in ended',
                          <<a, stores'[a]>> \notin timers'
                   PROVE  Arming(a, stores[a])'
        BY DEF InGrace
      <3>1. a = id /\ stores[a] = st
        BY <1>2, <2>7
      <3>2. \E q \in Callers : At(q, "arming")' /\ calls'[q].id = id /\ calls'[q].n = st
        BY <2>2 DEF At
      <3> QED BY <1>2, <3>1, <3>2 DEF Arming
    <2> QED BY <2>4, <2>8 DEF GraceInv
  <1> QED BY <1>4, <1>5

LEMMA ArmTimerGrace ==
    ASSUME GraceInv, SessionsInv', NEW c \in Callers, ArmTimer(c)
    PROVE  GraceInv'
  <1>1. SessionsTypeOK /\ calls[c].step = "arming"
    BY DEF GraceInv, SessionsInv, ArmTimer, At
  <1>2. /\ UNCHANGED <<stores, native, ended>>
        /\ timers' = timers \cup {<<calls[c].id, calls[c].n>>}
        /\ calls'[c].step = "forgetting" /\ \A q \in Callers : q # c => calls'[q] = calls[q]
    BY <1>1 DEF ArmTimer, Goes, SessionsTypeOK, Calls
  <1>3. \A q \in Callers : q # c => ~At(q, "registering") /\ ~At(q, "arming")
    BY <1>1, OneInHand DEF GraceInv, Critical
  <1>4. StoresAreOwn'
    BY <1>2, <1>3 DEF GraceInv, StoresAreOwn, At
  <1>5. ASSUME NEW a \in Ids, stores[a] \in ended PROVE <<a, stores[a]>> \in timers'
    <2>1. CASE <<a, stores[a]>> \in timers
      BY <1>2, <2>1
    <2>2. CASE Arming(a, stores[a])
      <3>1. calls[c].id = a /\ calls[c].n = stores[a]
        BY <1>3, <2>2 DEF Arming
      <3> QED BY <1>2, <3>1
    <2> QED BY <1>5, <2>1, <2>2 DEF GraceInv, InGrace
  <1>6. InGrace'
    BY <1>2, <1>5 DEF InGrace
  <1> QED BY <1>4, <1>6 DEF GraceInv

LEMMA TimerFiresGrace ==
    ASSUME GraceInv, SessionsInv', NEW id \in Ids, NEW st \in Numbers, TimerFires(id, st)
    PROVE  GraceInv'
  <1>1. SessionsTypeOK /\ UNCHANGED <<native, ended, calls>>
    BY DEF GraceInv, SessionsInv, TimerFires
  <1>2. /\ timers' = timers \ {<<id, st>>}
        /\ stores'[id] = IF stores[id] = st THEN None ELSE stores[id]
        /\ \A a \in Ids : a # id => stores'[a] = stores[a]
    BY <1>1 DEF TimerFires, SessionsTypeOK
  <1>3. None \notin ended /\ None \notin Numbers
    BY <1>1, Names DEF SessionsTypeOK
  <1>4. \A a \in Ids : stores'[a] \in {None, stores[a]}
    BY <1>2
  <1>5. StoresAreOwn'
    <2>1. \A a \in Ids : stores'[a] # None => native'[stores'[a]] # "none"
      BY <1>1, <1>4 DEF GraceInv, StoresAreOwn
    <2>2. \A a, b \in Ids : stores'[a] = stores'[b] /\ stores'[a] # None => a = b
      BY <1>4 DEF GraceInv, StoresAreOwn
    <2>3. ASSUME NEW q \in Callers, At(q, "registering")', NEW a \in Ids
          PROVE  stores'[a] # calls'[q].n
      <3>1. stores[a] # calls[q].n /\ InHand(q) /\ SessionsTypeOK
        BY <1>1, <2>3 DEF GraceInv, SessionsInv, StoresAreOwn, At
      <3>2. calls[q].n \in Numbers
        BY <1>1, <2>3, <3>1 DEF InHand, SessionsTypeOK, Critical, At
      <3> QED BY <1>1, <1>3, <1>4, <3>1, <3>2
    <2> QED BY <2>1, <2>2, <2>3 DEF StoresAreOwn
  <1>6. ASSUME NEW a \in Ids, stores'[a] \in ended'
        PROVE  <<a, stores'[a]>> \in timers' \/ Arming(a, stores[a])'
    <2>1. stores'[a] = stores[a] /\ stores[a] \in ended
      BY <1>1, <1>3, <1>4, <1>6
    <2>2. <<a, stores[a]>> # <<id, st>>
      BY <1>2, <1>3, <2>1
    <2>3. <<a, stores[a]>> \in timers \/ Arming(a, stores[a])
      BY <2>1 DEF GraceInv, InGrace
    <2> QED BY <1>1, <1>2, <2>1, <2>2, <2>3 DEF Arming, At
  <1> QED BY <1>5, <1>6 DEF GraceInv, InGrace

\* The steps between: of the handlers, ...
LEMMA HandlerGrace ==
    ASSUME GraceInv, SessionsInv', NEW c \in Callers,
           \/ BeginCreate(c) \/ Hook(c) \/ Install(c) \/ RecordStats(c) \/ BeginDestroy(c)
           \/ Unhook(c) \/ StopNative(c) \/ ClearHandle(c) \/ ForgetStats(c)
           \/ SessionCall(c)
           \/ \E op \in {"create", "destroy", "call"}, id \in Ids : Ask(c, op, id)
    PROVE  GraceInv'
  <1>1. SessionsTypeOK /\ c # Main
    BY Names DEF GraceInv, SessionsInv
  <1>2. UNCHANGED <<stores, ended, timers>>
    BY DEF BeginCreate, Hook, Install, RecordStats, BeginDestroy, Unhook, StopNative,
           ClearHandle, ForgetStats, SessionCall, Lookup, ReadHandle, EnterNative, Ask
  <1>3. ASSUME NEW n \in Numbers, native[n] # "none" PROVE native'[n] # "none"
    BY <1>1, <1>3
    DEF BeginCreate, Hook, Install, RecordStats, BeginDestroy, Unhook, StopNative,
        ClearHandle, ForgetStats, SessionCall, Lookup, ReadHandle, EnterNative, Ask,
        SessionsTypeOK
  <1>4. /\ \A q \in Callers : q # c => calls'[q] = calls[q]
        /\ ~At(c, "arming") /\ ~At(c, "registering")'
    <2> DEFINE Ends == /\ \A q \in Callers : q # c => calls'[q] = calls[q]
                       /\ calls[c].step # "arming" /\ calls'[c].step # "registering"
    <2>1. CASE BeginCreate(c) \/ RecordStats(c) \/ ForgetStats(c)
      <3>1. Ends
        BY <1>1, <2>1 DEF BeginCreate, RecordStats, ForgetStats, Goes, Answers, Call, At, SessionsTypeOK, Calls
      <3> QED BY <3>1 DEF At
    <2>2. CASE Hook(c) \/ Install(c) \/ Unhook(c) \/ StopNative(c) \/ ClearHandle(c)
      <3>1. Ends
        BY <1>1, <2>2 DEF Hook, Install, Unhook, StopNative, ClearHandle, Goes, At, SessionsTypeOK, Calls
      <3> QED BY <3>1 DEF At
    <2>3. CASE BeginDestroy(c) \/ SessionCall(c)
      <3>1. Ends
        BY <1>1, <2>3 DEF BeginDestroy, SessionCall, Lookup, ReadHandle, EnterNative, Goes,
           Answers, Call, At, SessionsTypeOK, Calls
      <3> QED BY <3>1 DEF At
    <2>4. CASE \E op \in {"create", "destroy", "call"}, id \in Ids : Ask(c, op, id)
      <3>1. Ends
        BY <1>1, <2>4 DEF Ask, Call, At, SessionsTypeOK, Calls
      <3> QED BY <3>1 DEF At
    <2> QED BY <2>1, <2>2, <2>3, <2>4
  <1>5. \A q \in Callers :
              /\ At(q, "registering")' => At(q, "registering") /\ calls'[q] = calls[q]
              /\ At(q, "arming") => calls'[q] = calls[q]
    BY <1>4 DEF At
  <1> QED BY <1>2, <1>3, <1>5, GraceKept

\* ... of the muxer threads, and of the end.
LEMMA OthersGrace ==
    ASSUME GraceInv, SessionsInv',
           \/ \E n \in Numbers : MuxerEmits(n) \/ Callback(n)
           \/ Stop \/ Close
    PROVE  GraceInv'
  <1>1. SessionsTypeOK /\ Main \notin Callers
    BY Names DEF GraceInv, SessionsInv
  <1>2. UNCHANGED <<stores, ended, timers>>
    BY DEF MuxerEmits, Callback, FindCallback, FeedStore, Stop, Close, BeginClose,
           PickSession, Unhook, StopNative, ClearHandle, EndClose
  <1>3. ASSUME NEW n \in Numbers, native[n] # "none" PROVE native'[n] # "none"
    BY <1>1, <1>3
    DEF MuxerEmits, Callback, FindCallback, FeedStore, Stop, Close, BeginClose,
        PickSession, Unhook, StopNative, ClearHandle, EndClose, SessionsTypeOK
  <1>4. \A q \in Callers : calls'[q] = calls[q]
    BY <1>1
    DEF MuxerEmits, Callback, FindCallback, FeedStore, Stop, Close, BeginClose,
        PickSession, Unhook, StopNative, ClearHandle, EndClose, Goes, SessionsTypeOK
  <1> QED BY <1>2, <1>3, <1>4, GraceKept DEF At

LEMMA GraceInvNext == GraceInv /\ [Next]_vars => GraceInv'
  <1> SUFFICES ASSUME GraceInv, [Next]_vars PROVE GraceInv'
    OBVIOUS
  <1>1. SessionsInv'
    BY SessionsInvNext DEF GraceInv
  <1>2. CASE UNCHANGED vars
    BY <1>1, <1>2 DEF vars, GraceInv, StoresAreOwn, InGrace, Arming, At
  <1>3. ASSUME NEW c \in Callers, Handler(c) PROVE GraceInv'
    BY <1>1, <1>3, HandlerGrace, CreateNativeGrace, RegisterGrace, DropStoreGrace,
       FinalizeStoreGrace, ArmTimerGrace
    DEF Handler, CreateSession, DestroySession
  <1>4. ASSUME NEW c \in Callers,
               \E op \in {"create", "destroy", "call"}, id \in Ids : Ask(c, op, id)
        PROVE  GraceInv'
    BY <1>1, <1>4, HandlerGrace
  <1> QED BY <1>1, <1>2, <1>3, <1>4, TimerFiresGrace, OthersGrace DEF Next

(***************************************************************************)
(* UnregisterSession, "after a grace period, removes it": a store that has *)
(* ended and is still registered has its own timer running, or the handler *)
(* that ended it is about to start it; so none is kept for ever, whatever  *)
(* sessions took the id or failed to, provided that timers fire.           *)
(***************************************************************************)
THEOREM EndedStoresHaveTimers == Spec => []InGrace
  <1>1. GraceInv => InGrace
    BY DEF GraceInv
  <1> QED BY <1>1, GraceInvInit, GraceInvNext, PTL DEF Spec

=============================================================================

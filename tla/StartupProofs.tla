--------------------------- MODULE StartupProofs ---------------------------
(***************************************************************************)
(* The process starts with the configuration its layers ask for and stops  *)
(* in order, for every set of files, environments, flags and ports.        *)
(*                                                                         *)
(* A field's value is first said by cases on who sets it (FieldOf); that   *)
(* this is what the first layer says is then a matter of counting layers.  *)
(* What main holds while it serves, the port and the library, is said of   *)
(* the steps of main that come between taking it and giving it back.       *)
(***************************************************************************)
EXTENDS Startup, TLAPS

-----------------------------------------------------------------------------
(* The configuration, field by field.                                      *)

Fields == {"port", "segment", "part", "window", "dir", "level", "libLevel"}

LEMMA FieldsOfDefault == DOMAIN Default = Fields
  BY DEF Default, Fields

FieldOf(port, file, env, f) ==
    IF port # 0 /\ f = "port" THEN port
    ELSE IF ~IsRead(file) THEN Default[f]
    ELSE IF f \in Sets(env) THEN env[f]
    ELSE IF f \in DOMAIN file THEN file[f]
    ELSE Default[f]

LEMMA LayersAreTyped ==
    /\ \A file \in Files : IsRead(file) => Typed(file, {})
    /\ \A env \in Envs : Typed(env, {Blank, Junk})
  BY LayersAssumption DEF LayersAssumption, IsRead

LEMMA LoadedFields ==
    ASSUME NEW file \in Files, NEW env \in Envs, NEW f \in Fields
    PROVE  /\ DOMAIN LoadOrDefault(file, env) = Fields
           /\ LoadOrDefault(file, env)[f] = FieldOf(0, file, env, f)
  <1>1. CASE ~IsRead(file)
    BY <1>1, FieldsOfDefault DEF LoadOrDefault, FieldOf, IsRead
  <1>2. CASE IsRead(file)
    <2> DEFINE set == Sets(env)
               base == Overlay(file, Default)
               eff == Effective(env)
    <2>1. DOMAIN file \subseteq Fields /\ DOMAIN env \subseteq Fields
      BY <1>2, LayersAreTyped, FieldsOfDefault DEF Typed
    <2>2. DOMAIN base = Fields
      BY <2>1, FieldsOfDefault DEF Overlay
    <2>3. base[f] = IF f \in DOMAIN file THEN file[f] ELSE Default[f]
      BY <2>1, FieldsOfDefault DEF Overlay
    <2>4. DOMAIN eff = set /\ (f \in set => eff[f] = env[f])
      BY DEF Effective, Restrict, Sets
    <2>5. set \subseteq Fields
      BY <2>1 DEF Sets
    <2>6. LoadOrDefault(file, env) = Overlay(eff, base)
      BY <1>2 DEF LoadOrDefault, Load, IsRead
    <2> HIDE DEF set, base, eff
    <2>7. DOMAIN (Overlay(eff, base)) = Fields
      BY <2>2, <2>4, <2>5 DEF Overlay
    <2>8. (Overlay(eff, base))[f] = IF f \in set THEN env[f] ELSE base[f]
      BY <2>2, <2>4, <2>5 DEF Overlay
    <2> QED BY <1>2, <2>3, <2>6, <2>7, <2>8 DEF FieldOf, set
  <1> QED BY <1>1, <1>2

LEMMA ConfiguredFields ==
    ASSUME NEW file \in Files, NEW env \in Envs, NEW port \in Flags, NEW f \in Fields
    PROVE  WithFlag(port, LoadOrDefault(file, env))[f] = FieldOf(port, file, env, f)
  <1>1. CASE port = 0
    BY <1>1, LoadedFields DEF WithFlag
  <1>2. CASE port # 0
    BY <1>2, LoadedFields DEF WithFlag, FieldOf
  <1> QED BY <1>1, <1>2

LEMMA ConfiguredTypes ==
    ASSUME NEW file \in Files, NEW env \in Envs, NEW port \in Flags, NEW c,
           c = WithFlag(port, LoadOrDefault(file, env))
    PROVE  /\ c.port \in Int /\ c.window \in Int
           /\ c.segment \in Int \cup {NaN}
           /\ c.port \in PortNumbers => c.port \in Ports
  <1>0. {"port", "window", "segment"} \subseteq Fields
    BY DEF Fields
  <1>1. \A f \in {"port", "window", "segment"} : c[f] = FieldOf(port, file, env, f)
    BY <1>0, ConfiguredFields
  <1>2. Default.port = 50051 /\ Default.window = 5 /\ Default.segment = 1000
    BY DEF Default
  <1>3. Typed(env, {Blank, Junk}) /\ (IsRead(file) => Typed(file, {}))
    BY LayersAreTyped
  <1>4. port \in Int
    BY LayersAssumption DEF LayersAssumption
  <1>5. c.window \in Int
    BY <1>1, <1>2, <1>3, <1>4 DEF FieldOf, Typed, Sets, Numeric
  <1>6. c.segment \in Int \cup {NaN}
    BY <1>1, <1>2, <1>3, <1>4 DEF FieldOf, Typed, Sets, Numeric
  <1>7. c.port \in Int
    BY <1>1, <1>2, <1>3, <1>4 DEF FieldOf, Typed, Sets, Numeric
  <1>8. \/ c.port = port
        \/ c.port = Default.port
        \/ "port" \in DOMAIN env /\ c.port = env.port
        \/ IsRead(file) /\ "port" \in DOMAIN file /\ c.port = file.port
    BY <1>1 DEF FieldOf, Sets
  <1>9. c.port \in {Default.port} \cup Flags \cup PortsOf(Envs)
                      \cup PortsOf(Files \ {Absent, Malformed})
    BY <1>8 DEF PortsOf, IsRead
  <1>10. c.port \in PortNumbers => c.port \in Ports
    BY <1>9, PortsAssumption DEF PortsAssumption
  <1> QED BY <1>5, <1>6, <1>7, <1>10

-----------------------------------------------------------------------------
(* The layers.                                                             *)

LEMMA LeastIs ==
    ASSUME NEW S \in SUBSET Int, NEW m \in S, \A y \in S : m <= y
    PROVE  Min(S) = m
  <1>1. \A x \in S : (\A y \in S : x <= y) => x = m
    OBVIOUS
  <1> QED BY <1>1 DEF Min

\* The value the first layer that has the field gives it.
FirstSays(layers, f, value) ==
    \E i \in DOMAIN layers :
        /\ f \in layers[i].fields
        /\ \A j \in DOMAIN layers : j < i => f \notin layers[j].fields
        /\ value = layers[i].values[f]

LEMMA FirstIsMin ==
    ASSUME NEW layers, DOMAIN layers \subseteq Int, NEW f, NEW value,
           FirstSays(layers, f, value)
    PROVE  value = layers[Min({i \in DOMAIN layers : f \in layers[i].fields})].values[f]
  <1> DEFINE S == {i \in DOMAIN layers : f \in layers[i].fields}
  <1>1. PICK i \in DOMAIN layers :
            /\ f \in layers[i].fields
            /\ \A j \in DOMAIN layers : j < i => f \notin layers[j].fields
            /\ value = layers[i].values[f]
    BY DEF FirstSays
  <1>2. \A j \in S : i <= j
    BY <1>1
  <1>3. Min(S) = i
    BY <1>1, <1>2, LeastIs
  <1> QED BY <1>1, <1>3

LEMMA PriorityFollowed ==
    ASSUME args.file \in Files, args.env \in Envs, args.port \in Flags,
           cfg = WithFlag(args.port, LoadOrDefault(args.file, args.env))
    PROVE  FollowsThePriority
  <1> SUFFICES ASSUME NEW f \in Fields
               PROVE  DOMAIN Layers \subseteq Int /\ FirstSays(Layers, f, cfg[f])
    BY FieldsOfDefault, FirstIsMin DEF FollowsThePriority
  <1>1. cfg[f] = FieldOf(args.port, args.file, args.env, f)
    BY ConfiguredFields
  <1>2. DOMAIN Layers = 1 .. 4
    BY DEF Layers
  <1>3. /\ f \in Layers[1].fields <=> args.port # 0 /\ f = "port"
        /\ f = "port" => Layers[1].values[f] = args.port
    BY DEF Layers, Layer
  <1>4. /\ f \in Layers[2].fields <=> IsRead(args.file) /\ f \in Sets(args.env)
        /\ Layers[2].values = args.env
    BY DEF Layers, Layer
  <1>5. /\ f \in Layers[3].fields <=> IsRead(args.file) /\ f \in DOMAIN args.file
        /\ Layers[3].values = args.file
    BY DEF Layers, Layer
  <1>6. f \in Layers[4].fields /\ Layers[4].values = Default
    BY FieldsOfDefault DEF Layers, Layer
  <1>7. CASE args.port # 0 /\ f = "port"
    BY <1>1, <1>2, <1>3, <1>7 DEF FirstSays, FieldOf
  <1>8. CASE ~(args.port # 0 /\ f = "port") /\ ~IsRead(args.file)
    BY <1>1, <1>2, <1>3, <1>4, <1>5, <1>6, <1>8 DEF FirstSays, FieldOf
  <1>9. CASE ~(args.port # 0 /\ f = "port") /\ IsRead(args.file)
    BY <1>1, <1>2, <1>3, <1>4, <1>5, <1>6, <1>9 DEF FirstSays, FieldOf
  <1> QED BY <1>7, <1>8, <1>9

-----------------------------------------------------------------------------
(* What every step keeps.                                                  *)

\* Once configured, main goes on only with a valid configuration.
ConfigInv ==
    /\ args.file \in Files /\ args.env \in Envs /\ args.port \in Flags
    /\ args.hlsPort \in HlsPorts
    /\ cfg.port \in Int /\ cfg.window \in Int /\ cfg.segment \in Int \cup {NaN}
    /\ pc # "configure" =>
         /\ cfg = WithFlag(args.port, LoadOrDefault(args.file, args.env))
         /\ Validate(cfg)

\* From Listen to TakeSignal, and from NewServer to Close.
HasPort == {"startHttp", "create", "watch", "startHealth", "serve", "serving"}
HasLibrary == {"watch", "startHealth", "serve", "serving", "close"}

\* Before main starts a goroutine there is none.
Unstarted == {"configure", "prepare", "listen", "startHttp"}

ProcessInv ==
    /\ pc \in Unstarted => hls = "-"
    /\ pc \in Unstarted \cup {"create", "watch"} => watcher = "-"
    /\ pc \in Unstarted \cup {"create", "watch", "startHealth"} => health = "-"
    /\ pc \in HasPort /\ watcher \in {"-", "waiting"} => owner[cfg.port] = "grpc"
    /\ pc = "serving" => library
    /\ exit = Running => (library <=> pc \in HasLibrary)
    /\ calling => pc = "serving" /\ watcher \in {"waiting", "stopping"}
    /\ exit = 0 => ~library /\ ~calling

StartupInv == StartupTypeOK /\ ConfigInv /\ ProcessInv

Statuses == {Running, 0, Fatal, Killed, Aborted}

LEMMA StatusesDiffer ==
    /\ Running # 0 /\ Running # Fatal /\ Running # Killed /\ Running # Aborted
    /\ 0 # Fatal /\ 0 # Killed /\ 0 # Aborted
    /\ {Running, 0, Fatal, Killed, Aborted} = Statuses
  BY DEF Running, Fatal, Killed, Aborted, Statuses

\* Whatever main was configured with, its port is one that matters.
LEMMA PortMatters ==
    ConfigInv /\ pc # "configure" => cfg.port \in Ports
  BY ConfiguredTypes DEF ConfigInv, Validate

LEMMA StartupInvInit == Init => StartupInv
  <1> SUFFICES ASSUME Init PROVE StartupInv
    OBVIOUS
  <1>1. Default.port = 50051 /\ Default.window = 5 /\ Default.segment = 1000
    BY DEF Default
  <1>2. owner \in [Ports -> {"nobody", "other", "grpc", "hls", "health"}]
        /\ \A p \in Ports : owner[p] \notin {"hls", "health"}
    BY DEF Init
  <1>3. StartupTypeOK
    <2>1. {asked, calling, playing, late, library} \subseteq BOOLEAN
      BY DEF Init
    <2>2. exit \in {Running, 0, Fatal, Killed, Aborted}
      BY DEF Init
    <2> QED BY <1>1, <1>2, <2>1, <2>2 DEF Init, StartupTypeOK, MainSteps
  <1>4. ConfigInv
    BY <1>1 DEF Init, ConfigInv
  <1>5. ProcessInv
    BY StatusesDiffer DEF Init, ProcessInv, Unstarted, HasPort, HasLibrary
  <1> QED BY <1>3, <1>4, <1>5 DEF StartupInv

LEMMA ConfigNext == ConfigInv /\ [Next]_vars => ConfigInv'
  <1> SUFFICES ASSUME ConfigInv, [Next]_vars PROVE ConfigInv'
    OBVIOUS
  <1>1. CASE Configure
    <2>1. /\ cfg'.port \in Int /\ cfg'.window \in Int /\ cfg'.segment \in Int \cup {NaN}
      BY <1>1, ConfiguredTypes DEF ConfigInv, Configure
    <2> QED BY <1>1, <2>1 DEF ConfigInv, Configure, Goto, Exit, At
  <1>2. CASE ~Configure
    <2>1. UNCHANGED <<args, cfg>> /\ (pc' = pc \/ pc # "configure")
      BY <1>2 DEF Next, Main, Outside, vars, At, Goto, Exit,
           Prepare, Listen, StartHttp, NewServer, WatchSignals, StartHealthCheck, Serve,
           ServeReturns, ServeFails, Close, Stop, Drained, Return, FiveSeconds, ListenHls,
           ListenHealth, TakeSignal, CallsDone, CallReturns, Terminate, Abort, Call, Play,
           PlayReturns
    <2> QED BY <2>1 DEF ConfigInv
  <1> QED BY <1>1, <1>2

LEMMA ProcessNext ==
    StartupTypeOK /\ ConfigInv /\ ProcessInv /\ [Next]_vars
        => ProcessInv' /\ StartupTypeOK'
  <1> SUFFICES ASSUME StartupTypeOK, ConfigInv, ProcessInv, [Next]_vars
               PROVE  ProcessInv' /\ StartupTypeOK'
    OBVIOUS
  <1> USE StatusesDiffer DEF ProcessInv, StartupTypeOK, MainSteps, Unstarted, HasPort, HasLibrary, At, Goto, Exit
  <1>p. HealthPort \in Ports /\ args.hlsPort \in Ports
    BY PortsAssumption DEF PortsAssumption, ConfigInv
  <1>c. cfg'.port \in Int /\ cfg'.window \in Int
    BY ConfigNext DEF ConfigInv
  <1>1. CASE Configure
    BY <1>1, <1>c DEF Configure
  <1>2. CASE Prepare
    BY <1>2 DEF Prepare
  <1>3. CASE Listen
    BY <1>3, PortMatters DEF Listen, Bind
  <1>4. CASE StartHttp
    BY <1>4, <1>p DEF StartHttp
  <1>5. CASE NewServer
    BY <1>5 DEF NewServer
  <1>6. CASE WatchSignals
    BY <1>6 DEF WatchSignals
  <1>7. CASE StartHealthCheck
    BY <1>7 DEF StartHealthCheck
  <1>8. CASE Serve
    BY <1>8 DEF Serve
  <1>9. CASE ServeReturns
    BY <1>9 DEF ServeReturns
  <1>10. CASE ServeFails
    BY <1>10 DEF ServeFails
  <1>11. CASE Close
    BY <1>11 DEF Close
  <1>12. CASE Stop
    BY <1>12, <1>p DEF Stop, Release, Bind
  <1>13. CASE Return
    BY <1>13 DEF Return, Drained
  <1>14. CASE FiveSeconds
    BY <1>14 DEF FiveSeconds
  <1>15. CASE ListenHls
    BY <1>15, <1>p, PortMatters DEF ListenHls, Bind
  <1>16. CASE ListenHealth
    BY <1>16, <1>p, PortMatters DEF ListenHealth, Bind
  <1>17. CASE TakeSignal
    BY <1>17, PortMatters DEF TakeSignal, Release, Bind
  <1>18. CASE CallsDone
    BY <1>18 DEF CallsDone
  <1>19. CASE CallReturns
    BY <1>19 DEF CallReturns
  <1>20. CASE Terminate
    BY <1>20 DEF Terminate
  <1>21. CASE Abort
    BY <1>21 DEF Abort
  <1>22. CASE Call
    BY <1>22 DEF Call
  <1>23. CASE Play
    BY <1>23 DEF Play
  <1>24. CASE PlayReturns
    BY <1>24 DEF PlayReturns
  <1>25. CASE UNCHANGED vars
    BY <1>25 DEF vars
  <1> QED BY <1>1, <1>2, <1>3, <1>4, <1>5, <1>6, <1>7, <1>8, <1>9, <1>10, <1>11, <1>12,
             <1>13, <1>14, <1>15, <1>16, <1>17, <1>18, <1>19, <1>20, <1>21, <1>22, <1>23,
             <1>24, <1>25 DEF Next, Main, Outside

LEMMA StartupInvariant == Spec => []StartupInv
  <1>1. StartupInv /\ [Next]_vars => StartupInv'
    BY ConfigNext, ProcessNext DEF StartupInv
  <1> QED BY <1>1, StartupInvInit, PTL DEF Spec

-----------------------------------------------------------------------------
\* Every variable has its type, and a goroutine has its port just while it
\* says that it listens.
THEOREM StartupTypeCorrect == Spec => []StartupTypeOK
  <1>1. StartupInv => StartupTypeOK
    BY DEF StartupInv
  <1> QED BY <1>1, StartupInvariant, PTL

(***************************************************************************)
(* Past its validation the process has the configuration that the flag,    *)
(* the environment, the file and the defaults ask for, in this order,      *)
(* whatever they are, and within the bounds the store assumes; and while   *)
(* it serves nobody took its port or its library away.                     *)
(***************************************************************************)
THEOREM ConfiguredAndServing == Spec => []RunsAsConfigured
  <1>1. ConfigInv => (pc # "configure" => FollowsThePriority)
    BY PriorityFollowed DEF ConfigInv
  <1>2. ConfigInv => (pc # "configure" =>
                        cfg.window >= 1 /\ (cfg.segment = NaN \/ cfg.segment >= 1000))
    BY DEF ConfigInv, Validate, Below
  <1>3. ProcessInv => (pc = "serving" /\ watcher = "waiting" => library /\ owner[cfg.port] = "grpc")
    BY DEF ProcessInv, HasPort
  <1>4. StartupInv => RunsAsConfigured
    BY <1>1, <1>2, <1>3 DEF StartupInv, RunsAsConfigured
  <1> QED BY <1>4, StartupInvariant, PTL

(***************************************************************************)
(* Exit status 0 is that of a process that gave its library back and left  *)
(* no gRPC call in the middle: the deferred Close runs only after Serve    *)
(* returned, and Serve only after the calls had.                           *)
(***************************************************************************)
THEOREM EndsInOrder == Spec => [](exit = 0 => ~library /\ ~calling)
  <1>1. StartupInv => (exit = 0 => ~library /\ ~calling)
    BY DEF StartupInv, ProcessInv
  <1> QED BY <1>1, StartupInvariant, PTL

=============================================================================

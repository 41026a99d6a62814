------------------------------ MODULE Startup ------------------------------
(***************************************************************************)
(* The process from its start to its end (cmd/streambridge/main.go): main, *)
(* the goroutine that waits for SIGTERM, and the two HTTP listeners, that  *)
(* of the LL-HLS server (httpserver.Start) and the health check's, which   *)
(* by default want the same port.                                          *)
(*                                                                         *)
(* External: other processes, which may hold a port; the native library,   *)
(* which may fail to initialise; the gRPC server, whose GracefulStop       *)
(* closes the listener, waits for the calls under way and lets Serve       *)
(* return, and makes a later Serve fail.  What the calls do is the subject *)
(* of module Sessions, what HTTP requests wait for that of BlockingReload. *)
(***************************************************************************)
EXTENDS Configuration, Sequences, FiniteSetsExt

CONSTANTS
    Files,      \* what the file named by -config may be
    Envs,       \* the environments
    Flags,      \* the values of -port, 0 if it is not given
    HlsPorts,   \* the ports of -hls-addr
    Ports       \* the ports that matter

HealthPort == 8080
Running == -1
Fatal == 1
Killed == 143
Aborted == 139

\* A layer sets some of the fields, each to a value of its kind.
Typed(layer, unset) ==
    /\ DOMAIN layer \subseteq DOMAIN Default
    /\ \A f \in {"port", "window"} \cap DOMAIN layer : layer[f] \in Int \cup unset
    /\ "segment" \in DOMAIN layer => layer.segment \in Int \cup {NaN} \cup unset

PortsOf(layers) ==
    {layer.port : layer \in {l \in layers : "port" \in DOMAIN l}}

(***************************************************************************)
(* yaml.Unmarshal into Config gives numbers; of the environment's texts    *)
(* those that are not numbers do not parse.                                *)
(***************************************************************************)
ASSUME LayersAssumption ==
    /\ \A file \in Files \ {Absent, Malformed} : Typed(file, {})
    /\ \A env \in Envs : Typed(env, {Blank, Junk})
    /\ Flags \subseteq Int

\* A port that can be asked for is among those that matter.
ASSUME PortsAssumption ==
    /\ HlsPorts \cup {HealthPort} \subseteq Ports
    /\ ({Default.port} \cup Flags \cup PortsOf(Envs) \cup PortsOf(Files \ {Absent, Malformed}))
          \cap PortNumbers \subseteq Ports

VARIABLES
    args,       \* the file, the environment and the flags
    cfg,        \* main's configuration
    pc,         \* what main does next
    owner,      \* who listens on each port
    hls,        \* the goroutine of the LL-HLS server
    health,     \* the goroutine of the health check
    watcher,    \* the goroutine that waits for a signal
    asked,      \* a signal is waiting for it, or was taken
    calling,    \* a gRPC call is under way
    playing,    \* an HTTP request is under way
    late,       \* the five seconds of the HTTP server's shutdown are over
    library,    \* webrtchls is initialised
    exit        \* the exit status

vars == <<args, cfg, pc, owner, hls, health, watcher, asked, calling, playing,
          late, library, exit>>

MainSteps == {"configure", "prepare", "listen", "startHttp", "create", "watch",
              "startHealth", "serve", "serving", "close", "stopHttp", "drain"}

StartupTypeOK ==
    /\ cfg.port \in Int /\ cfg.window \in Int
    /\ pc \in MainSteps
    /\ owner \in [Ports -> {"nobody", "other", "grpc", "hls", "health"}]
    /\ hls \in {"-", "starting", "listening", "failed", "closed"}
    /\ health \in {"-", "starting", "listening", "failed"}
    /\ watcher \in {"-", "waiting", "stopping", "stopped"}
    /\ {asked, calling, playing, late, library} \subseteq BOOLEAN
    /\ exit \in {Running, 0, Fatal, Killed, Aborted}
    \* One listener per goroutine, and only while it says so.
    /\ \A p \in Ports :
         /\ owner[p] = "hls" <=> hls = "listening" /\ p = args.hlsPort
         /\ owner[p] = "health" <=> health = "listening" /\ p = HealthPort

-----------------------------------------------------------------------------
Init ==
    /\ args \in [file : Files, env : Envs, port : Flags, hlsPort : HlsPorts,
                 show : BOOLEAN]
    /\ cfg = Default
    /\ pc = "configure"
    /\ owner \in [Ports -> {"nobody", "other"}]
    /\ hls = "-" /\ health = "-" /\ watcher = "-"
    /\ asked = FALSE /\ calling = FALSE /\ playing = FALSE /\ late = FALSE
    /\ library = FALSE
    /\ exit = Running

Goto(step) == pc' = step /\ UNCHANGED exit
Exit(status) == exit' = status /\ UNCHANGED pc

\* Binding a port, if nobody has it.
Bind(p, who) == owner' = [owner EXCEPT ![p] = who]
Release(p) == Bind(p, "nobody")

-----------------------------------------------------------------------------
(***************************************************************************)
(* main, step by step.                                                     *)
(***************************************************************************)
At(step) == pc = step /\ exit = Running

Configure ==
    /\ At("configure")
    /\ cfg' = WithFlag(args.port, LoadOrDefault(args.file, args.env))
    /\ IF Validate(cfg') THEN Goto("prepare") ELSE Exit(Fatal)
    /\ UNCHANGED <<args, owner, hls, health, watcher, asked, calling, playing, late, library>>

\* -show-config, or the output directory, which may not be creatable.
Prepare ==
    /\ At("prepare")
    /\ IF args.show THEN Exit(0) ELSE Goto("listen") \/ Exit(Fatal)
    /\ UNCHANGED <<args, cfg, owner, hls, health, watcher, asked, calling, playing, late, library>>

Listen ==
    /\ At("listen")
    /\ IF owner[cfg.port] = "nobody"
       THEN Bind(cfg.port, "grpc") /\ Goto("startHttp")
       ELSE Exit(Fatal) /\ UNCHANGED owner
    /\ UNCHANGED <<args, cfg, hls, health, watcher, asked, calling, playing, late, library>>

StartHttp ==
    /\ At("startHttp")
    /\ hls' = "starting"
    /\ Goto("create")
    /\ UNCHANGED <<args, cfg, owner, health, watcher, asked, calling, playing, late, library>>

\* A context that cannot be created cleans the library up; a panic may not.
NewServer ==
    /\ At("create")
    /\ \/ library' = TRUE /\ Goto("watch")
       \/ library' \in BOOLEAN /\ Exit(Fatal)
    /\ UNCHANGED <<args, cfg, owner, hls, health, watcher, asked, calling, playing, late>>

WatchSignals ==
    /\ At("watch")
    /\ watcher' = "waiting"
    /\ Goto("startHealth")
    /\ UNCHANGED <<args, cfg, owner, hls, health, asked, calling, playing, late, library>>

StartHealthCheck ==
    /\ At("startHealth")
    /\ health' = "starting"
    /\ Goto("serve")
    /\ UNCHANGED <<args, cfg, owner, hls, watcher, asked, calling, playing, late, library>>

\* GracefulStop came first, or accepting fails, and zlog.Fatal skips Close.
Serve ==
    /\ At("serve")
    /\ IF watcher = "waiting" THEN Goto("serving") ELSE Exit(Fatal)
    /\ UNCHANGED <<args, cfg, owner, hls, health, watcher, asked, calling, playing, late, library>>

ServeFails ==
    /\ At("serving") /\ watcher = "waiting"
    /\ Exit(Fatal)
    /\ UNCHANGED <<args, cfg, owner, hls, health, watcher, asked, calling, playing, late, library>>

ServeReturns ==
    /\ At("serving") /\ watcher = "stopped"
    /\ Goto("close")
    /\ UNCHANGED <<args, cfg, owner, hls, health, watcher, asked, calling, playing, late, library>>

-----------------------------------------------------------------------------
(***************************************************************************)
(* The deferred calls, last first: Server.Close, then the HTTP server's    *)
(* Stop, which closes the listener and waits for the requests under way,   *)
(* but no longer than five seconds.                                        *)
(***************************************************************************)
Close ==
    /\ At("close")
    /\ library' = FALSE
    /\ Goto("stopHttp")
    /\ UNCHANGED <<args, cfg, owner, hls, health, watcher, asked, calling, playing, late>>

Stop ==
    /\ At("stopHttp")
    /\ hls' = "closed"
    /\ IF hls = "listening" THEN Release(args.hlsPort) ELSE UNCHANGED owner
    /\ Goto("drain")
    /\ UNCHANGED <<args, cfg, health, watcher, asked, calling, playing, late, library>>

Drained_NoDeadline == At("drain") /\ ~playing

Drained == At("drain") /\ (playing => late)

Return ==
    /\ Drained
    /\ Exit(0)
    /\ UNCHANGED <<args, cfg, owner, hls, health, watcher, asked, calling, playing, late, library>>

FiveSeconds ==
    /\ At("drain") /\ ~late
    /\ late' = TRUE
    /\ UNCHANGED <<args, cfg, pc, owner, hls, health, watcher, asked, calling, playing, library, exit>>

-----------------------------------------------------------------------------
(***************************************************************************)
(* The goroutines.  A listener that cannot have its port is only logged,   *)
(* or not even that.                                                       *)
(***************************************************************************)
ListenHls_IgnoringTheError ==
    /\ exit = Running /\ hls = "starting"
    /\ hls' = "listening"
    /\ IF owner[args.hlsPort] = "nobody" THEN Bind(args.hlsPort, "hls") ELSE UNCHANGED owner
    /\ UNCHANGED <<args, cfg, pc, health, watcher, asked, calling, playing, late, library, exit>>

ListenHls ==
    /\ exit = Running /\ hls = "starting"
    /\ IF owner[args.hlsPort] = "nobody"
       THEN hls' = "listening" /\ Bind(args.hlsPort, "hls")
       ELSE hls' = "failed" /\ UNCHANGED owner
    /\ UNCHANGED <<args, cfg, pc, health, watcher, asked, calling, playing, late, library, exit>>

ListenHealth ==
    /\ exit = Running /\ health = "starting"
    /\ IF owner[HealthPort] = "nobody"
       THEN health' = "listening" /\ Bind(HealthPort, "health")
       ELSE health' = "failed" /\ UNCHANGED owner
    /\ UNCHANGED <<args, cfg, pc, hls, watcher, asked, calling, playing, late, library, exit>>

\* <-sigChan, and GracefulStop, up to where it waits for the calls.
TakeSignal ==
    /\ exit = Running /\ asked /\ watcher = "waiting"
    /\ watcher' = "stopping"
    /\ IF pc = "serving" THEN Release(cfg.port) ELSE UNCHANGED owner
    /\ UNCHANGED <<args, cfg, pc, hls, health, asked, calling, playing, late, library, exit>>

CallsDone ==
    /\ exit = Running /\ watcher = "stopping" /\ ~calling
    /\ watcher' = "stopped"
    /\ UNCHANGED <<args, cfg, pc, owner, hls, health, asked, calling, playing, late, library, exit>>

-----------------------------------------------------------------------------
(***************************************************************************)
(* The outside: signals, gRPC calls and HTTP requests.                     *)
(***************************************************************************)
Terminate ==
    /\ exit = Running /\ ~asked
    /\ IF watcher = "-"
       THEN Exit(Killed) /\ UNCHANGED asked
       ELSE asked' = TRUE /\ UNCHANGED <<pc, exit>>
    /\ UNCHANGED <<args, cfg, owner, hls, health, watcher, calling, playing, late, library>>

\* setupSignalHandlers: SIGSEGV, SIGABRT, SIGBUS or SIGILL.
Abort ==
    /\ exit = Running
    /\ Exit(Aborted)
    /\ UNCHANGED <<args, cfg, owner, hls, health, watcher, asked, calling, playing, late, library>>

Call ==
    /\ At("serving") /\ watcher = "waiting" /\ ~calling
    /\ calling' = TRUE
    /\ UNCHANGED <<args, cfg, pc, owner, hls, health, watcher, asked, playing, late, library, exit>>

CallReturns ==
    /\ exit = Running /\ calling
    /\ calling' = FALSE
    /\ UNCHANGED <<args, cfg, pc, owner, hls, health, watcher, asked, playing, late, library, exit>>

Play ==
    /\ exit = Running /\ hls = "listening" /\ ~playing
    /\ playing' = TRUE
    /\ UNCHANGED <<args, cfg, pc, owner, hls, health, watcher, asked, calling, late, library, exit>>

PlayReturns ==
    /\ exit = Running /\ playing
    /\ playing' = FALSE
    /\ UNCHANGED <<args, cfg, pc, owner, hls, health, watcher, asked, calling, late, library, exit>>

-----------------------------------------------------------------------------
Main ==
    \/ Configure \/ Prepare \/ Listen \/ StartHttp \/ NewServer \/ WatchSignals
    \/ StartHealthCheck \/ Serve \/ ServeReturns \/ Close \/ Stop \/ Return

Outside == Terminate \/ Abort \/ Call \/ Play \/ PlayReturns \/ ServeFails

Next ==
    \/ Main \/ FiveSeconds \/ ListenHls \/ ListenHealth \/ TakeSignal
    \/ CallsDone \/ CallReturns \/ Outside

(***************************************************************************)
(* The scheduler runs every goroutine and time passes; gRPC calls return   *)
(* (Sessions!HandlersReturn), those of the reflection service among them   *)
(* as far as their clients end them: a stream that one holds open keeps    *)
(* GracefulStop, which has no deadline, waiting.  Nobody has to send a     *)
(* signal, and an HTTP request may outlast the process.                    *)
(***************************************************************************)
Fairness ==
    /\ WF_vars(Main)
    /\ WF_vars(FiveSeconds)
    /\ WF_vars(ListenHls)
    /\ WF_vars(ListenHealth)
    /\ WF_vars(TakeSignal)
    /\ WF_vars(CallsDone)
    /\ WF_vars(CallReturns)

Spec == Init /\ [][Next]_vars /\ Fairness

-----------------------------------------------------------------------------
(***************************************************************************)
(* "Priority: Command-line flags > Environment variables > Config file >   *)
(* Defaults" (README.md), as far as the code keeps it: the first layer     *)
(* that gives a field decides, but the environment is a layer only beside  *)
(* a file that could be read.                                              *)
(***************************************************************************)
Layer(given, values, fields) ==
    [values |-> values, fields |-> IF given THEN fields ELSE {}]

Sets(env) ==
    {f \in DOMAIN env : env[f] # Blank /\ ~(f \in Numeric /\ env[f] = Junk)}

IsRead(file) == file \notin {Absent, Malformed}

Layers ==
    <<Layer(args.port # 0, [port |-> args.port], {"port"}),
      Layer(IsRead(args.file), args.env, Sets(args.env)),
      Layer(IsRead(args.file), args.file, DOMAIN args.file),
      Layer(TRUE, Default, DOMAIN Default)>>

FollowsThePriority ==
    \A f \in DOMAIN Default :
        LET first == Min({i \in DOMAIN Layers : f \in Layers[i].fields})
        IN  cfg[f] = Layers[first].values[f]

(***************************************************************************)
(* Beyond Validate the process has the configuration its layers ask for,   *)
(* it is one module Store can work with (but for a segment duration that   *)
(* is not a number), and while it serves, it has the library and the port. *)
(***************************************************************************)
RunsAsConfigured ==
    /\ pc # "configure" =>
         /\ FollowsThePriority
         /\ cfg.window >= 1
         /\ cfg.segment = NaN \/ cfg.segment >= 1000
    /\ pc = "serving" /\ watcher = "waiting" => library /\ owner[cfg.port] = "grpc"

(***************************************************************************)
(* The process comes to serve or gives up, and somebody answers on the     *)
(* health check's port; once asked to stop it ends, though a gRPC call or  *)
(* a player is waiting; it ends well only with no call under way, and the  *)
(* library gone.                                                           *)
(***************************************************************************)
Ended == exit # Running

StartsAndStops ==
    /\ <>(Ended \/ pc = "serving")
    /\ pc = "serving" ~> (Ended \/ asked \/ owner[HealthPort] # "nobody")
    /\ asked ~> Ended
    /\ [](exit = 0 => ~library /\ ~calling)

=============================================================================

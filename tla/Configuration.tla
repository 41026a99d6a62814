--------------------------- MODULE Configuration ---------------------------
(***************************************************************************)
(* The configuration of the process (internal/config/config.go), as an     *)
(* algorithm: defaults, overridden by a YAML file, by the environment and  *)
(* by the -port flag, then validated.                                      *)
(*                                                                         *)
(* A configuration maps each field to its value; a file or an environment  *)
(* is such a map for the fields it sets.  Of the fields nobody checks, the *)
(* part duration stands for all.  Durations are in ms.                     *)
(***************************************************************************)
EXTENDS Integers, Functions

CONSTANTS
    Blank,      \* the empty string
    Junk,       \* a text that is no number
    NaN,        \* a number that compares with nothing
    Absent,     \* no file is named, or it cannot be read
    Malformed   \* it is not YAML, or not of this shape

Default ==
    [port |-> 50051, segment |-> 1000, part |-> 200, window |-> 5,
     dir |-> "/tmp/hls", level |-> "info", libLevel |-> Blank]

Overlay(layer, cfg) ==
    [f \in DOMAIN layer \cup DOMAIN cfg |->
        IF f \in DOMAIN layer THEN layer[f] ELSE cfg[f]]

Numeric == {"port", "segment", "part", "window"}

\* applyEnvironment passes over what is empty, or should parse and does not.
Effective(env) ==
    Restrict(env, {f \in DOMAIN env :
                      env[f] # Blank /\ ~(f \in Numeric /\ env[f] = Junk)})

Load_EnvironmentFirst(file, env) == Overlay(file, Overlay(Effective(env), Default))

Load(file, env) == Overlay(Effective(env), Overlay(file, Default))

LoadOrDefault(file, env) ==
    IF file \in {Absent, Malformed} THEN Default ELSE Load(file, env)

WithFlag(port, cfg) == IF port = 0 THEN cfg ELSE [cfg EXCEPT !.port = port]

\* A comparison with NaN is false, so NaN is not too small.
Below(x, bound) == x # NaN /\ x < bound

PortNumbers == 1 .. 65535
Levels == {"debug", "info", "warn", "error"}

Validate(cfg) ==
    /\ cfg.port \in PortNumbers
    /\ cfg.dir # Blank
    /\ ~Below(cfg.segment, 1000)
    /\ cfg.window >= 1
    /\ cfg.level \in Levels
    /\ cfg.libLevel \in Levels \cup {Blank}

=============================================================================

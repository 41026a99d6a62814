----------------------------- MODULE MCStartup -----------------------------
(***************************************************************************)
(* A file with a valid setting and one without, one that only the          *)
(* environment puts right, and files that are not read; environments that  *)
(* override, that are passed over, and that break the configuration.  The  *)
(* gRPC port may be the health check's.                                    *)
(***************************************************************************)
EXTENDS Startup

MCFiles ==
    {Absent, Malformed,
     [port |-> 9090, segment |-> 4000, part |-> 0, window |-> 3],
     [segment |-> 500, dir |-> Blank, libLevel |-> "debug"]}

MCEnvs ==
    {<<>>,
     [port |-> Junk, window |-> Blank, segment |-> NaN],
     [port |-> 8080, segment |-> 2000, dir |-> Junk, level |-> "warn"],
     [window |-> 0, level |-> "loud"]}

=============================================================================

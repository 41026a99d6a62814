SPECIFICATION Spec
CONSTANTS
    Blank = Blank
    Junk = Junk
    NaN = NaN
    Absent = Absent
    Malformed = Malformed
    Files <- MCFiles
    Envs <- MCEnvs
    Flags = {0, 9090, 70000}
    HlsPorts = {8080, 8090}
    Ports = {8080, 8090, 9090, 50051}
INVARIANTS
    StartupTypeOK
    RunsAsConfigured
PROPERTY StartsAndStops
\* The process ends.
CHECK_DEADLOCK FALSE

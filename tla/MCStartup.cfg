\* Three migrations, the last of them a rebuild; a log of two lines that overflows;
\* three keys, so that a second and a third could be generated,
\* and one failed read of the key file.
CONSTANTS
    server = server
    pwreset = pwreset
    h1 = h1
    h2 = h2
    cli = cli
    Procs = {server, pwreset}
    NoProc = NoProc
    N = 3
    Rebuilds = {3}
    Keys = {k1, k2, k3}
    MaxMisreads = 1
    Appenders = {h1, h2, cli}
    MaxEntries = 2
    MaxLines = 5
    Server = server
    ProcOf <- MCProcOf
SPECIFICATION StartupSpec
INVARIANTS StartupInv SchemaIsItsVersion OpenDatabaseIsCurrent OneKeyPerReadableFile
SYMMETRY HandlersAndKeys
CHECK_DEADLOCK FALSE

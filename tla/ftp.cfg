SPECIFICATION FairSpec
CONSTANTS
    Requests <- MCRequests
    Dirs <- MCDirs
    UseSsl = {"all"}
    Ccc = FALSE
    Account = TRUE
    Alternative = TRUE
    Faults = {}
INVARIANTS CacheAgrees InStep KeptIsQuiet TlsKept
PROPERTIES OkIsWhole Ends

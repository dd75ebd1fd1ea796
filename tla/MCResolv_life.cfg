\* Two entries, two names; the sequence number wraps around.
CONSTANTS
    RESOLV_ENTRIES = 2
    MAX_RETRIES = 3
    SeqMod = 3
    Names = {a, b}
    LocalPorts = {1, 2}
    MaxQueries = 4
SPECIFICATION FairSpec
INVARIANTS TypeOK ToldOnce
PROPERTY QueriesEnd

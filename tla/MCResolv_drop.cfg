\* Two entries, two names: the second query takes the place of the first.
CONSTANTS
    RESOLV_ENTRIES = 2
    MAX_RETRIES = 3
    SeqMod = 3
    Names = {a, b}
    LocalPorts = {1, 2}
    MaxQueries = 2
SPECIFICATION Spec
PROPERTY QueuedIsAsked

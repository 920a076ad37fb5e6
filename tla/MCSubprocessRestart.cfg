CONSTANTS
    Backends = {chatterbox, piper}
    Ports = {p1, p2}
    Calls = {c1}
    MaxSpawns = 3
    MaxSamples = 1
    Unset = Unset
SPECIFICATION ChildSpec
INVARIANTS
    RestartIsAttempted
CHECK_DEADLOCK FALSE

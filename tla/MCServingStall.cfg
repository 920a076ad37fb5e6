CONSTANTS
    f5 = f5
    neutts = neutts
    kokoro = kokoro
    Requests = {r1, r2, r3}
    Jobs <- NeuttsJobs
    Names = {f5, neutts, kokoro}
    Locked = {f5, neutts}
    AcrossYield = {neutts}
    PoolSize = 2
    MaxYields = 2
    MaxInstances = 3
    Nobody = Nobody
    NoName = NoName
SPECIFICATION ServingFairSpec
PROPERTIES
    BackendsRunInParallel
CHECK_DEADLOCK FALSE

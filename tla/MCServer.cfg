CONSTANTS
    f5 = f5
    neutts = neutts
    kokoro = kokoro
    Requests = {r1, r2, r3}
    Jobs <- AllJobs
    Names = {f5, neutts, kokoro}
    Locked = {f5, neutts}
    AcrossYield = {neutts}
    PoolSize = 2
    MaxYields = 2
    MaxInstances = 3
    Nobody = Nobody
    NoName = NoName
    Voices = {saga, heid}
    MaxJobs = 2
    Absent = Absent
    Torn = Torn
    MaxText = 8
    MaxPiece = 3
    Limits = {0, 2, 3, 4, 5, 6, 7}
    Pad = 2
    FirstChunk = 2
    Chunk = 3
    Speeches = {0, 1, 2, 3, 4, 5, 6, 7, 8, 9}
    MaxFrames = 3
    MaxStray = 1
    MaxLost = 2
SPECIFICATION ServerSpec
SYMMETRY Symmetry
INVARIANTS
    ServingTypeOK
    Serialized
    InferenceHasModel
    LockIsReturned
    BatchKeepsItsModel
    CacheIsHonest
    StoreIsAsReported
    PiecesDoNotMatter
    GivenWhenComplete
    ChunksKeepTheText
    StreamKeepsTheAudio
    FailureIsHeard
    HeardIsTheSpeech
CHECK_DEADLOCK FALSE

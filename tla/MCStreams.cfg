CONSTANTS
    MaxSentences = 3
    MaxFrames = 3
    NoMore = NoMore
    Backends = {chatterbox, piper}
    Ports = {p1, p2}
    Calls = {c1}
    MaxSpawns = 2
    MaxSamples = 2
    Unset = Unset
    f5 = f5
    neutts = neutts
    kokoro = kokoro
    Requests = {1, 2, 3}
    Jobs <- PerChunkJobs
    Names = {f5, neutts, kokoro}
    Locked = {f5, neutts}
    AcrossYield = {neutts}
    PoolSize = 2
    MaxYields = 1
    MaxInstances = 3
    Nobody = Nobody
    NoName = NoName
SPECIFICATION StreamsSpec
INVARIANTS
    TypeOK
    QueueInOrder
    CompleteIsTrue
    OutcomeIsReported
    GaugeIsBalanced
    RowIsTheSpeech
    ChildTypeOK
    NoOrphans
    OwnChildAnswers
    SamplesAreWhole
    AnswerIsComplete
PROPERTIES
    SessionEnds
    ImplementsProtocol
    RowEnds
    CallEnds
    LoadEnds
    CallsEnd
CHECK_DEADLOCK FALSE

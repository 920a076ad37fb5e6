CONSTANTS
    Personas = {saga, heid}
    Secrets = {elevenlabs, openai}
    MaxJobs = 2
    Absent = Absent
    Torn = Torn
    Unset = Unset
    a1 = a1
    v1 = v1
    CommitIds = {a1, b2}
    Versions = {v1, v2}
    Spellings = {"plain", "rc", "bad"}
    Marked = {"rc"}
    Unsupported = {"bad"}
    MaxRuns = 2
    MaxAttempts = 2
SPECIFICATION MCSpec
INVARIANTS
    DocumentsAreAsReported
    SecretWasCurrent
    ReleasesAreQualified
CHECK_DEADLOCK FALSE

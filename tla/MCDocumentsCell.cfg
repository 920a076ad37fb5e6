CONSTANTS
    Personas = {saga, heid}
    Secrets = {elevenlabs, openai}
    MaxJobs = 1
    Absent = Absent
    Torn = Torn
    Unset = Unset
SPECIFICATION DocumentsSpec
INVARIANTS
    OnlySentKeysChange
CHECK_DEADLOCK FALSE

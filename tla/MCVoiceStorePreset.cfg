CONSTANTS
    Voices = {saga, heid}
    MaxJobs = 1
    Absent = Absent
    Torn = Torn
SPECIFICATION StoreSpec
INVARIANTS
    OverwriteReplaces
CHECK_DEADLOCK FALSE

CONSTANTS
    MaxNames = 2
    MaxDesigns = 2
    MaxFlights = 2
    MaxTakes = 2
    Knobs = {0, 1}
    Stored <- FirstIsTuned
    Doors = {"design"}
    Shells = {t1, t2}
    Terminals = {t1, t2}
    Patched = TRUE
    MaxPersonas = 2
    MaxPreviews = 2
    MaxGenerations = 2
    MaxVoices = 2
    MaxCommands = 2
    RegenBudget = 2
    Missing = Missing
    Partial = Partial
    NoFile = NoFile
    TornFile = TornFile
    Written = Written
SPECIFICATION ForgeSpec
INVARIANTS
    AnvilCools
    RequestsAreMeant
    NewVoicesAreShown
    DesignIsAsReported
    InstalledIsComplete
PROPERTY TakeIsOfTheEditor
CHECK_DEADLOCK FALSE

CONSTANTS
    MaxNames = 2
    MaxDesigns = 2
    MaxFlights = 2
    MaxTakes = 2
    Knobs = {0, 1}
    Stored <- FirstIsTuned
    Doors = {"design"}
SPECIFICATION Spec
PROPERTY TakeIsAsReleased
CHECK_DEADLOCK FALSE

\* Pruning fails while a FloodWait lasts.
CONSTANTS
    MaxMsg = 3
    MaxVersion = 0
    Look <- Looks
    MaxTime = 3
    MaxFaults = 2
    Policies <- Fresh
    Batch = 1
    Window = 2
    Floor = 1
    RescanEvery = 2
    FloodWaits = {2}
    ErrorLimit = 5
    ErrorWait = 2
    Failing = {"flood", "prune"}
    Null = Null
SPECIFICATION Spec
PROPERTIES FloodWaitIsKept

\* Edits and deletions race with the fetches; the history grows and shrinks and
\* nothing is pruned.
CONSTANTS
    MaxMsg = 2
    MaxVersion = 1
    Look <- Looks
    MaxTime = 2
    MaxFaults = 1
    Policies <- Depths
    Batch = 1
    Window = 1
    Floor = 1
    RescanEvery = 1
    FloodWaits = {1}
    ErrorLimit = 2
    ErrorWait = 1
    Failing = {"flood", "unrecorded", "fetch", "prune", "crash"}
    Null = Null
SPECIFICATION FairSpec
PROPERTIES RescanIsExact DeepeningResumes BackfillCompletes

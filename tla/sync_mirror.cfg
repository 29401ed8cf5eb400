\* One policy throughout; posts and deletions race with the fetches, and ticks fail.
CONSTANTS
    MaxMsg = 3
    MaxVersion = 0
    Look <- Looks
    MaxTime = 3
    MaxFaults = 2
    Policies <- Fresh
    Batch = 1
    Window = 2
    Floor = 1
    RescanEvery = 2
    FloodWaits = {2}
    ErrorLimit = 2
    ErrorWait = 2
    Failing = {"flood", "fetch", "crash"}
    Null = Null
SPECIFICATION Spec
INVARIANTS TypeOK NoHoles PrunedStaysGone SoftDeletesAreSound ErrorsCoolDown
PROPERTIES NothingLeftToFill RecordedWaitIsKept

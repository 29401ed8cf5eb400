\* The history and the retention of the policy grow together.
CONSTANTS
    MaxMsg = 3
    MaxVersion = 0
    Look <- Looks
    MaxTime = 3
    MaxFaults = 0
    Policies <- Deepened
    Batch = 1
    Window = 2
    Floor = 1
    RescanEvery = 2
    FloodWaits = {2}
    ErrorLimit = 2
    ErrorWait = 2
    Failing = {"flood", "fetch", "crash"}
    Null = Null
SPECIFICATION Spec
PROPERTIES DeepeningResumes

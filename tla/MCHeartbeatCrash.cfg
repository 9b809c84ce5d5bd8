\* One crash, no other fault.
SPECIFICATION FairSpec
CONSTANTS
    MaxBeats = 1
    Cap = 1
    Reserve = 1
    Timer = timer
    Consumer = consumer
    Manuals = {}
    Writers = {}
    Paths = {"agentic", "legacy"}
    MaxCrashes = 1
    MaxErrors = 0
    MaxLeft = 0
    MaxWrites = 0
PROPERTIES BeatsFinish
CHECK_DEADLOCK FALSE

\* Worker, manual run and background writer; a crash, a failing call, a client
\* that leaves.
SPECIFICATION Spec
CONSTANTS
    MaxBeats = 2
    Cap = 1
    Reserve = 1
    Timer = timer
    Consumer = consumer
    Manuals = {m}
    Writers = {w}
    Paths = {"agentic", "legacy"}
    MaxCrashes = 1
    MaxErrors = 1
    MaxLeft = 1
    MaxWrites = 1
INVARIANT ChargedOnce
CHECK_DEADLOCK FALSE

\* Two consumers and two events with a crash, a lost reply and a slow handler; a
\* worker's beats. The queue may run empty for good: no deadlock check.
SPECIFICATION MCSpec
CONSTANTS
    MaxEvents = 2
    Workers = {w1, w2}
    MaxCrashes = 1
    MaxDbErrors = 1
    MaxSlow = 1
    timer = timer
    consumer = consumer
INVARIANTS ExclusiveUnlessReclaimed ClaimAccounting
PROPERTIES ImplementsQueue SettledIfRestartedForever ImplementsPulse HealthyBeatsFinish
CHECK_DEADLOCK FALSE

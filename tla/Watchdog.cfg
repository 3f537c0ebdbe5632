\* No, one or two ticks a second, so that a round sees distances of one to three.
CONSTANTS
    MaxTicks = 2
SPECIFICATION WatchdogSpec
INVARIANTS NotTakenForDead
PROPERTIES TickIsNoticed ThreadStops

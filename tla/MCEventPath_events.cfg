SPECIFICATION FairSpec
CONSTANTS
    a1 = a1
    a2 = a2
    App <- MCApp
    Nobody = Nobody
    MaxEvents = 2
    LastEvent = 4
    Event <- MCEvent
    NoEvent = 0
CHECK_DEADLOCK FALSE
INVARIANTS
    PathIsSound
PROPERTIES
    ImplementsQueue
    EventsArrive

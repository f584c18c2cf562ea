SPECIFICATION FairSpec
CONSTANTS
    Requests = {r1, r2, r3, r4, r5}
    MaxActive = 2
    MaxQueued = 2
INVARIANTS TypeOK SlotsAccounted NoIdleSlot TicketsExact
PROPERTIES EveryRequestEnds ImplementsGate

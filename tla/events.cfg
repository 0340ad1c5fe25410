CONSTANTS
    Writer = {w1, w2}
    Route = {r1, r2}
    Outcome = {served, denied}
    Served = served
    Cap = 3
    NoEvent = NoEvent
    MaxEvents = 5
SPECIFICATION RingSpec
INVARIANTS RingTypeOK CountsAgree PageAddsUp
PROPERTIES ImplementsRecentEvents
SYMMETRY Symmetry

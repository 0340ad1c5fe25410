CONSTANTS
    IP = {i1, i2}
    Caller = {c1, c2}
    Reloader = {r1, r2}
    Duration = {0, 1}
    ZoneOffset <- MCZoneOffset
    NoBan = NoBan
    Forever = Forever
    MaxTime = 2
    MaxCalls = 3
    MaxRestarts = 1
    MaxFaults = 1
SPECIFICATION Spec
INVARIANTS TypeOK Persisted AgreeWhenAlone
PROPERTIES EventuallyAgree

CONSTANTS
    Handler = {h1, h2}
    Ticker = ticker
    Default = default
    MaxEdits = 2
    MaxFaults = 1
SPECIFICATION Spec
INVARIANTS TypeOK NothingInvented InForceAlone
PROPERTIES EventuallyCoherent

CONSTANTS
    IP = {i1}
    Worker = {w1, w2}
    Bucket = {b1, b2, b3}
    Anonymous = anonymous
    SignedIn = signedin
    Tier = {anonymous, signedin}
    Policies <- MCPolicies
    Unit = 2
    Idle = 2
    None = None
    MaxBurst = 2
    MaxThreshold = 2
    Span = 1
    MaxTime = 3
    LogLength = 3
SPECIFICATION Spec
SYMMETRY Symmetry
INVARIANTS RateBound BanJustified BanBound

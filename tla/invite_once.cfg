CONSTANTS
    User = {u1, u2, u3}
    AdminName = admin
    Name = {admin, bob, eve}
    Code = {c1}
    Worker = {w1, w2}
    None = None
    Lifetime = 1
    MaxTime = 2
    MaxCrashes = 0
    MaxFaults = 0
SPECIFICATION Spec
SYMMETRY Symmetry
INVARIANTS InviteSingleUse

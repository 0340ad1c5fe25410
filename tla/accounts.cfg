CONSTANTS
    User = {u1, u2, u3, u4}
    AdminName = admin
    Name = {admin, bob}
    Code = {c1}
    Worker = {w1, w2}
    None = None
    Lifetime = 1
    MaxTime = 2
    MaxCrashes = 1
    MaxFaults = 1
SPECIFICATION Spec
SYMMETRY Symmetry
INVARIANTS InviteOnceAlone
PROPERTIES Privileged

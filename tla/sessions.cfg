CONSTANTS
    a4 = a4
    a6 = a6
    g1 = g1
    Group = {g1}
    Addr = {a4}
    normalizeIP <- MCnormalizeIP
    Junk = Junk
    Blank = Blank
    Worker = {w1, w2}
    User = {u1}
    Token = {t1, t2}
    Rules <- MCRules
    SettingsInput = {}
    DefaultHours = 2
    MinHours = 2
    MaxTime = 2
    None = None
SPECIFICATION Spec
SYMMETRY Symmetry
INVARIANTS NoOrphans KeepAlive
PROPERTIES RenewalNeedsActive RevocationFinal

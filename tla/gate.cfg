CONSTANTS
    a4 = a4
    a6 = a6
    g1 = g1
    Group = {g1}
    Addr = {a4, a6}
    normalizeIP <- MCnormalizeIP
    Junk = Junk
    Blank = Blank
    Worker = {w1}
    User = {u1, u2}
    Token = {t1, t2}
    Rules <- MCRuleShapes
    SettingsInput <- MCNoRenewal
    DefaultHours = 2
    MinHours = 2
    MaxTime = 2
    None = None
SPECIFICATION Spec
SYMMETRY Symmetry
INVARIANTS TypeOK DenialJustified 

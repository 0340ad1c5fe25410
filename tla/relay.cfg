CONSTANTS
    Client = {c1}
    Flow = {f1, f2}
    NoClient = NoClient
    NoFlow = NoFlow
SPECIFICATION Spec
INVARIANTS TypeOK NoLeak
PROPERTIES ReapedOnlyIdle FlowsAreGated IdleIsReaped CancelEnds

CONSTANTS
    MaxCrashes = 2
    HttpHandler = {h1}
    RawHandler = {t1}
    QueueCap = 1
SPECIFICATION Spec
INVARIANTS TypeOK MigratedIsComplete RefusedOnlyTorn FlushedBeforeClose NoLateSend AdminProtected
PROPERTIES ShutdownEnds

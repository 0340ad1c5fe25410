----------------------------- MODULE Lifecycle ------------------------------
(***************************************************************************)
(* One process after another on the same database: run of main.go from the *)
(* opening of the database (Migrations) to cleanShutdown and the deferred  *)
(* calls, with the goroutines that live beside it: the handlers of HTTP    *)
(* requests and of raw connections, the goroutine that writes the access   *)
(* log from its queue, and the 5-minute ticker.                            *)
(*                                                                         *)
(* Of the routes only the one of the admin panel is kept, as whether it is *)
(* stored and whether it is restricted to groups. How caches, listeners    *)
(* and the first account come about in detail is the subject of Refresh,   *)
(* Registry and Accounts.                                                  *)
(***************************************************************************)
EXTENDS Migrations

CONSTANTS
    HttpHandler, RawHandler,   \* goroutines; both log, they end differently
    QueueCap                   \* capacity of logChan: 512 in the code

Handler == HttpHandler \cup RawHandler

ASSUME LifecycleAssumption ==
    /\ HttpHandler \cap RawHandler = {}
    /\ QueueCap \in Nat \ {0}

VARIABLES
    main,       \* where run is
    ctx,        \* the context of signal.NotifyContext
    errChan,    \* an error is waiting in p.ErrChan
    http, raw,  \* the HTTP servers and the raw listeners: "none", "open", "closed"
    handler,    \* handler -> where it is
    queue,      \* entries in logChan
    logChan,    \* "open" or "closed"
    drainer,    \* the goroutine of InitAuth that writes them: "none", "idle", "writing", "done"
    ticker,     \* the goroutine of the ticker: "none", "running", "done"
    tickCopy,   \* the admin route in the routes the ticker has read
    copy,       \* handler -> the admin route in the routes its refresh has read
    store,      \* "open" or "closed"
    adminGroup, \* database: there is a group "admin"
    adminRow,   \* database: the admin route
    adminRule,  \* routeCache: the admin route
    overtaken,  \* history: the copy in routeCache was read before the route was protected,
                \* and stored after
    warned,     \* history: the start logged that it could not protect or load it
    overrun,    \* history: shutdown went on without waiting for all handlers
    panicked    \* history: a handler sent on the closed queue

disk   == <<schema, versions, crashes, torn, adminGroup, adminRow>>
doors  == <<http, raw, handler>>
log    == <<queue, logChan, drainer>>
busy   == <<ticker, tickCopy, copy>>
hist   == <<overtaken, warned, overrun, panicked>>
vars == <<schema, versions, boot, crashes, torn, main, ctx, errChan, http, raw, handler,
          queue, logChan, drainer, ticker, tickCopy, copy, store, adminGroup, adminRow, adminRule,
          overtaken, warned, overrun, panicked>>

\* The route: not there, restricted to groups, or without groups, because nobody
\* has set any or because the administrator has cleared them. The program cannot
\* tell the last two apart.
Route == {"none", "restricted", "unset", "cleared"}

\* What a process starts with.
Fresh ==
    /\ main = "off" /\ ctx = "live" /\ errChan = FALSE
    /\ http = "none" /\ raw = "none" /\ handler = [h \in Handler |-> "idle"]
    /\ queue = 0 /\ logChan = "open" /\ drainer = "none" /\ ticker = "none"
    /\ tickCopy = "none" /\ copy = [h \in HttpHandler |-> "none"]
    /\ store = "closed" /\ adminRule = "none"
    /\ overtaken = FALSE /\ warned = FALSE /\ overrun = FALSE /\ panicked = FALSE

Init ==
    /\ MigInit /\ Fresh
    /\ adminGroup = (<<"users", "table">> \in schema)
    /\ adminRow = "none"

\* The process is gone, and with it all it had in memory.
Gone ==
    /\ main' = "off" /\ ctx' = "live" /\ errChan' = FALSE
    /\ http' = "none" /\ raw' = "none" /\ handler' = [h \in Handler |-> "idle"]
    /\ queue' = 0 /\ logChan' = "open" /\ drainer' = "none" /\ ticker' = "none"
    /\ tickCopy' = "none" /\ copy' = [h \in HttpHandler |-> "none"]
    /\ store' = "closed" /\ adminRule' = "none"
    /\ overtaken' = FALSE /\ warned' = FALSE /\ overrun' = FALSE /\ panicked' = FALSE

-----------------------------------------------------------------------------
(* run, up to cleanShutdown                                                *)

\* storage.New.
Open ==
    /\ main = "off" \/ main = "open"
    /\ Migrate
    /\ main' = "open"
    /\ UNCHANGED <<ctx, errChan, doors, log, busy, store, adminGroup, adminRow, adminRule, hist>>

\* An error of runMigrations ends the process.
Refused ==
    /\ main = "open" /\ Gone
    /\ \/ boot.at = "failed" /\ boot' = Off /\ UNCHANGED <<schema, versions, crashes, torn>>
       \/ StatementFails
    /\ UNCHANGED <<adminGroup, adminRow>>

\* The end of storage.New. Of what seedAdmin does, whose errors it only logs,
\* the group "admin" is kept.
Seed ==
    /\ main = "open" /\ boot.at = "migrated"
    /\ adminGroup' \in {adminGroup, TRUE}
    /\ store' = "open" /\ main' = "init"
    /\ UNCHANGED <<schema, versions, boot, crashes, torn, ctx, errChan, doors, log, busy,
                   adminRow, adminRule, hist>>

\* InitAuth loads the cache, if the query succeeds, and starts its two
\* goroutines.
InitAuth ==
    /\ main = "init"
    /\ adminRule' \in {adminRow, adminRule}
    /\ drainer' = "idle" /\ ticker' = "running"
    /\ main' = "sync"
    /\ UNCHANGED <<disk, boot, ctx, errChan, doors, queue, logChan, tickCopy, copy, store,
                   hist>>

\* SyncRoutes is one transaction; if it fails run returns.
SyncRoutes ==
    /\ main = "sync"
    /\ \/ adminRow' = (IF adminRow = "none" THEN "unset" ELSE adminRow) /\ main' = "ensure"
       \/ adminRow' = adminRow /\ main' = "stop"
    /\ UNCHANGED <<schema, versions, boot, crashes, torn, adminGroup, ctx, errChan, doors, log,
                   busy, store, adminRule, hist>>

\* Fault: only a row that this start has created is restricted.
EnsureRouteGroup_Fault ==
    /\ main = "ensure"
    /\ \/ /\ adminGroup /\ UNCHANGED warned
          /\ adminRow' = IF adminRule = "none" THEN "restricted" ELSE adminRow
       \/ warned' = TRUE /\ UNCHANGED adminRow
    /\ main' = "refresh"
    /\ UNCHANGED <<schema, versions, boot, crashes, torn, adminGroup, ctx, errChan, doors, log,
                   busy, store, adminRule, overtaken, overrun, panicked>>

\* EnsureRouteGroup restricts a public admin route to the admin group. If there
\* is no such group, or a statement fails, run logs a warning and goes on.
EnsureRouteGroup ==
    /\ main = "ensure"
    /\ \/ /\ adminGroup /\ UNCHANGED warned
          /\ adminRow' = "restricted"
       \/ warned' = TRUE /\ UNCHANGED adminRow
    /\ main' = "refresh"
    /\ UNCHANGED <<schema, versions, boot, crashes, torn, adminGroup, ctx, errChan, doors, log,
                   busy, store, adminRule, overtaken, overrun, panicked>>

\* refreshCache: a query that fails leaves the old copy, with a log entry. Query
\* and store are one step here: the row cannot change in between, since no
\* request is served yet.
RefreshCache ==
    /\ main = "refresh"
    /\ \/ adminRule' = adminRow /\ overtaken' = FALSE /\ UNCHANGED warned
       \/ warned' = TRUE /\ UNCHANGED <<adminRule, overtaken>>
    /\ main' = "start"
    /\ UNCHANGED <<disk, boot, ctx, errChan, doors, log, busy, store, overrun, panicked>>

\* StartProxy opens the listeners of the rows (there may be only raw ones); run
\* returns if the rows cannot be read or are refused.
StartProxy ==
    /\ main = "start"
    /\ \/ main' = "serve" /\ http' \in {"none", "open"} /\ raw' = "open"
       \/ main' = "stop" /\ UNCHANGED <<http, raw>>
    /\ UNCHANGED <<disk, boot, ctx, errChan, handler, log, busy, store, adminRule, hist>>

-----------------------------------------------------------------------------
(* cleanShutdown and the deferred calls                                    *)

\* p.Wg: the HTTP servers have been shut down and the raw listeners, with
\* their connections, have ended.
WgDone == /\ http # "open" /\ raw # "open"
          /\ \A h \in RawHandler : handler[h] = "idle"

\* The first select. If all that was running has ended by an error, done and
\* errChan are both ready, and with done nobody waits for the requests that
\* are still being served.
BeginShutdown ==
    /\ main = "serve"
    /\ \/ (ctx = "cancelled" \/ errChan) /\ main' = "shutdown" /\ UNCHANGED overrun
       \/ WgDone /\ main' = "stop" /\ overrun' = errChan
    /\ UNCHANGED <<disk, boot, ctx, errChan, doors, log, busy, store, adminRule,
                   overtaken, warned, panicked>>

\* server.Shutdown closes the listeners of HTTP, and waits for the requests.
ShutdownHTTP ==
    /\ main = "shutdown"
    /\ http' = IF http = "open" THEN "closed" ELSE http
    /\ main' = "requests"
    /\ UNCHANGED <<disk, boot, ctx, errChan, raw, handler, log, busy, store, adminRule, hist>>

\* Fault: the requests under way are not waited for.
RequestsDone_Fault ==
    /\ main = "requests"
    /\ main' = "await"
    /\ UNCHANGED <<disk, boot, ctx, errChan, doors, log, busy, store, adminRule, hist>>

RequestsDone ==
    /\ main = "requests" /\ \A h \in HttpHandler : handler[h] = "idle"
    /\ main' = "await"
    /\ UNCHANGED <<disk, boot, ctx, errChan, doors, log, busy, store, adminRule, hist>>

\* The second select.
AllStopped ==
    /\ main = "await" /\ WgDone
    /\ main' = "stop"
    /\ UNCHANGED <<disk, boot, ctx, errChan, doors, log, busy, store, adminRule, hist>>

\* Fault: the rest is waited for without a time limit.
ShutdownTimeout_Fault ==
    /\ main = "requests" /\ main' = "await"
    /\ overrun' = TRUE
    /\ UNCHANGED <<disk, boot, ctx, errChan, doors, log, busy, store, adminRule,
                   overtaken, warned, panicked>>

\* Five seconds for the requests, six for the rest.
ShutdownTimeout ==
    /\ \/ main = "requests" /\ main' = "await"
       \/ main = "await" /\ main' = "stop"
    /\ overrun' = TRUE
    /\ UNCHANGED <<disk, boot, ctx, errChan, doors, log, busy, store, adminRule,
                   overtaken, warned, panicked>>

\* stopAuth: close(logChan) ...
StopAuth ==
    /\ main = "stop"
    /\ logChan' = "closed"
    /\ main' = "drain"
    /\ UNCHANGED <<disk, boot, ctx, errChan, doors, queue, drainer, busy, store, adminRule, hist>>

\* Fault: the store is closed while the drainer may still have entries.
CloseStore_Fault ==
    /\ main = "drain"
    /\ store' = "closed"
    /\ main' = "exit"
    /\ UNCHANGED <<disk, boot, ctx, errChan, doors, log, busy, adminRule, hist>>

\* ... and <-logDrained; then store.Close.
CloseStore ==
    /\ main = "drain" /\ drainer = "done"
    /\ store' = "closed"
    /\ main' = "exit"
    /\ UNCHANGED <<disk, boot, ctx, errChan, doors, log, busy, adminRule, hist>>

\* run has returned, or a panic nobody recovers has ended the process.
Exit ==
    /\ main \in {"exit", "panic"}
    /\ Gone /\ boot' = Off
    /\ UNCHANGED disk

-----------------------------------------------------------------------------
(* The goroutines beside run                                               *)

\* A request, connection or datagram that is neither banned nor limited: those
\* that are leave nothing in the access log.
Accept(h) ==
    /\ handler[h] = "idle" /\ IF h \in HttpHandler THEN http = "open" ELSE raw = "open"
    /\ handler' = [handler EXCEPT ![h] = "gate"]
    /\ UNCHANGED <<disk, boot, main, ctx, errChan, http, raw, log, busy, store, adminRule, hist>>

\* Fault: the queue has no limit.
LogAccess_Fault(h) ==
    /\ handler[h] = "gate" /\ logChan = "open"
    /\ queue' = queue + 1
    /\ \E next \in {"serving", "idle"} : handler' = [handler EXCEPT ![h] = next]
    /\ UNCHANGED <<disk, boot, main, ctx, errChan, http, raw, logChan, drainer, busy, store,
                   adminRule, hist>>

\* logAccess: an entry is dropped if the queue is full. A request that is
\* denied ends here.
LogAccess(h) ==
    /\ handler[h] = "gate" /\ logChan = "open"
    /\ queue' = IF queue < QueueCap THEN queue + 1 ELSE queue
    /\ \E next \in {"serving", "idle"} : handler' = [handler EXCEPT ![h] = next]
    /\ UNCHANGED <<disk, boot, main, ctx, errChan, http, raw, logChan, drainer, busy, store,
                   adminRule, hist>>

\* The select does not help: a send on a closed channel panics. net/http
\* recovers it; in a raw connection it ends the process.
SendPanics(h) ==
    /\ handler[h] = "gate" /\ logChan = "closed"
    /\ panicked' = TRUE
    /\ handler' = [handler EXCEPT ![h] = "idle"]
    /\ main' = IF h \in RawHandler THEN "panic" ELSE main
    /\ UNCHANGED <<disk, boot, ctx, errChan, http, raw, log, busy, store, adminRule,
                   overtaken, warned, overrun>>

\* The response has been sent or the connection has ended.
Finish(h) ==
    /\ handler[h] = "serving"
    /\ handler' = [handler EXCEPT ![h] = "idle"]
    /\ UNCHANGED <<disk, boot, main, ctx, errChan, http, raw, log, busy, store, adminRule, hist>>

\* A raw listener is closed once the context is cancelled, or fails.
CloseRaw ==
    /\ raw = "open"
    /\ raw' = "closed"
    /\ UNCHANGED <<disk, boot, main, ctx, errChan, http, handler, log, busy, store, adminRule,
                   hist>>

Signal ==
    /\ main # "off" /\ ctx = "live"
    /\ ctx' = "cancelled"
    /\ UNCHANGED <<disk, boot, main, errChan, doors, log, busy, store, adminRule, hist>>

\* A listener cannot be bound or fails: the error goes to ErrChan. It may have
\* been the only one of its kind.
ListenError ==
    /\ main = "serve" /\ ~errChan
    /\ errChan' = TRUE
    /\ http' \in {http} \cup (IF http = "open" THEN {"closed"} ELSE {})
    /\ raw' \in {raw} \cup (IF raw = "open" THEN {"closed"} ELSE {})
    /\ UNCHANGED <<disk, boot, main, ctx, handler, log, busy, store, adminRule, hist>>

\* The drainer takes an entry off the queue and inserts it.
Take ==
    /\ drainer = "idle" /\ queue > 0
    /\ queue' = queue - 1 /\ drainer' = "writing"
    /\ UNCHANGED <<disk, boot, main, ctx, errChan, doors, logChan, busy, store, adminRule, hist>>

Insert ==
    /\ drainer = "writing"
    /\ drainer' = "idle"
    /\ UNCHANGED <<disk, boot, main, ctx, errChan, doors, queue, logChan, busy, store, adminRule,
                   hist>>

Drained ==
    /\ drainer = "idle" /\ queue = 0 /\ logChan = "closed"
    /\ drainer' = "done"
    /\ UNCHANGED <<disk, boot, main, ctx, errChan, doors, queue, logChan, busy, store, adminRule,
                   hist>>

\* A copy read before the route was protected, stored after.
Overtakes(c) == c = "unset" /\ adminRow # "unset"

\* The ticker's refresh: its query, which may fail, and the store of the copy.
\* Nobody waits for its goroutine: with the store closed its queries fail.
TickReads ==
    /\ ticker = "running" /\ store = "open"
    /\ ticker' = "refreshing" /\ tickCopy' = adminRow
    /\ UNCHANGED <<disk, boot, main, ctx, errChan, doors, log, copy, store, adminRule, hist>>

TickStores ==
    /\ ticker = "refreshing"
    /\ adminRule' = tickCopy /\ overtaken' = Overtakes(tickCopy)
    /\ ticker' = "running" /\ tickCopy' = "none"
    /\ UNCHANGED <<disk, boot, main, ctx, errChan, doors, log, copy, store,
                   warned, overrun, panicked>>

TickerStops ==
    /\ ticker = "running" /\ ctx = "cancelled"
    /\ ticker' = "done"
    /\ UNCHANGED <<disk, boot, main, ctx, errChan, doors, log, tickCopy, copy, store,
                   adminRule, hist>>

\* A request by which the administrator sets or clears the groups of the admin
\* route: the UPDATE, then the query of refreshCache, then the store of what it
\* has read. A query that fails leaves the old copy in use.
EditAdminRoute(h) ==
    /\ store = "open" /\ handler[h] = "serving"
    /\ adminRow' \in {"restricted", "cleared"}
    /\ handler' = [handler EXCEPT ![h] = "edited"]
    /\ UNCHANGED <<schema, versions, boot, crashes, torn, adminGroup, main, ctx, errChan, http, raw,
                   log, busy, store, adminRule, hist>>

EditReads(h) ==
    /\ handler[h] = "edited"
    /\ \/ store = "open" /\ copy' = [copy EXCEPT ![h] = adminRow]
          /\ handler' = [handler EXCEPT ![h] = "refreshing"]
       \/ handler' = [handler EXCEPT ![h] = "serving"] /\ UNCHANGED copy
    /\ UNCHANGED <<disk, boot, main, ctx, errChan, http, raw, log, ticker, tickCopy, store,
                   adminRule, hist>>

EditStores(h) ==
    /\ handler[h] = "refreshing"
    /\ adminRule' = copy[h] /\ overtaken' = Overtakes(copy[h])
    /\ copy' = [copy EXCEPT ![h] = "none"]
    /\ handler' = [handler EXCEPT ![h] = "serving"]
    /\ UNCHANGED <<disk, boot, main, ctx, errChan, http, raw, log, ticker, tickCopy, store,
                   warned, overrun, panicked>>

\* The process dies at any point.
Crash ==
    /\ main # "off"
    /\ MigCrash /\ Gone
    /\ UNCHANGED <<adminGroup, adminRow>>

MainStep ==
    \/ Open \/ Refused \/ Seed \/ InitAuth \/ SyncRoutes \/ EnsureRouteGroup
    \/ RefreshCache \/ StartProxy \/ BeginShutdown \/ ShutdownHTTP \/ RequestsDone \/ AllStopped
    \/ ShutdownTimeout \/ StopAuth \/ CloseStore \/ Exit
Drainer == Take \/ Insert \/ Drained

Next ==
    \/ MainStep \/ Drainer
    \/ \E h \in Handler : Accept(h) \/ LogAccess(h) \/ SendPanics(h) \/ Finish(h)
    \/ CloseRaw \/ Signal \/ ListenError
    \/ \E h \in HttpHandler : EditAdminRoute(h) \/ EditReads(h) \/ EditStores(h)
    \/ TickReads \/ TickStores \/ TickerStops \/ Crash

\* run goes on while it is not blocked, timers fire, and the drainer is
\* scheduled. Nothing is assumed of clients, signals or listeners.
Spec == Init /\ [][Next]_vars /\ WF_vars(MainStep) /\ WF_vars(Drainer)

-----------------------------------------------------------------------------
\* The types of the state; in particular the queue holds its capacity at most.
TypeOK ==
    /\ MigTypeOK
    /\ main \in {"off", "open", "init", "sync", "ensure", "refresh", "start", "serve",
                 "shutdown", "requests", "await", "stop", "drain", "exit", "panic"}
    /\ ctx \in {"live", "cancelled"} /\ errChan \in BOOLEAN
    /\ http \in {"none", "open", "closed"} /\ raw \in {"none", "open", "closed"}
    /\ handler \in [Handler -> {"idle", "gate", "serving", "edited", "refreshing"}]
    /\ queue \in 0 .. QueueCap /\ logChan \in {"open", "closed"}
    /\ drainer \in {"none", "idle", "writing", "done"}
    /\ ticker \in {"none", "running", "refreshing", "done"}
    /\ tickCopy \in Route /\ copy \in [HttpHandler -> Route]
    /\ store \in {"open", "closed"} /\ adminGroup \in BOOLEAN
    /\ adminRow \in Route /\ adminRule \in Route
    /\ overtaken \in BOOLEAN /\ warned \in BOOLEAN /\ overrun \in BOOLEAN /\ panicked \in BOOLEAN

\* When run returns, store.Close comes after the goroutine of the access log
\* has taken the last entry off the queue and its INSERT has returned, whether
\* the shutdown was asked for, timed out or was caused by an error. Entries are
\* still lost if the process ends otherwise, by a crash or by the panic of a
\* raw connection that logs too late, or if the INSERT fails: LogAccess only
\* reports that.
FlushedBeforeClose == main = "exit" => queue = 0 /\ drainer = "done"

\* Nobody sends on the closed queue unless the shutdown went on after a
\* timeout (after a listener error it always does if there are raw listeners:
\* nothing tells them to stop) or took the end of the listeners for the end of
\* the requests.
NoLateSend == panicked => overrun

\* While requests are served, the gate takes the admin route for public only if
\* the administrator has made it so, by the setting that the copy in use was
\* read from. Otherwise it is restricted to groups, or unknown and denied, from
\* the first request on, also if an earlier start was cut off between creating
\* the row and protecting it. Excepted are a start that has logged that it
\* could not protect or load the route, and a refresh that was overtaken (a
\* ticker that reads the row before EnsureRouteGroup and stores it afterwards)
\* until the next one. Of a route the administrator has made public this says
\* nothing: EnsureRouteGroup restricts it again at the next start.
AdminProtected ==
    main = "serve" => adminRule # "unset" \/ overtaken \/ warned

\* A process that is told to stop, or whose listener fails, ends.
ShutdownEnds == (main = "serve" /\ (ctx = "cancelled" \/ errChan)) ~> (main = "off")
=============================================================================

------------------------------ MODULE Registry ------------------------------
(***************************************************************************)
(* The routes of the database and the listeners of the running proxy: the  *)
(* admin API creates, edits and deletes routes in proxy_routes and then    *)
(* registers or unregisters them live (proxy/proxy.go); a restart rebuilds *)
(* the listeners from the rows, or refuses to start (parseProxies).        *)
(*                                                                         *)
(* A route's url is a host and a port. "http" stands for the types proxy,  *)
(* static and api; good says whether createHandlerForRoute accepts the     *)
(* target. A raw listener is started and stopped asynchronously: tcpCancels*)
(* and udpCancels hold the current one of a port (cur); one that was       *)
(* cancelled opens and closes its socket in its own time (stale). The      *)
(* reload of the cache that ends every handler is the subject of Refresh.  *)
(***************************************************************************)
EXTENDS Naturals, FiniteSets

CONSTANTS
    Host, Port,
    Handler,      \* goroutines serving HandleAdminRoutes
    Config,       \* the routes of config.toml: url -> row
    Posts,        \* the bodies of POST requests
    CertFiles,    \* whether the default certificate is configured and readable
    MaxRequests   \* bound: requests in all

Url  == Host \X Port
Kind == {"http", "tcp", "udp", "tcp+udp"}
Sock == {"tcp", "udp"} \X Port

\* n tells rows apart that have the same url at different times; the rows of
\* a port range share it.
Row == [kind : Kind, tls : BOOLEAN, good : BOOLEAN,
        source : {"config", "ui"}, n : Nat, range : BOOLEAN]

ASSUME RegistryAssumption ==
    /\ Port \subseteq Nat
    /\ MaxRequests \in Nat
    /\ CertFiles \in BOOLEAN
    /\ DOMAIN Config \subseteq Url
    /\ \A u \in DOMAIN Config : /\ Config[u] \in Row /\ Config[u].source = "config"
                                /\ Config[u].n = 0 /\ ~Config[u].range
    /\ Posts \subseteq [host : Host, first : Port, last : Port, kind : Kind,
                        tls : BOOLEAN, good : BOOLEAN]
    /\ \A b \in Posts : b.first <= b.last /\ b.first .. b.last \subseteq Port

VARIABLES
    rows,      \* proxy_routes: url -> row
    servers,   \* p.servers: port -> its listenServer
    http,      \* port -> the socket of the listenServer
    cur,       \* raw socket -> the listener in tcpCancels or udpCancels
    stale,     \* raw socket -> the listeners that have been cancelled
    state,     \* of the process: "up", "failed" (ErrChan) or "refused"
    req,       \* handler -> the request it serves
    requests,  \* counter for the bound
    started,   \* history: raw sockets started since the process is up
    blame      \* history: what may have spoilt the correspondence

vars == <<rows, servers, http, cur, stale, state, req, requests, started, blame>>

isTCP(k) == k \in {"tcp", "tcp+udp"}
isUDP(k) == k \in {"udp", "tcp+udp"}
isRaw(k) == isTCP(k) \/ isUDP(k)

Idle == [pc |-> "idle"]

\* The listenServer of a port: whether it is there, and its handlers.
NoServer == [there |-> FALSE, tls |-> FALSE, hosts |-> {}]
NoStale  == [starting |-> 0, open |-> FALSE]

-----------------------------------------------------------------------------
(* Start: SyncRoutes and StartProxy                                        *)

\* Config routes replace rows with their url; other config rows go.
SyncRoutes(R) ==
    [u \in DOMAIN Config \cup {v \in DOMAIN R : R[v].source = "ui"} |->
        IF u \in DOMAIN Config THEN Config[u] ELSE R[u]]

RowsAt(R, p) == {u \in DOMAIN R : u[2] = p}

\* parseProxies and initProxies return no error: no two routes need the same
\* TCP or UDP port, routes that share a listener agree on TLS, the
\* certificate is there and so is every handler.
Bootable(R) ==
    /\ \A u, v \in DOMAIN R : u # v /\ u[2] = v[2] =>
          /\ ~(isTCP(R[u].kind) /\ isTCP(R[v].kind))
          /\ ~(isUDP(R[u].kind) /\ isUDP(R[v].kind))
          /\ ~(isTCP(R[u].kind) /\ ~isRaw(R[v].kind))
          /\ ~isRaw(R[u].kind) /\ ~isRaw(R[v].kind) => R[u].tls = R[v].tls
    /\ \A u \in DOMAIN R : ~isRaw(R[u].kind) =>
          (R[u].tls => CertFiles) /\ R[u].good

\* The process came up the first time.
ASSUME ConfigAssumption == Bootable(Config)

\* The listeners StartProxy sets up for bootable rows.
serversOf(R) ==
    [p \in Port |->
        LET urls == {u \in RowsAt(R, p) : ~isRaw(R[u].kind)}
        IN  [there |-> urls # {}, tls |-> \E u \in urls : R[u].tls,
             hosts |-> {u[1] : u \in urls}]]

cancelsOf(R) ==
    [s \in Sock |->
        IF \E u \in RowsAt(R, s[2]) : IF s[1] = "tcp" THEN isTCP(R[u].kind)
                                                      ELSE isUDP(R[u].kind)
        THEN "starting" ELSE "none"]

Init ==
    /\ rows = Config
    /\ servers = serversOf(Config)
    /\ http = [p \in Port |-> IF servers[p].there THEN "starting" ELSE "none"]
    /\ cur = cancelsOf(Config)
    /\ stale = [s \in Sock |-> NoStale]
    /\ state = "up"
    /\ req = [h \in Handler |-> Idle]
    /\ requests = 0
    /\ started = {s \in Sock : cur[s] # "none"}
    /\ blame = {}

\* The process ends, by a signal, a failed listener or a crash, and is
\* started again.
Restart ==
    /\ rows' = SyncRoutes(rows)
    /\ IF Bootable(rows')
       THEN /\ servers' = serversOf(rows')
            /\ cur' = cancelsOf(rows')
            /\ state' = "up"
       ELSE /\ servers' = [p \in Port |-> NoServer]
            /\ cur' = [s \in Sock |-> "none"]
            /\ state' = "refused"
    /\ http' = [p \in Port |-> IF servers'[p].there THEN "starting" ELSE "none"]
    /\ stale' = [s \in Sock |-> NoStale]
    /\ req' = [h \in Handler |-> Idle]
    /\ started' = {s \in Sock : cur'[s] # "none"}
    /\ UNCHANGED <<requests, blame>>

-----------------------------------------------------------------------------
(* Sockets: runTCPProxy, runUDPProxy, startServe                           *)

\* Some listener has the port open; HTTP listeners bind TCP.
InUse(s) == \/ cur[s] = "open" \/ stale[s].open
            \/ s[1] = "tcp" /\ http[s[2]] = "open"

live == <<rows, servers, req, requests, started, blame>>

\* The listener of s opens its socket, or the port is in use: the error ends
\* the process.
Listen(s) ==
    /\ cur[s] = "starting" /\ state = "up"
    /\ IF InUse(s) THEN state' = "failed" /\ UNCHANGED cur
                   ELSE cur' = [cur EXCEPT ![s] = "open"] /\ UNCHANGED state
    /\ UNCHANGED <<live, http, stale>>

\* A listener that was cancelled before it got here does not look at its
\* context first.
ListenStale(s) ==
    /\ stale[s].starting > 0 /\ state = "up"
    /\ IF InUse(s)
       THEN /\ state' = "failed"
            /\ stale' = [stale EXCEPT ![s].starting = @ - 1]
       ELSE /\ stale' = [stale EXCEPT ![s] = [starting |-> @.starting - 1, open |-> TRUE]]
            /\ UNCHANGED state
    /\ UNCHANGED <<live, http, cur>>

CloseStale(s) ==
    /\ stale[s].open
    /\ stale' = [stale EXCEPT ![s].open = FALSE]
    /\ UNCHANGED <<live, http, cur, state>>

ServeHTTP(p) ==
    /\ http[p] = "starting" /\ state = "up"
    /\ IF InUse(<<"tcp", p>>) THEN state' = "failed" /\ UNCHANGED http
                              ELSE http' = [http EXCEPT ![p] = "open"] /\ UNCHANGED state
    /\ UNCHANGED <<live, cur, stale>>

-----------------------------------------------------------------------------
(* ValidateRoute, RegisterRoute, UnregisterRoute                           *)

\* Fault: a TCP route is not held against the HTTP listener of its port.
ValidateRoute_Fault(p, k) ==
    /\ (isTCP(k) \/ ~isRaw(k)) => cur[<<"tcp", p>>] = "none"
    /\ isUDP(k) => cur[<<"udp", p>>] = "none"

\* Fault: a port counts as taken only once its socket is open.
ValidateStarted_Fault(p, k) ==
    /\ (isTCP(k) \/ ~isRaw(k)) => cur[<<"tcp", p>>] # "open"
    /\ isTCP(k) => http[p] # "open"
    /\ isUDP(k) => cur[<<"udp", p>>] # "open"

ValidateRoute(p, k) ==
    /\ (isTCP(k) \/ ~isRaw(k)) => cur[<<"tcp", p>>] = "none"
    /\ isTCP(k) => ~servers[p].there
    /\ isUDP(k) => cur[<<"udp", p>>] = "none"

\* cancel(): what was current in the sockets S goes its own way.
Cancelled(S) ==
    [s \in Sock |->
        IF s \notin S THEN stale[s]
        ELSE [starting |-> stale[s].starting + (IF cur[s] = "starting" THEN 1 ELSE 0),
              open |-> stale[s].open \/ cur[s] = "open"]]

\* startTCPProxy, startUDPProxy: the old listener is cancelled, the new one
\* put in its place.
RegisterRaw(p, k) ==
    LET S == {s \in Sock : s[2] = p /\ (IF s[1] = "tcp" THEN isTCP(k) ELSE isUDP(k))}
    IN  /\ stale' = Cancelled(S)
        /\ cur' = [s \in Sock |-> IF s \in S THEN "starting" ELSE cur[s]]
        /\ started' = started \cup S
        /\ blame' = blame \cup (IF S \cap started # {} THEN {"restart"} ELSE {})
        /\ UNCHANGED <<servers, http>>

\* A port that has no listener gets one, unless TCP owns it or the
\* certificate cannot be loaded; then the handler is built and added.
RegisterHTTP(h, p, tls, good) ==
    LET new == ~servers[p].there
        ls == IF new THEN [there |-> TRUE, tls |-> tls, hosts |-> {}] ELSE servers[p]
    IN  /\ IF new /\ (cur[<<"tcp", p>>] # "none" \/ (tls /\ ~CertFiles))
           THEN UNCHANGED <<servers, http>>
           ELSE /\ servers' = [servers EXCEPT ![p] =
                       IF good THEN [ls EXCEPT !.hosts = @ \cup {h}] ELSE ls]
                /\ http' = IF new THEN [http EXCEPT ![p] = "starting"] ELSE http
        /\ blame' = blame \cup (IF new /\ <<"tcp", p>> \in started THEN {"restart"} ELSE {})
        /\ UNCHANGED <<cur, stale, started>>

RegisterRoute(h, p, k, tls, good) ==
    IF isRaw(k) THEN RegisterRaw(p, k) ELSE RegisterHTTP(h, p, tls, good)

\* Fault: only the TCP half of a tcp+udp route is stopped.
UnregisterRoute_Fault(h, p) ==
    IF servers[p].there
    THEN /\ servers' = [servers EXCEPT ![p].hosts = @ \ {h}]
         /\ UNCHANGED <<cur, stale>>
    ELSE /\ stale' = Cancelled({<<"tcp", p>>})
         /\ cur' = [cur EXCEPT ![<<"tcp", p>>] = "none"]
         /\ UNCHANGED servers

\* A port with an HTTP listener loses the handler of the host and nothing
\* else; on another port every raw listener is stopped.
UnregisterRoute(h, p) ==
    IF servers[p].there
    THEN /\ servers' = [servers EXCEPT ![p].hosts = @ \ {h}]
         /\ UNCHANGED <<cur, stale>>
    ELSE LET S == {s \in Sock : s[2] = p}
         IN  /\ stale' = Cancelled(S)
             /\ cur' = [s \in Sock |-> IF s \in S THEN "none" ELSE cur[s]]
             /\ UNCHANGED servers

-----------------------------------------------------------------------------
(* HandleAdminRoutes                                                       *)

\* History: another request is in progress.
Begin(h, q) ==
    /\ state = "up" /\ req[h].pc = "idle" /\ requests < MaxRequests
    /\ requests' = requests + 1
    /\ req' = [req EXCEPT ![h] = q]
    /\ blame' = blame \cup
         (IF \E g \in Handler \ {h} : req[g].pc # "idle" THEN {"overlap"} ELSE {})

Goto(h, q) == req' = [req EXCEPT ![h] = q]

\* History: rows that go wrong with those there are, the listeners or the
\* files: UDP next to another route or to an HTTP listener (one stays when its
\* last route is deleted), TLS that differs from the listener's or has no
\* certificate, a target without a handler.
Mistakes(u, r) ==
    {m \in {"shared", "tls", "target"} :
        \/ /\ m = "shared"
           /\ \/ \E v \in RowsAt(rows, u[2]) \ {u} : isUDP(r.kind) \/ isUDP(rows[v].kind)
              \/ isUDP(r.kind) /\ servers[u[2]].there
        \/ /\ m = "tls" /\ ~isRaw(r.kind)
           /\ \/ r.tls /\ ~CertFiles
              \/ servers[u[2]].there /\ servers[u[2]].tls # r.tls
        \/ m = "target" /\ ~isRaw(r.kind) /\ ~r.good}

\* POST, for one port or a range: every port is validated first.
Post(h, b) ==
    /\ Begin(h, [pc |-> "validate", next |-> b.first, n |-> requests + 1,
                 body |-> [b EXCEPT !.tls = @ /\ ~isRaw(b.kind)]])
    /\ UNCHANGED <<rows, servers, http, cur, stale, state, started>>

Validate(h) ==
    /\ req[h].pc = "validate"
    /\ LET q == req[h]
           ok == ValidateRoute(q.next, q.body.kind)
       IN  \/ ~ok /\ Goto(h, Idle)
           \/ ok /\ q.next < q.body.last /\ Goto(h, [q EXCEPT !.next = @ + 1])
           \/ /\ ok /\ ~(q.next < q.body.last)
              /\ Goto(h, [q EXCEPT !.pc = "create", !.next = q.body.first])
    /\ UNCHANGED <<rows, servers, http, cur, stale, state, requests, started, blame>>

\* CreateRoute; a url in use ends the request, after a rollback of the range.
CreateRoute(h) ==
    /\ req[h].pc = "create"
    /\ LET q == req[h]
           b == q.body
           u == <<b.host, q.next>>
           r == [kind |-> b.kind, tls |-> b.tls, good |-> b.good, source |-> "ui",
                 n |-> q.n, range |-> b.first < b.last]
       IN  \/ /\ u \notin DOMAIN rows
              /\ rows' = [v \in DOMAIN rows \cup {u} |-> IF v = u THEN r ELSE rows[v]]
              /\ blame' = blame \cup Mistakes(u, r)
              /\ Goto(h, [q EXCEPT !.pc = "register"])
           \/ /\ u \in DOMAIN rows
              /\ Goto(h, IF r.range THEN [pc |-> "rollback", n |-> q.n] ELSE Idle)
              /\ UNCHANGED <<rows, blame>>
    /\ UNCHANGED <<servers, http, cur, stale, state, requests, started>>

Register(h) ==
    /\ req[h].pc = "register"
    /\ LET q == req[h]
           b == q.body
       IN  /\ RegisterRoute(b.host, q.next, b.kind, b.tls, b.good)
           /\ Goto(h, IF q.next < b.last
                      THEN [q EXCEPT !.pc = "create", !.next = @ + 1] ELSE Idle)
    /\ UNCHANGED <<rows, state, requests>>

\* DELETE ... WHERE ... RETURNING url, then OnRouteDelete for each.
Remove(h, U) ==
    /\ rows' = [v \in DOMAIN rows \ U |-> rows[v]]
    /\ Goto(h, IF U = {} THEN Idle ELSE [pc |-> "unregister", urls |-> U])

\* DeleteRouteGroup by the handler that created part of the range.
Rollback(h) ==
    /\ req[h].pc = "rollback"
    /\ Remove(h, {u \in DOMAIN rows : rows[u].n = req[h].n /\ rows[u].range})
    /\ UNCHANGED <<servers, http, cur, stale, state, requests, started, blame>>

\* DELETE ?id= and DELETE ?group=
Delete(h, u, U) ==
    /\ u \in DOMAIN rows /\ rows[u].source = "ui"
    /\ Begin(h, [pc |-> "unregister", urls |-> U])
    /\ rows' = [v \in DOMAIN rows \ U |-> rows[v]]
    /\ UNCHANGED <<servers, http, cur, stale, state, started>>

DeleteRoute(h, u) == Delete(h, u, {u})

DeleteRouteGroup(h, u) ==
    /\ u \in DOMAIN rows /\ rows[u].range
    /\ Delete(h, u, {v \in DOMAIN rows : rows[v].n = rows[u].n /\ rows[v].range})

Unregister(h) ==
    /\ req[h].pc = "unregister"
    /\ \E u \in req[h].urls :
        /\ UnregisterRoute(u[1], u[2])
        /\ Goto(h, IF req[h].urls = {u} THEN Idle ELSE [req[h] EXCEPT !.urls = @ \ {u}])
    /\ UNCHANGED <<rows, http, state, requests, started, blame>>

\* PUT with a target, of a route made in the admin panel: the row is read,
\* its target written, the route registered as it was read.
Put(h, u, good) ==
    /\ u \in DOMAIN rows /\ rows[u].source = "ui"
    /\ Begin(h, [pc |-> "endpoint", url |-> u, row |-> [rows[u] EXCEPT !.good = good]])
    /\ UNCHANGED <<rows, servers, http, cur, stale, state, started>>

UpdateRouteEndpoint(h) ==
    /\ req[h].pc = "endpoint"
    /\ LET u == req[h].url
           r == req[h].row
       IN  IF u \in DOMAIN rows /\ rows[u].n = r.n
           THEN /\ rows' = [rows EXCEPT ![u].good = r.good]
                /\ blame' = blame \cup (Mistakes(u, r) \cap {"target"})
                /\ Goto(h, [req[h] EXCEPT !.pc = "reregister"])
           ELSE Goto(h, Idle) /\ UNCHANGED <<rows, blame>>
    /\ UNCHANGED <<servers, http, cur, stale, state, requests, started>>

Reregister(h) ==
    /\ req[h].pc = "reregister"
    /\ LET u == req[h].url
           r == req[h].row
       IN  RegisterRoute(u[1], u[2], r.kind, r.tls, r.good)
    /\ Goto(h, Idle)
    /\ UNCHANGED <<rows, state, requests>>

-----------------------------------------------------------------------------
Next ==
    \/ \E h \in Handler :
        \/ \E b \in Posts : Post(h, b)
        \/ Validate(h) \/ CreateRoute(h) \/ Register(h) \/ Rollback(h)
        \/ \E u \in DOMAIN rows : DeleteRoute(h, u) \/ DeleteRouteGroup(h, u)
        \/ Unregister(h)
        \/ \E u \in DOMAIN rows, good \in BOOLEAN : Put(h, u, good)
        \/ UpdateRouteEndpoint(h) \/ Reregister(h)
    \/ \E s \in Sock : Listen(s) \/ ListenStale(s) \/ CloseStale(s)
    \/ \E p \in Port : ServeHTTP(p)
    \/ Restart

Spec == Init /\ [][Next]_vars

-----------------------------------------------------------------------------
(* Properties                                                              *)

Quiet == state = "up" /\ \A h \in Handler : req[h].pc = "idle"

\* Between requests the running proxy has a listener and a handler for every
\* row and for nothing else, through ranges, rollbacks, edits and restarts,
\* as long as requests did not overlap, no UDP route shared its port with
\* another route or an HTTP listener, and no row had a TLS setting or a target
\* of the kinds ValidateRoute does not look at.
LiveMatchesRows ==
    (Quiet /\ blame \subseteq {"restart"}) =>
        /\ \A s \in Sock : (cur[s] = "none") <=> (cancelsOf(rows)[s] = "none")
        /\ \A p \in Port : servers[p].hosts = serversOf(rows)[p].hosts

\* Under the same conditions the proxy can always be started again on the
\* rows the admin API has let through: ValidateRoute looks at the listeners,
\* parseProxies at the rows.
BootsAlone == blame \subseteq {"restart"} => Bootable(SyncRoutes(rows))

\* What the comment of ValidateRoute says of the routes it lets through: each
\* is "compatible with the live proxy: valid host:port format, known type, and
\* no port conflicts" (proxy.go:109-110), so their rows can be started
\* together. It does not hold: ValidateRoute is not told whether a route is
\* TLS, and a port cannot have routes of both sorts.
BootsAgain == Bootable(SyncRoutes(rows))

\* A listener finds its port taken by another listener of the proxy only if
\* a raw listener was started on it before, or if two requests overlapped: a
\* port that ValidateRoute calls free is free unless it is being vacated.
\* (startTCPProxy cancels the old listener and does not wait for its socket to
\* close, so the condition is needed.)
NoSelfConflict == state = "failed" => blame \cap {"restart", "overlap"} # {}
=============================================================================

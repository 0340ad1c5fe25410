--------------------------- MODULE RegistryProofs ---------------------------
(***************************************************************************)
(* Proofs about Registry, for any hosts, ports, configuration and bodies,  *)
(* any number of handlers and of requests.                                 *)
(*                                                                         *)
(* NoSelfConflict rests on started: as long as no raw listener was started *)
(* twice, a socket has one listener, current or cancelled (Lone), and a    *)
(* port with an HTTP listener has never had a TCP one (Apart).             *)
(*                                                                         *)
(* LiveMatchesRows and BootsAlone go together: the rows can be booted      *)
(* because ValidateRoute looked at listeners that stood for them, and the  *)
(* listeners stand for the rows, but for the row that a handler is about   *)
(* to register (Live) and those it is about to unregister (Owned, Hosted). *)
(***************************************************************************)
EXTENDS Registry, TLAPS

Body     == [host : Host, first : Port, last : Port, kind : Kind,
             tls : BOOLEAN, good : BOOLEAN]
Posting  == [pc : {"validate", "create", "register"}, next : Port, n : Nat, body : Body]
Undoing  == [pc : {"rollback"}, n : Nat]
Removing == [pc : {"unregister"}, urls : SUBSET Url]
Editing  == [pc : {"endpoint", "reregister"}, url : Url, row : Row]
Request  == {Idle} \cup Posting \cup Undoing \cup Removing \cup Editing

ListenServer == [there : BOOLEAN, tls : BOOLEAN, hosts : SUBSET Host]
Stale        == [starting : Nat, open : BOOLEAN]
Phase        == {"none", "starting", "open"}

Typed ==
    /\ DOMAIN rows \subseteq Url /\ \A u \in DOMAIN rows : rows[u] \in Row
    /\ servers \in [Port -> ListenServer]
    /\ http \in [Port -> Phase]
    /\ cur \in [Sock -> Phase]
    /\ stale \in [Sock -> Stale]
    /\ state \in {"up", "failed", "refused"}
    /\ req \in [Handler -> Request]
    /\ requests \in Nat
    /\ started \subseteq Sock
    /\ blame \subseteq {"restart", "overlap", "shared", "tls", "target"}

\* What a request carries besides its types.
Stage(q) ==
    /\ q \in Posting =>
         /\ q.body.first <= q.next /\ q.next <= q.body.last
         /\ q.body.first .. q.body.last \subseteq Port
         /\ q.n > 0
    /\ q \in Undoing => q.n > 0
    /\ q \in Editing => q.row.source = "ui" /\ q.row.n > 0

Stages == \A h \in Handler : Stage(req[h])

\* The configured rows are always there, and no other row looks like one.
Configured ==
    /\ \A u \in DOMAIN Config : u \in DOMAIN rows /\ rows[u] = Config[u]
    /\ \A u \in DOMAIN rows \ DOMAIN Config : rows[u].source = "ui" /\ rows[u].n > 0

\* The raw sockets of a route on port p.
Socks(p, k) == {s \in Sock : s[2] = p /\ (IF s[1] = "tcp" THEN isTCP(k) ELSE isUDP(k))}

\* The row u has been stored, and its handler is about to register it.
Pending(u) == \E h \in Handler : /\ req[h].pc = "register"
                                 /\ u = <<req[h].body.host, req[h].next>>

\* The row u has been deleted, and its handler is about to unregister it.
Leaving(u) == \E h \in Handler : req[h].pc = "unregister" /\ u \in req[h].urls

\* Requests that have not overlapped are served one at a time.
Alone ==
    "overlap" \notin blame =>
        \A g, h \in Handler : req[g].pc # "idle" /\ req[h].pc # "idle" => g = h

\* A raw listener, current or cancelled, has been started.
Begun ==
    \A s \in Sock : cur[s] # "none" \/ stale[s].open \/ stale[s].starting > 0 => s \in started

\* As long as requests have not overlapped: the row that a handler is about to
\* register is there, and the sockets of every other row have been started.
Known ==
    "overlap" \notin blame =>
        /\ \A h \in Handler : req[h].pc = "register" =>
             LET u == <<req[h].body.host, req[h].next>>
             IN  u \in DOMAIN rows /\ rows[u].kind = req[h].body.kind
        /\ state # "refused" =>
             \A u \in DOMAIN rows : Pending(u) \/ Socks(u[2], rows[u].kind) \subseteq started

\* Only a listenServer has an HTTP socket or handlers.
Bound ==
    \A p \in Port : ~servers[p].there => http[p] = "none" /\ servers[p].hosts = {}

Inv0 == Typed /\ Stages /\ Configured /\ Alone /\ Begun /\ Known /\ Bound

-----------------------------------------------------------------------------
\* What NoSelfConflict needs.
Clean == blame \cap {"restart", "overlap"} = {}

Lone ==
    \A s \in Sock :
        /\ cur[s] # "none" => ~stale[s].open /\ stale[s].starting = 0
        /\ stale[s].open => stale[s].starting = 0
        /\ stale[s].starting <= 1

Apart == \A p \in Port : servers[p].there => <<"tcp", p>> \notin started

\* The ports a request has validated and not yet registered.
Validated(q) ==
    IF q.pc = "validate" THEN {p \in Port : q.body.first <= p /\ p < q.next}
                         ELSE {p \in Port : q.next <= p /\ p <= q.body.last}

\* No HTTP listener has come to a port since it was validated for TCP.
Vacant ==
    \A h \in Handler : req[h] \in Posting /\ isTCP(req[h].body.kind) =>
        \A p \in Validated(req[h]) : ~servers[p].there

\* An edit is of a route that was started.
EditsBegun ==
    \A h \in Handler : req[h] \in Editing =>
        Socks(req[h].url[2], req[h].row.kind) \subseteq started

CleanInv == Lone /\ Apart /\ Vacant /\ EditsBegun /\ state # "failed"

-----------------------------------------------------------------------------
\* What LiveMatchesRows and BootsAlone need.
Sound == blame \subseteq {"restart"}

\* A route of the admin panel shares its port with no UDP route, and a raw one
\* with no HTTP listener.
Unshared ==
    /\ \A u, v \in DOMAIN rows : u # v /\ u[2] = v[2] /\ rows[u].source = "ui" =>
          ~isUDP(rows[u].kind) /\ ~isUDP(rows[v].kind)
    /\ \A u \in DOMAIN rows : rows[u].source = "ui" /\ isRaw(rows[u].kind) =>
          ~servers[u[2]].there

\* The listeners serve the row u.
Serving(u) ==
    IF isRaw(rows[u].kind)
    THEN \A s \in Socks(u[2], rows[u].kind) : cur[s] # "none"
    ELSE /\ servers[u[2]].there /\ u[1] \in servers[u[2]].hosts
         /\ servers[u[2]].tls = rows[u].tls

Live == \A u \in DOMAIN rows : Pending(u) \/ Serving(u)

\* Raw listeners are there for a row, or for one that is leaving.
Owned ==
    \A s \in Sock : cur[s] # "none" =>
        \/ \E u \in DOMAIN rows : s \in Socks(u[2], rows[u].kind)
        \/ ~servers[s[2]].there /\ \E u \in Url : Leaving(u) /\ u[2] = s[2]

\* So are handlers.
Hosted ==
    \A p \in Port : \A x \in servers[p].hosts :
        \/ <<x, p>> \in DOMAIN rows /\ ~isRaw(rows[<<x, p>>].kind)
        \/ Leaving(<<x, p>>)

\* A row that is leaving is gone, and was alone if it was a raw one.
Departed ==
    \A u \in Url : Leaving(u) =>
        u \notin DOMAIN rows /\ (~servers[u[2]].there => RowsAt(rows, u[2]) = {})

\* What ValidateRoute said of a port still holds.
Checked ==
    \A h \in Handler : req[h] \in Posting =>
        \A p \in Validated(req[h]) : ValidateRoute(p, req[h].body.kind)

\* A row that is about to be registered can be.
Prepared ==
    \A h \in Handler : req[h].pc = "register" =>
        LET b == req[h].body
            u == <<b.host, req[h].next>>
        IN  /\ rows[u].tls = b.tls
            /\ ~isRaw(b.kind) =>
                 /\ servers[u[2]].there => servers[u[2]].tls = b.tls
                 /\ b.tls => CertFiles
                 /\ b.good

\* An edit is of a row that is still there.
Edited ==
    \A h \in Handler : req[h] \in Editing =>
        /\ req[h].url \in DOMAIN rows
        /\ rows[req[h].url].n = req[h].row.n
        /\ rows[req[h].url].kind = req[h].row.kind

SoundInv ==
    /\ Bootable(rows) /\ state # "refused"
    /\ Unshared /\ Live /\ Owned /\ Hosted /\ Departed /\ Checked /\ Prepared /\ Edited

Inv == Inv0 /\ (Clean => CleanInv) /\ (Sound => SoundInv)

-----------------------------------------------------------------------------
(* Requests                                                                *)

\* The pc of a request says what it carries.
LEMMA Kinds ==
    ASSUME NEW q \in Request
    PROVE  /\ q.pc \in {"validate", "create", "register"} <=> q \in Posting
           /\ q.pc = "rollback" <=> q \in Undoing
           /\ q.pc = "unregister" <=> q \in Removing
           /\ q.pc \in {"endpoint", "reregister"} <=> q \in Editing
           /\ q.pc = "idle" <=> q = Idle
BY DEF Request, Posting, Undoing, Removing, Editing, Idle

\* An idle request is a request.
LEMMA IdleOK == Idle \in Request /\ Stage(Idle) /\ Idle.pc = "idle"
BY DEF Idle, Request, Stage, Posting, Undoing, Editing

\* A handler goes on to the request q.
LEMMA Moves ==
    ASSUME Typed, Stages, NEW h \in Handler, NEW q \in Request, Stage(q),
           req' = [req EXCEPT ![h] = q]
    PROVE  /\ req' \in [Handler -> Request] /\ Stages'
           /\ req'[h] = q /\ \A g \in Handler \ {h} : req'[g] = req[g]
<1>1. /\ req' \in [Handler -> Request]
      /\ req'[h] = q /\ \A g \in Handler \ {h} : req'[g] = req[g]
  BY DEF Typed
<1>2. \A g \in Handler : Stage(req'[g])
  BY <1>1 DEF Stages
<1> QED BY <1>1, <1>2 DEF Stages

\* It was busy before, or nobody else is.
LEMMA MovesAlone ==
    ASSUME Typed, Alone, NEW h \in Handler, req[h].pc # "idle",
           \A g \in Handler \ {h} : req'[g] = req[g], blame \subseteq blame'
    PROVE  Alone'
BY DEF Alone

\* A request begins.
LEMMA BeginsAlone ==
    ASSUME Typed, Stages, Alone, NEW h \in Handler, NEW q \in Request, Stage(q), Begin(h, q)
    PROVE  /\ req' \in [Handler -> Request] /\ Stages' /\ Alone'
           /\ req'[h] = q /\ \A g \in Handler \ {h} : req'[g] = req[g]
           /\ req[h] = Idle
           /\ requests' \in Nat
           /\ blame \subseteq blame' /\ blame' \subseteq blame \cup {"overlap"}
           /\ "overlap" \notin blame' => \A g \in Handler \ {h} : req[g] = Idle
           /\ state = "up"
<1>1. /\ req' \in [Handler -> Request] /\ Stages'
      /\ req'[h] = q /\ \A g \in Handler \ {h} : req'[g] = req[g]
  BY Moves DEF Begin
<1>2. /\ blame \subseteq blame' /\ blame' \subseteq blame \cup {"overlap"}
      /\ "overlap" \notin blame' => \A g \in Handler \ {h} : req[g].pc = "idle"
      /\ req[h].pc = "idle" /\ state = "up" /\ requests' = requests + 1
  BY DEF Begin
<1>3. \A g \in Handler : req[g].pc = "idle" => req[g] = Idle
  BY Kinds DEF Typed
<1>4. requests' \in Nat
  BY <1>2 DEF Typed
<1>5. Alone'
  BY <1>1, <1>2 DEF Alone
<1> QED BY <1>1, <1>2, <1>3, <1>4, <1>5

\* Ports are numbers.
LEMMA PortNat == \A p \in Port : p \in Nat
BY RegistryAssumption

\* The bodies that HandleAdminRoutes works with.
LEMMA BodyOK ==
    ASSUME NEW b \in Posts
    PROVE  /\ [b EXCEPT !.tls = @ /\ ~isRaw(b.kind)] \in Body
           /\ [b EXCEPT !.tls = @ /\ ~isRaw(b.kind)].first = b.first
           /\ [b EXCEPT !.tls = @ /\ ~isRaw(b.kind)].last = b.last
           /\ b.first \in Port /\ b.last \in Port /\ b.first <= b.last
           /\ b.first .. b.last \subseteq Port
<1>1. b \in Body /\ b.first <= b.last /\ b.first .. b.last \subseteq Port
  BY RegistryAssumption DEF Body
<1>2. (b.tls /\ ~isRaw(b.kind)) \in BOOLEAN
  OBVIOUS
<1> QED BY <1>1, <1>2 DEF Body

-----------------------------------------------------------------------------
(* Listeners                                                               *)

\* Listeners that are cancelled go on as they were.
LEMMA Cancels ==
    ASSUME Typed, NEW S \in SUBSET Sock
    PROVE  /\ Cancelled(S) \in [Sock -> Stale]
           /\ \A s \in Sock : s \notin S \/ cur[s] = "none" => Cancelled(S)[s] = stale[s]
           /\ \A s \in S : cur[s] = "starting" =>
                Cancelled(S)[s] = [starting |-> stale[s].starting + 1, open |-> stale[s].open]
           /\ \A s \in S : cur[s] = "open" =>
                Cancelled(S)[s] = [starting |-> stale[s].starting, open |-> TRUE]
<1>1. \A s \in Sock : stale[s] \in Stale /\ cur[s] \in Phase
  BY DEF Typed
<1>2. \A s \in S : s \in Sock
  OBVIOUS
<1>3. \A s \in Sock : Cancelled(S)[s] =
        IF s \notin S THEN stale[s]
        ELSE [starting |-> stale[s].starting + (IF cur[s] = "starting" THEN 1 ELSE 0),
              open |-> stale[s].open \/ cur[s] = "open"]
  BY DEF Cancelled
<1>4. \A s \in Sock : Cancelled(S)[s] \in Stale
  <2> TAKE s \in Sock
  <2>1. (stale[s].open \/ cur[s] = "open") \in BOOLEAN
    OBVIOUS
  <2>2. stale[s].starting + (IF cur[s] = "starting" THEN 1 ELSE 0) \in Nat
    BY <1>1 DEF Stale
  <2>3. ASSUME NEW n \in Nat, NEW o \in BOOLEAN PROVE [starting |-> n, open |-> o] \in Stale
    BY DEF Stale
  <2>4. CASE s \in S
    <3>1. Cancelled(S)[s] = [starting |-> stale[s].starting + (IF cur[s] = "starting" THEN 1 ELSE 0),
                             open |-> stale[s].open \/ cur[s] = "open"]
      BY <1>3, <2>4
    <3> QED BY <3>1, <2>1, <2>2, <2>3, Zenon
  <2> QED BY <1>1, <1>3, <2>4
<1>5. Cancelled(S) = [s \in Sock |-> Cancelled(S)[s]]
  BY DEF Cancelled
<1>6. Cancelled(S) \in [Sock -> Stale]
  BY <1>4, <1>5
<1>7. ASSUME NEW s \in Sock, s \notin S \/ cur[s] = "none" PROVE Cancelled(S)[s] = stale[s]
  <2>1. CASE s \notin S
    BY <2>1, <1>3
  <2>2. CASE s \in S /\ cur[s] = "none"
    <3>1. Cancelled(S)[s] = [starting |-> stale[s].starting + 0,
                             open |-> stale[s].open \/ FALSE]
      BY <2>2, <1>3
    <3>2. stale[s].starting + 0 = stale[s].starting /\ (stale[s].open \/ FALSE) = stale[s].open
      BY <1>1 DEF Stale
    <3>3. stale[s] = [starting |-> stale[s].starting, open |-> stale[s].open]
      BY <1>1 DEF Stale
    <3> QED BY <3>1, <3>2, <3>3
  <2> QED BY <1>7, <2>1, <2>2
<1>8. ASSUME NEW s \in S, cur[s] = "starting"
      PROVE  Cancelled(S)[s] = [starting |-> stale[s].starting + 1, open |-> stale[s].open]
  <2>1. Cancelled(S)[s] = [starting |-> stale[s].starting + 1, open |-> stale[s].open \/ FALSE]
    BY <1>2, <1>3, <1>8
  <2>2. (stale[s].open \/ FALSE) = stale[s].open
    BY <1>1, <1>2 DEF Stale
  <2> QED BY <2>1, <2>2
<1>9. ASSUME NEW s \in S, cur[s] = "open"
      PROVE  Cancelled(S)[s] = [starting |-> stale[s].starting, open |-> TRUE]
  <2>1. Cancelled(S)[s] = [starting |-> stale[s].starting + 0, open |-> stale[s].open \/ TRUE]
    BY <1>2, <1>3, <1>9
  <2>2. (stale[s].open \/ TRUE) = TRUE /\ stale[s].starting + 0 = stale[s].starting
    BY <1>1, <1>2 DEF Stale
  <2> QED BY <2>1, <2>2
<1> QED BY <1>6, <1>7, <1>8, <1>9

\* What registering a raw route does.
LEMMA RegisterRawDoes ==
    ASSUME Typed, NEW p \in Port, NEW k \in Kind, RegisterRaw(p, k)
    PROVE  /\ servers' = servers /\ http' = http
           /\ cur' \in [Sock -> Phase]
           /\ stale' = Cancelled(Socks(p, k)) /\ stale' \in [Sock -> Stale]
           /\ \A s \in Socks(p, k) : cur'[s] = "starting"
           /\ \A s \in Sock \ Socks(p, k) : cur'[s] = cur[s] /\ stale'[s] = stale[s]
           /\ started' = started \cup Socks(p, k)
           /\ blame' = blame \cup (IF Socks(p, k) \cap started # {} THEN {"restart"} ELSE {})
<1>1. Socks(p, k) \in SUBSET Sock
  BY DEF Socks
<1>2. /\ stale' = Cancelled(Socks(p, k))
      /\ cur' = [s \in Sock |-> IF s \in Socks(p, k) THEN "starting" ELSE cur[s]]
      /\ started' = started \cup Socks(p, k)
      /\ blame' = blame \cup (IF Socks(p, k) \cap started # {} THEN {"restart"} ELSE {})
      /\ servers' = servers /\ http' = http
  BY DEF RegisterRaw, Socks
<1>3. cur' \in [Sock -> Phase]
  BY <1>2 DEF Typed, Phase
<1>4. /\ \A s \in Socks(p, k) : cur'[s] = "starting"
      /\ \A s \in Sock \ Socks(p, k) : cur'[s] = cur[s]
  BY <1>1, <1>2
<1>5. stale' \in [Sock -> Stale] /\ \A s \in Sock \ Socks(p, k) : stale'[s] = stale[s]
  BY <1>1, <1>2, Cancels
<1> QED BY <1>2, <1>3, <1>4, <1>5

\* What registering an HTTP route does: nothing, or it adds a listenServer
\* where there is none, and a handler if there can be one.
LEMMA RegisterHTTPDoes ==
    ASSUME Typed, NEW x \in Host, NEW p \in Port, NEW tls \in BOOLEAN, NEW good \in BOOLEAN,
           RegisterHTTP(x, p, tls, good)
    PROVE  /\ cur' = cur /\ stale' = stale /\ started' = started
           /\ servers' \in [Port -> ListenServer] /\ http' \in [Port -> Phase]
           /\ \A r \in Port \ {p} : servers'[r] = servers[r] /\ http'[r] = http[r]
           /\ \/ /\ ~servers[p].there /\ servers' = servers /\ http' = http
                 /\ cur[<<"tcp", p>>] # "none" \/ (tls /\ ~CertFiles)
              \/ /\ servers[p].there => servers'[p].tls = servers[p].tls /\ http' = http
                 /\ ~servers[p].there => servers'[p].tls = tls
                 /\ servers'[p].there
                 /\ servers'[p].hosts = (IF servers[p].there THEN servers[p].hosts ELSE {})
                                        \cup (IF good THEN {x} ELSE {})
           /\ blame \subseteq blame' /\ blame' \subseteq blame \cup {"restart"}
           /\ "restart" \notin blame' /\ ~servers[p].there => <<"tcp", p>> \notin started
<1> DEFINE new == ~servers[p].there
           ls == IF new THEN [there |-> TRUE, tls |-> tls, hosts |-> {}] ELSE servers[p]
           full == [ls EXCEPT !.hosts = @ \cup {x}]
<1>1. servers[p] \in ListenServer /\ http \in [Port -> Phase]
  BY DEF Typed
<1>2. ls \in ListenServer /\ ls.there
  BY <1>1 DEF ListenServer
<1>3. /\ full \in ListenServer /\ full.there /\ full.tls = ls.tls
      /\ full.hosts = ls.hosts \cup {x}
  <2> HIDE DEF ls
  <2> QED BY <1>2 DEF ListenServer
<1>4. /\ blame' = blame \cup (IF new /\ <<"tcp", p>> \in started THEN {"restart"} ELSE {})
      /\ cur' = cur /\ stale' = stale /\ started' = started
  BY DEF RegisterHTTP
<1>5. CASE new /\ (cur[<<"tcp", p>>] # "none" \/ (tls /\ ~CertFiles))
  <2>1. servers' = servers /\ http' = http
    BY <1>5 DEF RegisterHTTP
  <2> QED BY <2>1, <1>4, <1>5 DEF Typed
<1>6. CASE ~(new /\ (cur[<<"tcp", p>>] # "none" \/ (tls /\ ~CertFiles)))
  <2>1. /\ servers' = [servers EXCEPT ![p] = IF good THEN full ELSE ls]
        /\ http' = IF new THEN [http EXCEPT ![p] = "starting"] ELSE http
    BY <1>6 DEF RegisterHTTP
  <2>2. servers' \in [Port -> ListenServer] /\ servers'[p] = (IF good THEN full ELSE ls)
    <3> HIDE DEF full, ls
    <3> QED BY <2>1, <1>2, <1>3 DEF Typed
  <2>3. http' \in [Port -> Phase] /\ (~new => http' = http)
    BY <2>1, <1>1 DEF Phase
  <2>4. \A r \in Port \ {p} : servers'[r] = servers[r] /\ http'[r] = http[r]
    <3> HIDE DEF full, ls
    <3> QED BY <2>1, <1>1 DEF Typed
  <2>5. /\ servers'[p].there
        /\ servers'[p].tls = ls.tls
        /\ servers'[p].hosts = ls.hosts \cup (IF good THEN {x} ELSE {})
    <3> HIDE DEF full, ls
    <3> QED BY <2>2, <1>2, <1>3
  <2>6. /\ new => ls.tls = tls /\ ls.hosts = {}
        /\ ~new => ls.tls = servers[p].tls /\ ls.hosts = servers[p].hosts
    OBVIOUS
  <2> HIDE DEF ls, full
  <2> QED BY <2>2, <2>3, <2>4, <2>5, <2>6, <1>4
<1> QED BY <1>5, <1>6

\* What unregistering does.
LEMMA UnregisterDoes ==
    ASSUME Typed, NEW x \in Host, NEW p \in Port, UnregisterRoute(x, p)
    PROVE  LET S == {s \in Sock : s[2] = p}
           IN  IF servers[p].there
               THEN /\ cur' = cur /\ stale' = stale
                    /\ servers' \in [Port -> ListenServer]
                    /\ \A r \in Port \ {p} : servers'[r] = servers[r]
                    /\ servers'[p].there /\ servers'[p].tls = servers[p].tls
                    /\ servers'[p].hosts = servers[p].hosts \ {x}
               ELSE /\ servers' = servers
                    /\ cur' \in [Sock -> Phase]
                    /\ stale' = Cancelled(S) /\ stale' \in [Sock -> Stale]
                    /\ \A s \in S : cur'[s] = "none"
                    /\ \A s \in Sock \ S : cur'[s] = cur[s] /\ stale'[s] = stale[s]
<1>1. servers[p] \in ListenServer
  BY DEF Typed
<1>2. CASE servers[p].there
  <2>1. servers' = [servers EXCEPT ![p].hosts = @ \ {x}] /\ cur' = cur /\ stale' = stale
    BY <1>2 DEF UnregisterRoute
  <2>2. [servers[p] EXCEPT !.hosts = @ \ {x}] \in ListenServer
    BY <1>1 DEF ListenServer
  <2>3. servers' \in [Port -> ListenServer]
    BY <2>1, <2>2 DEF Typed
  <2>4. servers'[p] = [servers[p] EXCEPT !.hosts = @ \ {x}]
    BY <2>1 DEF Typed
  <2>5. \A r \in Port \ {p} : servers'[r] = servers[r]
    BY <2>1 DEF Typed
  <2> QED BY <1>1, <1>2, <2>1, <2>3, <2>4, <2>5 DEF ListenServer
<1>3. CASE ~servers[p].there
  <2> DEFINE S == {s \in Sock : s[2] = p}
  <2>1. /\ servers' = servers
        /\ stale' = Cancelled(S)
        /\ cur' = [s \in Sock |-> IF s \in S THEN "none" ELSE cur[s]]
    BY <1>3 DEF UnregisterRoute
  <2>2. S \in SUBSET Sock
    OBVIOUS
  <2> HIDE DEF S
  <2>3. cur' \in [Sock -> Phase]
    BY <2>1 DEF Typed, Phase
  <2>4. \A s \in S : cur'[s] = "none"
    BY <2>1, <2>2
  <2>5. \A s \in Sock \ S : cur'[s] = cur[s]
    BY <2>1
  <2>6. stale' \in [Sock -> Stale] /\ \A s \in Sock \ S : stale'[s] = stale[s]
    BY <2>1, <2>2, Cancels
  <2> USE DEF S
  <2> QED BY <1>3, <2>1, <2>3, <2>4, <2>5, <2>6
<1> QED BY <1>2, <1>3

-----------------------------------------------------------------------------
(* Inv0, step by step                                                      *)

\* What the steps of the sockets leave as it was.
Sockets ==
    /\ UNCHANGED live
    /\ \A s \in Sock : cur'[s] = "none" <=> cur[s] = "none"
    /\ \A p \in Port : http'[p] = "none" <=> http[p] = "none"
    /\ state' = "refused" <=> state = "refused"

\* A socket that opens keeps the tables of listeners well typed ...
LEMMA ListenTyped ==
    ASSUME Typed, Begun, NEW s \in Sock, Listen(s)
    PROVE  Typed' /\ Sockets /\ Begun'
<1>1. /\ UNCHANGED <<rows, servers, req, requests, started, blame, http, stale>>
      /\ cur[s] = "starting" /\ state = "up" /\ state' \in {"up", "failed"}
      /\ cur' = cur \/ cur' = [cur EXCEPT ![s] = "open"]
  BY DEF Listen, live
<1>2. cur' \in [Sock -> Phase]
  BY <1>1 DEF Typed, Phase
<1>3. \A t \in Sock : cur'[t] = "none" <=> cur[t] = "none"
  BY <1>1 DEF Typed
<1> QED BY <1>1, <1>2, <1>3 DEF Typed, Sockets, live, Begun

\* ... and so does one that its owner has given up meanwhile ...
LEMMA ListenStaleTyped ==
    ASSUME Typed, Begun, NEW s \in Sock, ListenStale(s)
    PROVE  Typed' /\ Sockets /\ Begun'
<1>1. /\ UNCHANGED <<rows, servers, req, requests, started, blame, http, cur>>
      /\ stale[s].starting > 0 /\ state = "up" /\ state' \in {"up", "failed"}
      /\ \/ stale' = [stale EXCEPT ![s].starting = @ - 1]
         \/ stale' = [stale EXCEPT ![s] = [starting |-> @.starting - 1, open |-> TRUE]]
  BY DEF ListenStale, live
<1>2. stale[s] \in Stale /\ stale[s].starting - 1 \in Nat
  BY <1>1 DEF Typed, Stale
<1>3. /\ [stale[s] EXCEPT !.starting = @ - 1] \in Stale
      /\ [starting |-> stale[s].starting - 1, open |-> TRUE] \in Stale
  BY <1>2 DEF Stale
<1>4. stale' \in [Sock -> Stale]
  BY <1>1, <1>3 DEF Typed
<1>5. \A t \in Sock \ {s} : stale'[t] = stale[t]
  BY <1>1 DEF Typed
<1>6. s \in started
  BY <1>1 DEF Begun
<1>7. Begun'
  BY <1>1, <1>5, <1>6 DEF Begun
<1> QED BY <1>1, <1>4, <1>7 DEF Typed, Sockets, live

\* ... the end of a cancelled listener ...
LEMMA CloseStaleTyped ==
    ASSUME Typed, Begun, NEW s \in Sock, CloseStale(s)
    PROVE  Typed' /\ Sockets /\ Begun'
<1>1. /\ UNCHANGED <<rows, servers, req, requests, started, blame, http, cur, state>>
      /\ stale[s].open /\ stale' = [stale EXCEPT ![s].open = FALSE]
  BY DEF CloseStale, live
<1>2. stale[s] \in Stale
  BY DEF Typed
<1>3. [stale[s] EXCEPT !.open = FALSE] \in Stale
  BY <1>2 DEF Stale
<1>4. stale' \in [Sock -> Stale]
  BY <1>1, <1>3 DEF Typed
<1>5. \A t \in Sock \ {s} : stale'[t] = stale[t]
  BY <1>1 DEF Typed
<1>6. s \in started
  BY <1>1 DEF Begun
<1>7. Begun'
  BY <1>1, <1>5, <1>6 DEF Begun
<1> QED BY <1>1, <1>4, <1>7 DEF Typed, Sockets, live

\* ... and the start of an HTTP server.
LEMMA ServeHTTPTyped ==
    ASSUME Typed, Begun, NEW p \in Port, ServeHTTP(p)
    PROVE  Typed' /\ Sockets /\ Begun'
<1>1. /\ UNCHANGED <<rows, servers, req, requests, started, blame, cur, stale>>
      /\ http[p] = "starting" /\ state = "up" /\ state' \in {"up", "failed"}
      /\ http' = http \/ http' = [http EXCEPT ![p] = "open"]
  BY DEF ServeHTTP, live
<1>2. http' \in [Port -> Phase]
  BY <1>1 DEF Typed, Phase
<1>3. \A t \in Port : http'[t] = "none" <=> http[t] = "none"
  BY <1>1 DEF Typed
<1> QED BY <1>1, <1>2, <1>3 DEF Typed, Sockets, live, Begun

\* The sockets keep Inv0.
LEMMA SocketsInv0 ==
    ASSUME Inv0, Typed', Sockets, Begun'
    PROVE  Inv0'
<1>1. UNCHANGED <<rows, servers, req, requests, started, blame>>
  BY DEF Sockets, live
<1>2. Stages' /\ Configured' /\ Alone'
  BY <1>1 DEF Inv0, Stages, Configured, Alone
<1>3. Known'
  BY <1>1 DEF Inv0, Known, Pending, Sockets
<1>4. Bound'
  BY <1>1 DEF Inv0, Bound, Sockets
<1> QED BY <1>2, <1>3, <1>4 DEF Inv0

Blames == {"restart", "overlap", "shared", "tls", "target"}

\* A request begins, and may delete rows.
LEMMA BeginsInv0 ==
    ASSUME Inv0, NEW h \in Handler, NEW q \in Request, Stage(q), q.pc # "register",
           Begin(h, q), UNCHANGED <<servers, http, cur, stale, state, started>>,
           DOMAIN rows' \subseteq DOMAIN rows, DOMAIN Config \subseteq DOMAIN rows',
           \A u \in DOMAIN rows' : rows'[u] = rows[u]
    PROVE  Inv0'
<1> USE DEF Inv0
<1>1. /\ req' \in [Handler -> Request] /\ Stages' /\ Alone'
      /\ req'[h] = q /\ \A g \in Handler \ {h} : req'[g] = req[g]
      /\ req[h] = Idle
      /\ requests' \in Nat
      /\ blame \subseteq blame' /\ blame' \subseteq blame \cup {"overlap"}
      /\ "overlap" \notin blame' => \A g \in Handler \ {h} : req[g] = Idle
  BY BeginsAlone
<1>2. Typed'
  BY <1>1 DEF Typed
<1>3. Configured'
  BY DEF Configured
<1>4. Begun' /\ Bound'
  BY DEF Begun, Bound
<1>5. Known'
  <2> SUFFICES ASSUME "overlap" \notin blame' PROVE Known'
    BY DEF Known
  <2>1. \A g \in Handler : req[g].pc # "register" /\ req'[g].pc # "register"
    BY <1>1, IdleOK
  <2>2. \A u \in DOMAIN rows : ~Pending(u)
    BY <2>1 DEF Pending
  <2>3. "overlap" \notin blame
    BY <1>1
  <2> QED BY <2>1, <2>2, <2>3 DEF Known
<1> QED BY <1>1, <1>2, <1>3, <1>4, <1>5

\* A handler that is not registering goes on to a step that is not either.
LEMMA GoesInv0 ==
    ASSUME Inv0, NEW h \in Handler, NEW q \in Request, Stage(q), Goto(h, q),
           req[h].pc # "idle", req[h].pc # "register", q.pc # "register",
           UNCHANGED <<servers, http, cur, stale, state, requests, started>>,
           blame \subseteq blame', blame' \subseteq Blames,
           DOMAIN rows' \subseteq DOMAIN rows,
           \A u \in DOMAIN rows' : rows'[u] \in Row /\ rows'[u].kind = rows[u].kind,
           Configured'
    PROVE  Inv0'
<1> USE DEF Inv0
<1>1. /\ req' \in [Handler -> Request] /\ Stages'
      /\ req'[h] = q /\ \A g \in Handler \ {h} : req'[g] = req[g]
  BY Moves DEF Goto
<1>2. Alone'
  BY <1>1, MovesAlone
<1>3. Typed'
  BY <1>1 DEF Typed, Blames
<1>4. Begun' /\ Bound'
  BY DEF Begun, Bound
<1>5. Known'
  <2> SUFFICES ASSUME "overlap" \notin blame' PROVE Known'
    BY DEF Known
  <2>1. \A g \in Handler : req[g].pc # "register" /\ req'[g].pc # "register"
    BY <1>1 DEF Alone
  <2>2. \A u \in DOMAIN rows : ~Pending(u)
    BY <2>1 DEF Pending
  <2> QED BY <2>1, <2>2 DEF Known
<1> QED BY <1>1, <1>2, <1>3, <1>4, <1>5

\* A new POST has written nothing yet.
LEMMA PostInv0 ==
    ASSUME Inv0, NEW h \in Handler, NEW b \in Posts, Post(h, b)
    PROVE  Inv0'
<1> DEFINE body == [b EXCEPT !.tls = @ /\ ~isRaw(b.kind)]
<1>1. /\ body \in Body /\ body.first = b.first /\ body.last = b.last
      /\ b.first \in Port /\ b.last \in Port /\ b.first <= b.last
      /\ b.first .. b.last \subseteq Port
  BY BodyOK
<1> HIDE DEF body
<1> DEFINE q == [pc |-> "validate", next |-> b.first, n |-> requests + 1, body |-> body]
<1>2. Begin(h, q) /\ UNCHANGED <<rows, servers, http, cur, stale, state, started>>
  BY DEF Post, body
<1>3. requests + 1 \in Nat /\ requests + 1 > 0 /\ b.first \in Nat
  <2>1. requests \in Nat /\ b.first \in Nat
    BY <1>1, PortNat DEF Inv0, Typed
  <2> QED BY <2>1
<1>4. q \in Posting
  BY <1>1, <1>3 DEF Posting
<1>5. Stage(q)
  BY <1>1, <1>3 DEF Stage, Undoing, Editing
<1>6. q.pc # "register" /\ q \in Request
  BY <1>4 DEF Request
<1> HIDE DEF q
<1>7. DOMAIN Config \subseteq DOMAIN rows'
  BY <1>2 DEF Inv0, Configured
<1> QED BY <1>2, <1>5, <1>6, <1>7, BeginsInv0

\* A deletion takes away the rows of a route or of a range.
LEMMA DeleteInv0 ==
    ASSUME Inv0, NEW h \in Handler, NEW u, NEW U \in SUBSET DOMAIN rows, Delete(h, u, U),
           U \cap DOMAIN Config = {}
    PROVE  Inv0'
<1> DEFINE q == [pc |-> "unregister", urls |-> U]
<1>1. Begin(h, q) /\ UNCHANGED <<servers, http, cur, stale, state, started>>
  BY DEF Delete
<1>2. rows' = [v \in DOMAIN rows \ U |-> rows[v]]
  BY DEF Delete
<1>3. q \in Request /\ Stage(q) /\ q.pc # "register"
  BY DEF Request, Removing, Stage, Posting, Undoing, Editing, Inv0, Typed
<1>4. /\ DOMAIN rows' \subseteq DOMAIN rows /\ DOMAIN Config \subseteq DOMAIN rows'
      /\ \A v \in DOMAIN rows' : rows'[v] = rows[v]
  BY <1>2 DEF Inv0, Configured
<1> HIDE DEF q
<1> QED BY <1>1, <1>3, <1>4, BeginsInv0

\* Rows made in the admin panel are told from the configured ones by n.
LEMMA UiRow ==
    ASSUME Typed, Configured, NEW u \in DOMAIN rows
    PROVE  /\ rows[u].source = "ui" <=> u \notin DOMAIN Config
           /\ rows[u].n > 0 <=> u \notin DOMAIN Config
           /\ rows[u].n \in Nat
<1>1. CASE u \in DOMAIN Config
  <2>1. rows[u] = Config[u] /\ Config[u].source = "config" /\ Config[u].n = 0
    BY <1>1, RegistryAssumption DEF Configured
  <2> QED BY <1>1, <2>1
<1>2. CASE u \notin DOMAIN Config
  BY <1>2 DEF Configured, Typed, Row
<1> QED BY <1>1, <1>2

\* HandleAdminUpdateRoute has looked up a row that is there.
LEMMA PutInv0 ==
    ASSUME Inv0, NEW h \in Handler, NEW u \in DOMAIN rows, NEW good \in BOOLEAN, Put(h, u, good)
    PROVE  Inv0'
<1>1. PICK r : r = [rows[u] EXCEPT !.good = good]
  OBVIOUS
<1>2. r \in Row /\ r.n = rows[u].n /\ r.source = rows[u].source
  BY <1>1 DEF Inv0, Typed, Row
<1>3. PICK q : q = [pc |-> "endpoint", url |-> u, row |-> r]
  OBVIOUS
<1>4. Begin(h, q) /\ UNCHANGED <<rows, servers, http, cur, stale, state, started>>
  BY <1>1, <1>3 DEF Put
<1>5. r.source = "ui" /\ r.n > 0
  BY <1>2, UiRow DEF Put, Inv0
<1>6. q \in Editing /\ q.pc = "endpoint" /\ q.row = r
  BY <1>2, <1>3 DEF Editing, Inv0, Typed
<1>7. q \in Request /\ Stage(q)
  BY <1>5, <1>6 DEF Request, Stage, Posting, Undoing
<1>8. DOMAIN Config \subseteq DOMAIN rows'
  BY <1>4 DEF Inv0, Configured
<1> QED BY <1>4, <1>6, <1>7, <1>8, BeginsInv0

\* A posting request changes its step and its port.
LEMMA PostingMoves ==
    ASSUME NEW q \in Posting, Stage(q), NEW c \in {"validate", "create", "register"},
           NEW x \in Nat, q.body.first <= x, x <= q.body.last,
           NEW z, z = [pc |-> c, next |-> x, n |-> q.n, body |-> q.body]
    PROVE  /\ z \in Posting /\ z \in Request /\ Stage(z)
           /\ z.pc = c /\ z.next = x /\ z.body = q.body /\ z.n = q.n
<1>1. q.body \in Body /\ q.body.first \in Nat /\ q.body.last \in Nat
  BY PortNat DEF Posting, Body
<1>2. x \in q.body.first .. q.body.last
  BY <1>1
<1>3. x \in Port
  BY <1>2 DEF Stage
<1>4. z \in Posting /\ z.pc = c /\ z.next = x /\ z.body = q.body /\ z.n = q.n
  BY <1>3 DEF Posting
<1>5. Stage(z)
  BY <1>4 DEF Stage, Undoing, Editing
<1> QED BY <1>4, <1>5 DEF Request

\* What Validate says of a request, and where it goes.
LEMMA ValidateDoes ==
    ASSUME Inv0, NEW h \in Handler, Validate(h)
    PROVE  \E z \in Request :
             /\ Stage(z) /\ Goto(h, z) /\ z.pc # "register"
             /\ req[h] \in Posting /\ req[h].pc = "validate"
             /\ \/ z = Idle
                \/ /\ ValidateRoute(req[h].next, req[h].body.kind)
                   /\ z \in Posting /\ z.body = req[h].body /\ z.n = req[h].n
                   /\ \/ z.pc = "validate" /\ z.next = req[h].next + 1
                      \/ /\ z.pc = "create" /\ z.next = req[h].body.first
                         /\ req[h].next = req[h].body.last
<1>1. PICK q : q = req[h]
  OBVIOUS
<1>2. q \in Request /\ q.pc = "validate" /\ Stage(q)
  BY <1>1 DEF Inv0, Typed, Stages, Validate
<1>3. q \in Posting
  BY <1>2, Kinds
<1>4. /\ q.body.first <= q.next /\ q.next <= q.body.last
      /\ q.body.first \in Nat /\ q.body.last \in Nat /\ q.next \in Nat
  BY <1>2, <1>3, PortNat DEF Stage, Posting, Body
<1> DEFINE ok == ValidateRoute(q.next, q.body.kind)
<1>5. CASE ~ok
  <2>1. Goto(h, Idle)
    BY <1>1, <1>5 DEF Validate
  <2> QED BY <2>1, <1>1, <1>2, <1>3, IdleOK
<1>6. CASE ok /\ q.next < q.body.last
  <2>1. PICK z : z = [q EXCEPT !.next = q.next + 1]
    OBVIOUS
  <2>2. Goto(h, z)
    BY <2>1, <1>1, <1>6 DEF Validate
  <2>3. z = [pc |-> "validate", next |-> q.next + 1, n |-> q.n, body |-> q.body]
    BY <2>1, <1>2, <1>3 DEF Posting
  <2>4. q.body.first <= q.next + 1 /\ q.next + 1 <= q.body.last /\ q.next + 1 \in Nat
    BY <1>4, <1>6
  <2>5. /\ z \in Posting /\ z \in Request /\ Stage(z)
        /\ z.pc = "validate" /\ z.next = q.next + 1 /\ z.body = q.body /\ z.n = q.n
    BY <2>3, <2>4, <1>2, <1>3, PostingMoves
  <2> QED BY <2>2, <2>5, <1>1, <1>2, <1>3, <1>6
<1>7. CASE ok /\ ~(q.next < q.body.last)
  <2>1. PICK z : z = [q EXCEPT !.pc = "create", !.next = q.body.first]
    OBVIOUS
  <2>2. Goto(h, z)
    BY <2>1, <1>1, <1>7 DEF Validate
  <2>3. /\ q.body.first <= q.body.last /\ q.next = q.body.last
        /\ z = [pc |-> "create", next |-> q.body.first, n |-> q.n, body |-> q.body]
    <3>1. q.body.first <= q.body.last /\ q.next = q.body.last
      BY <1>4, <1>7
    <3>2. z = [pc |-> "create", next |-> q.body.first, n |-> q.n, body |-> q.body]
      BY <1>3, <2>1 DEF Posting
    <3> QED BY <3>1, <3>2
  <2>4. /\ z \in Posting /\ z \in Request /\ Stage(z)
        /\ z.pc = "create" /\ z.next = q.body.first /\ z.body = q.body /\ z.n = q.n
    BY <2>3, <1>2, <1>3, <1>4, PostingMoves
  <2> QED BY <2>2, <2>3, <2>4, <1>1, <1>2, <1>3, <1>7
<1> QED BY <1>5, <1>6, <1>7

\* ValidateRoute only decides where a POST goes on.
LEMMA ValidateInv0 ==
    ASSUME Inv0, NEW h \in Handler, Validate(h)
    PROVE  Inv0'
<1>1. PICK z \in Request : Stage(z) /\ Goto(h, z) /\ z.pc # "register" /\ req[h].pc = "validate"
  BY ValidateDoes
<1>2. UNCHANGED <<rows, servers, http, cur, stale, state, requests, started, blame>>
  BY DEF Validate
<1>3. Configured'
  BY <1>2 DEF Inv0, Configured
<1>4. blame' \subseteq Blames
  BY <1>2 DEF Inv0, Typed, Blames
<1>5. \A u \in DOMAIN rows' : rows'[u] \in Row /\ rows'[u].kind = rows[u].kind
  BY <1>2 DEF Inv0, Typed
<1> QED BY <1>1, <1>2, <1>3, <1>4, <1>5, GoesInv0

\* The row that CreateRoute stores for a request.
NewRow(q) == [kind |-> q.body.kind, tls |-> q.body.tls, good |-> q.body.good,
              source |-> "ui", n |-> q.n, range |-> q.body.first < q.body.last]

\* The row that CreateRoute inserts is well formed.
LEMMA NewRowOK ==
    ASSUME NEW q \in Posting, Stage(q)
    PROVE  /\ NewRow(q) \in Row /\ NewRow(q).n = q.n /\ q.n > 0
           /\ NewRow(q).kind = q.body.kind /\ NewRow(q).tls = q.body.tls
           /\ NewRow(q).good = q.body.good /\ NewRow(q).source = "ui"
           /\ <<q.body.host, q.next>> \in Url /\ q.body.kind \in Kind
<1>1. q.body \in Body /\ q.n \in Nat /\ q.n > 0
  BY DEF Posting, Stage
<1>2. (q.body.first < q.body.last) \in BOOLEAN
  OBVIOUS
<1>3. PICK o : o = (q.body.first < q.body.last)
  OBVIOUS
<1>4. NewRow(q) \in Row
  BY <1>1, <1>2, <1>3 DEF NewRow, Row, Body
<1> QED BY <1>1, <1>4 DEF NewRow, Url, Body, Posting

\* What CreateRoute does.
LEMMA CreateDoes ==
    ASSUME Inv0, NEW h \in Handler, CreateRoute(h)
    PROVE  LET u == <<req[h].body.host, req[h].next>>
           IN  /\ req[h] \in Posting /\ req[h].pc = "create"
               /\ UNCHANGED <<servers, http, cur, stale, state, requests, started>>
               /\ \/ /\ u \notin DOMAIN rows
                     /\ rows' = [v \in DOMAIN rows \cup {u} |->
                                   IF v = u THEN NewRow(req[h]) ELSE rows[v]]
                     /\ blame' = blame \cup Mistakes(u, NewRow(req[h]))
                     /\ \E z \in Request :
                          /\ Stage(z) /\ Goto(h, z) /\ z \in Posting /\ z.pc = "register"
                          /\ z.next = req[h].next /\ z.body = req[h].body /\ z.n = req[h].n
                  \/ /\ UNCHANGED <<rows, blame>>
                     /\ \E z \in Request :
                          Stage(z) /\ Goto(h, z) /\ (z = Idle \/ z \in Undoing)
<1>1. PICK q : q = req[h]
  OBVIOUS
<1>2. q \in Request /\ q.pc = "create" /\ Stage(q)
  BY <1>1 DEF Inv0, Typed, Stages, CreateRoute
<1>3. q \in Posting
  BY <1>2, Kinds
<1>4. /\ q.body.first <= q.next /\ q.next <= q.body.last
      /\ q.next \in Nat /\ q.n \in Nat /\ q.n > 0
  BY <1>2, <1>3, PortNat DEF Stage, Posting, Body
<1>5. PICK u : u = <<q.body.host, q.next>>
  OBVIOUS
<1>6. UNCHANGED <<servers, http, cur, stale, state, requests, started>>
  BY DEF CreateRoute
<1>7. CASE u \notin DOMAIN rows
  <2>1. PICK z : z = [q EXCEPT !.pc = "register"]
    OBVIOUS
  <2>2. /\ rows' = [v \in DOMAIN rows \cup {u} |-> IF v = u THEN NewRow(q) ELSE rows[v]]
        /\ blame' = blame \cup Mistakes(u, NewRow(q))
        /\ Goto(h, z)
    BY <1>1, <1>5, <1>7, <2>1 DEF CreateRoute, NewRow
  <2>3. z = [pc |-> "register", next |-> q.next, n |-> q.n, body |-> q.body]
    BY <2>1, <1>3 DEF Posting
  <2>4. /\ z \in Posting /\ z \in Request /\ Stage(z)
        /\ z.pc = "register" /\ z.next = q.next /\ z.body = q.body /\ z.n = q.n
    BY <2>3, <1>2, <1>3, <1>4, PostingMoves
  <2> QED BY <2>2, <2>4, <1>1, <1>2, <1>3, <1>5, <1>6, <1>7
<1>8. CASE u \in DOMAIN rows
  <2>1. PICK y : y = [pc |-> "rollback", n |-> q.n]
    OBVIOUS
  <2>2. y \in Undoing /\ y \in Request /\ Stage(y)
    BY <2>1, <1>4 DEF Undoing, Request, Stage, Posting, Editing
  <2>3. (Goto(h, y) \/ Goto(h, Idle)) /\ UNCHANGED <<rows, blame>>
    BY <1>1, <1>5, <1>8, <2>1 DEF CreateRoute
  <2>4. \E z \in Request : Stage(z) /\ Goto(h, z) /\ (z = Idle \/ z \in Undoing)
    BY <2>2, <2>3, IdleOK
  <2> QED BY <2>3, <2>4, <1>1, <1>2, <1>3, <1>6
<1> QED BY <1>7, <1>8

\* CreateRoute adds the row, and nothing else.
LEMMA CreateRouteInv0 ==
    ASSUME Inv0, NEW h \in Handler, CreateRoute(h)
    PROVE  Inv0'
<1> USE DEF Inv0
<1>1. PICK q : q = req[h]
  OBVIOUS
<1>2. PICK u : u = <<q.body.host, q.next>>
  OBVIOUS
<1>3. /\ q \in Posting /\ q.pc = "create" /\ Stage(q)
      /\ UNCHANGED <<servers, http, cur, stale, state, requests, started>>
  BY <1>1, CreateDoes DEF Stages
<1>4. CASE UNCHANGED <<rows, blame>>
           /\ \E z \in Request : Stage(z) /\ Goto(h, z) /\ (z = Idle \/ z \in Undoing)
  <2>1. PICK z \in Request : Stage(z) /\ Goto(h, z) /\ (z = Idle \/ z \in Undoing)
    BY <1>4
  <2>2. z.pc # "register"
    BY <2>1, IdleOK DEF Undoing
  <2>3. Configured' /\ blame' \subseteq Blames
    BY <1>4 DEF Configured, Typed, Blames
  <2>4. \A v \in DOMAIN rows' : rows'[v] \in Row /\ rows'[v].kind = rows[v].kind
    BY <1>4 DEF Typed
  <2> QED BY <1>1, <1>3, <1>4, <2>1, <2>2, <2>3, <2>4, GoesInv0
<1>5. CASE /\ u \notin DOMAIN rows
           /\ rows' = [v \in DOMAIN rows \cup {u} |-> IF v = u THEN NewRow(q) ELSE rows[v]]
           /\ blame' = blame \cup Mistakes(u, NewRow(q))
           /\ \E z \in Request : /\ Stage(z) /\ Goto(h, z) /\ z \in Posting /\ z.pc = "register"
                                 /\ z.next = q.next /\ z.body = q.body
  <2>1. PICK z \in Request : /\ Stage(z) /\ Goto(h, z) /\ z.pc = "register"
                             /\ z.next = q.next /\ z.body = q.body
    BY <1>5
  <2>2. /\ req' \in [Handler -> Request] /\ Stages'
        /\ req'[h] = z /\ \A g \in Handler \ {h} : req'[g] = req[g]
    BY <2>1, Moves DEF Goto
  <2>3. blame \subseteq blame' /\ blame' \subseteq blame \cup {"shared", "tls", "target"}
    BY <1>5 DEF Mistakes
  <2>4. Alone'
    BY <2>2, <2>3, <1>1, <1>3, MovesAlone
  <2>5. /\ NewRow(q) \in Row /\ NewRow(q).n > 0 /\ NewRow(q).source = "ui"
        /\ NewRow(q).kind = q.body.kind /\ u \in Url
    BY <1>2, <1>3, NewRowOK
  <2>6. /\ DOMAIN rows' = DOMAIN rows \cup {u} /\ rows'[u] = NewRow(q)
        /\ \A v \in DOMAIN rows : rows'[v] = rows[v]
    BY <1>5
  <2>7. Typed'
    BY <2>2, <2>3, <2>5, <2>6, <1>3 DEF Typed
  <2>8. Configured'
    BY <2>5, <2>6, <1>5 DEF Configured
  <2>9. Begun' /\ Bound'
    BY <1>3 DEF Begun, Bound
  <2>10. Known'
    <3> SUFFICES ASSUME "overlap" \notin blame' PROVE Known'
      BY DEF Known
    <3>1. \A g \in Handler : req[g].pc # "register" /\ (req'[g].pc = "register" => g = h)
      BY <2>2, <2>3, <1>1, <1>3 DEF Alone
    <3>2. \A v \in DOMAIN rows : ~Pending(v)
      BY <3>1 DEF Pending
    <3>3. Pending(u)'
      BY <2>1, <2>2, <1>2 DEF Pending
    <3>4. \A g \in Handler : req'[g].pc = "register" =>
            LET v == <<req'[g].body.host, req'[g].next>>
            IN  v \in DOMAIN rows' /\ rows'[v].kind = req'[g].body.kind
      BY <3>1, <2>1, <2>2, <2>5, <2>6, <1>2
    <3>5. state # "refused" =>
            \A v \in DOMAIN rows : Socks(v[2], rows[v].kind) \subseteq started
      BY <3>2, <2>3 DEF Known
    <3>6. state' # "refused" => \A v \in DOMAIN rows' :
             Pending(v)' \/ Socks(v[2], rows'[v].kind) \subseteq started'
      BY <3>3, <3>5, <2>6, <1>3
    <3> QED BY <3>4, <3>6 DEF Known
  <2> QED BY <2>2, <2>4, <2>7, <2>8, <2>9, <2>10
<1> QED BY <1>1, <1>2, <1>4, <1>5, CreateDoes

\* A raw route has sockets on its port only, an HTTP one none.
LEMMA SocksOf ==
    ASSUME NEW p \in Port, NEW k \in Kind
    PROVE  /\ Socks(p, k) \subseteq Sock
           /\ \A s \in Socks(p, k) : s[2] = p
           /\ ~isRaw(k) <=> Socks(p, k) = {}
           /\ <<"tcp", p>> \in Sock /\ <<"udp", p>> \in Sock
           /\ <<"tcp", p>> \in Socks(p, k) <=> isTCP(k)
           /\ <<"udp", p>> \in Socks(p, k) <=> isUDP(k)
           /\ Socks(p, k) \subseteq {<<"tcp", p>>, <<"udp", p>>}
BY DEF Socks, isRaw, isTCP, isUDP, Sock, Kind

\* What RegisterRoute keeps.
LEMMA RegisterKeeps ==
    ASSUME Inv0, NEW x \in Host, NEW p \in Port, NEW k \in Kind,
           NEW tls \in BOOLEAN, NEW good \in BOOLEAN, RegisterRoute(x, p, k, tls, good)
    PROVE  /\ servers' \in [Port -> ListenServer] /\ http' \in [Port -> Phase]
           /\ cur' \in [Sock -> Phase] /\ stale' \in [Sock -> Stale]
           /\ started' = started \cup Socks(p, k)
           /\ blame \subseteq blame' /\ blame' \subseteq blame \cup {"restart"}
           /\ Begun' /\ Bound'
<1> USE DEF Inv0
<1>1. Socks(p, k) \subseteq Sock
  BY SocksOf
<1>2. CASE isRaw(k)
  <2>1. RegisterRaw(p, k)
    BY <1>2 DEF RegisterRoute
  <2>2. /\ servers' = servers /\ http' = http
        /\ cur' \in [Sock -> Phase] /\ stale' \in [Sock -> Stale]
        /\ \A s \in Sock \ Socks(p, k) : cur'[s] = cur[s] /\ stale'[s] = stale[s]
        /\ started' = started \cup Socks(p, k)
        /\ blame' = blame \cup (IF Socks(p, k) \cap started # {} THEN {"restart"} ELSE {})
    BY <2>1, RegisterRawDoes
  <2>3. Begun'
    BY <2>2 DEF Begun
  <2>4. Bound'
    BY <2>2 DEF Bound
  <2> QED BY <2>2, <2>3, <2>4 DEF Typed
<1>3. CASE ~isRaw(k)
  <2>1. RegisterHTTP(x, p, tls, good)
    BY <1>3 DEF RegisterRoute
  <2>2. /\ cur' = cur /\ stale' = stale /\ started' = started
        /\ servers' \in [Port -> ListenServer] /\ http' \in [Port -> Phase]
        /\ \A r \in Port \ {p} : servers'[r] = servers[r] /\ http'[r] = http[r]
        /\ (servers' = servers /\ http' = http) \/ servers'[p].there
        /\ blame \subseteq blame' /\ blame' \subseteq blame \cup {"restart"}
    BY <2>1, RegisterHTTPDoes
  <2>3. Socks(p, k) = {}
    BY <1>3, SocksOf
  <2>4. Begun'
    BY <2>2 DEF Begun
  <2>5. Bound'
    BY <2>2 DEF Bound
  <2> QED BY <2>2, <2>3, <2>4, <2>5 DEF Typed
<1> QED BY <1>2, <1>3

\* What Register does.
LEMMA RegisterDoes ==
    ASSUME Inv0, NEW h \in Handler, Register(h)
    PROVE  LET q == req[h]
           IN  /\ q \in Posting /\ q.pc = "register" /\ q.body \in Body /\ q.next \in Port
               /\ RegisterRoute(q.body.host, q.next, q.body.kind, q.body.tls, q.body.good)
               /\ UNCHANGED <<rows, state, requests>>
               /\ \E z \in Request :
                    /\ Stage(z) /\ Goto(h, z)
                    /\ \/ z = Idle
                       \/ /\ z \in Posting /\ z.pc = "create" /\ z.next = q.next + 1
                          /\ z.body = q.body /\ z.n = q.n
<1>1. PICK q : q = req[h]
  OBVIOUS
<1>2. q \in Request /\ q.pc = "register" /\ Stage(q)
  BY <1>1 DEF Inv0, Typed, Stages, Register
<1>3. q \in Posting
  BY <1>2, Kinds
<1>4. /\ q.body.first <= q.next /\ q.next <= q.body.last
      /\ q.body.first \in Nat /\ q.body.last \in Nat /\ q.next \in Nat
      /\ q.body \in Body /\ q.next \in Port
  BY <1>2, <1>3, PortNat DEF Stage, Posting, Body
<1>5. /\ RegisterRoute(q.body.host, q.next, q.body.kind, q.body.tls, q.body.good)
      /\ UNCHANGED <<rows, state, requests>>
  BY <1>1 DEF Register
<1>6. CASE q.next < q.body.last
  <2>1. PICK z : z = [q EXCEPT !.pc = "create", !.next = q.next + 1]
    OBVIOUS
  <2>2. Goto(h, z)
    BY <2>1, <1>1, <1>6 DEF Register
  <2>3. z = [pc |-> "create", next |-> q.next + 1, n |-> q.n, body |-> q.body]
    BY <2>1, <1>3 DEF Posting
  <2>4. q.body.first <= q.next + 1 /\ q.next + 1 <= q.body.last /\ q.next + 1 \in Nat
    BY <1>4, <1>6
  <2>5. /\ z \in Posting /\ z \in Request /\ Stage(z)
        /\ z.pc = "create" /\ z.next = q.next + 1 /\ z.body = q.body /\ z.n = q.n
    BY <2>3, <2>4, <1>2, <1>3, PostingMoves
  <2> QED BY <2>2, <2>5, <1>1, <1>2, <1>3, <1>4, <1>5
<1>7. CASE ~(q.next < q.body.last)
  <2>1. Goto(h, Idle)
    BY <1>1, <1>7 DEF Register
  <2> QED BY <2>1, IdleOK, <1>1, <1>2, <1>3, <1>4, <1>5
<1> QED BY <1>6, <1>7

\* RegisterRoute starts the listener of the row its request added.
LEMMA RegisterInv0 ==
    ASSUME Inv0, NEW h \in Handler, Register(h)
    PROVE  Inv0'
<1> USE DEF Inv0
<1>1. PICK q : q = req[h]
  OBVIOUS
<1>2. /\ q \in Posting /\ q.pc = "register" /\ q.body \in Body /\ q.next \in Port
      /\ RegisterRoute(q.body.host, q.next, q.body.kind, q.body.tls, q.body.good)
      /\ UNCHANGED <<rows, state, requests>>
  BY <1>1, RegisterDoes
<1>3. PICK z \in Request : Stage(z) /\ Goto(h, z) /\ z.pc # "register"
  BY RegisterDoes, IdleOK
<1>4. /\ req' \in [Handler -> Request] /\ Stages'
      /\ req'[h] = z /\ \A g \in Handler \ {h} : req'[g] = req[g]
  BY <1>3, Moves DEF Goto
<1>5. /\ servers' \in [Port -> ListenServer] /\ http' \in [Port -> Phase]
      /\ cur' \in [Sock -> Phase] /\ stale' \in [Sock -> Stale]
      /\ started' = started \cup Socks(q.next, q.body.kind)
      /\ blame \subseteq blame' /\ blame' \subseteq blame \cup {"restart"}
      /\ Begun' /\ Bound'
  BY <1>2, RegisterKeeps DEF Body
<1>6. Socks(q.next, q.body.kind) \subseteq Sock
  BY DEF Socks
<1>7. Alone'
  BY <1>1, <1>2, <1>4, <1>5, MovesAlone
<1>8. Typed'
  BY <1>2, <1>4, <1>5, <1>6 DEF Typed
<1>9. Configured'
  BY <1>2 DEF Configured
<1>10. Known'
  <2> SUFFICES ASSUME "overlap" \notin blame' PROVE Known'
    BY DEF Known
  <2>1. \A g \in Handler : (req[g].pc = "register" => g = h) /\ req'[g].pc # "register"
    BY <1>1, <1>2, <1>3, <1>4, <1>5 DEF Alone
  <2>2. \A v \in DOMAIN rows : Pending(v) =>
          v = <<q.body.host, q.next>> /\ rows[v].kind = q.body.kind
    BY <2>1, <1>1, <1>5 DEF Pending, Known
  <2>3. \A v \in DOMAIN rows : Pending(v) => Socks(v[2], rows[v].kind) \subseteq started'
    BY <2>2, <1>5
  <2> QED BY <2>1, <2>3, <1>2, <1>5 DEF Known
<1> QED BY <1>4, <1>5, <1>7, <1>8, <1>9, <1>10

\* What Rollback does: the rows it deletes are of its own range.
LEMMA RollbackDoes ==
    ASSUME Inv0, NEW h \in Handler, Rollback(h)
    PROVE  \E U \in SUBSET DOMAIN rows, z \in Request :
             /\ Stage(z) /\ Goto(h, z) /\ req[h].pc = "rollback"
             /\ U \cap DOMAIN Config = {}
             /\ rows' = [v \in DOMAIN rows \ U |-> rows[v]]
             /\ \/ z = Idle /\ U = {}
                \/ z \in Removing /\ z.urls = U
             /\ UNCHANGED <<servers, http, cur, stale, state, requests, started, blame>>
<1> DEFINE U == {u \in DOMAIN rows : rows[u].n = req[h].n /\ rows[u].range}
<1>1. /\ req[h].pc = "rollback" /\ Remove(h, U)
      /\ UNCHANGED <<servers, http, cur, stale, state, requests, started, blame>>
  BY DEF Rollback
<1>2. req[h].n > 0
  BY <1>1, Kinds DEF Inv0, Typed, Stages, Stage
<1>3. \A u \in U : u \notin DOMAIN Config
  BY <1>2, UiRow DEF Inv0
<1>4. U \subseteq Url /\ U \in SUBSET DOMAIN rows
  BY DEF Inv0, Typed
<1> HIDE DEF U
<1>5. CASE U = {}
  BY <1>1, <1>3, <1>4, <1>5, IdleOK DEF Remove
<1>6. CASE U # {}
  <2>1. PICK z : z = [pc |-> "unregister", urls |-> U]
    OBVIOUS
  <2>2. z \in Removing /\ z.urls = U /\ z \in Request /\ Stage(z)
    BY <2>1, <1>4 DEF Removing, Request, Stage, Posting, Undoing, Editing
  <2>3. Goto(h, z) /\ rows' = [v \in DOMAIN rows \ U |-> rows[v]]
    BY <1>1, <1>6, <2>1 DEF Remove
  <2> QED BY <2>2, <2>3, <1>1, <1>3, <1>4
<1> QED BY <1>5, <1>6

\* A failed registration takes its rows away again.
LEMMA RollbackInv0 ==
    ASSUME Inv0, NEW h \in Handler, Rollback(h)
    PROVE  Inv0'
<1>1. PICK U \in SUBSET DOMAIN rows, z \in Request :
        /\ Stage(z) /\ Goto(h, z) /\ req[h].pc = "rollback"
        /\ U \cap DOMAIN Config = {}
        /\ rows' = [v \in DOMAIN rows \ U |-> rows[v]]
        /\ z = Idle \/ z \in Removing
        /\ UNCHANGED <<servers, http, cur, stale, state, requests, started, blame>>
  BY RollbackDoes
<1>2. z.pc # "register"
  BY <1>1, IdleOK DEF Removing
<1>3. /\ DOMAIN rows' \subseteq DOMAIN rows
      /\ \A v \in DOMAIN rows' : rows'[v] \in Row /\ rows'[v].kind = rows[v].kind
  BY <1>1 DEF Inv0, Typed
<1>4. Configured'
  BY <1>1 DEF Inv0, Configured
<1>5. blame \subseteq blame' /\ blame' \subseteq Blames
  BY <1>1 DEF Inv0, Typed, Blames
<1> QED BY <1>1, <1>2, <1>3, <1>4, <1>5, GoesInv0

\* What Unregister does.
LEMMA UnregisterStep ==
    ASSUME Inv0, NEW h \in Handler, Unregister(h)
    PROVE  /\ req[h] \in Removing
           /\ UNCHANGED <<rows, http, state, requests, started, blame>>
           /\ \E u \in req[h].urls, z \in Request :
                /\ u \in Url /\ u[1] \in Host /\ u[2] \in Port
                /\ UnregisterRoute(u[1], u[2])
                /\ Stage(z) /\ Goto(h, z)
                /\ \/ z = Idle /\ req[h].urls = {u}
                   \/ z \in Removing /\ z.urls = req[h].urls \ {u}
<1>1. PICK q : q = req[h]
  OBVIOUS
<1>2. q \in Request /\ q.pc = "unregister"
  BY <1>1 DEF Inv0, Typed, Unregister
<1>3. q \in Removing
  BY <1>2, Kinds
<1>4. PICK u \in q.urls :
        /\ UnregisterRoute(u[1], u[2])
        /\ Goto(h, IF q.urls = {u} THEN Idle ELSE [q EXCEPT !.urls = @ \ {u}])
  BY <1>1 DEF Unregister
<1>5. u \in Url /\ u[1] \in Host /\ u[2] \in Port
  BY <1>3 DEF Removing, Url
<1>6. UNCHANGED <<rows, http, state, requests, started, blame>>
  BY DEF Unregister
<1>7. CASE q.urls = {u}
  BY <1>1, <1>3, <1>4, <1>5, <1>6, <1>7, IdleOK
<1>8. CASE q.urls # {u}
  <2>1. PICK z : z = [q EXCEPT !.urls = @ \ {u}]
    OBVIOUS
  <2>2. z \in Removing /\ z.urls = q.urls \ {u}
    BY <2>1, <1>3 DEF Removing
  <2>3. z \in Request /\ Stage(z)
    BY <2>2 DEF Request, Removing, Stage, Posting, Undoing, Editing
  <2>4. Goto(h, z)
    BY <2>1, <1>4, <1>8
  <2> QED BY <2>2, <2>3, <2>4, <1>1, <1>3, <1>4, <1>5, <1>6
<1> QED BY <1>7, <1>8

\* UnregisterRoute cancels what the deleted row had.
LEMMA UnregisterInv0 ==
    ASSUME Inv0, NEW h \in Handler, Unregister(h)
    PROVE  Inv0'
<1> USE DEF Inv0
<1>1. PICK u \in req[h].urls, z \in Request :
        /\ u[1] \in Host /\ u[2] \in Port /\ UnregisterRoute(u[1], u[2])
        /\ Stage(z) /\ Goto(h, z) /\ (z = Idle \/ z \in Removing)
  BY UnregisterStep
<1>2. /\ req[h] \in Removing /\ UNCHANGED <<rows, http, state, requests, started, blame>>
  BY UnregisterStep
<1>3. /\ req' \in [Handler -> Request] /\ Stages'
      /\ req'[h] = z /\ \A g \in Handler \ {h} : req'[g] = req[g]
  BY <1>1, Moves DEF Goto
<1>4. req[h].pc = "unregister" /\ z.pc # "register"
  BY <1>1, <1>2, IdleOK DEF Removing
<1>5. Alone'
  BY <1>2, <1>3, <1>4, MovesAlone
<1>6. PICK S : S = {s \in Sock : s[2] = u[2]}
  OBVIOUS
<1>7. ASSUME servers[u[2]].there PROVE Typed' /\ Begun' /\ Bound'
  <2>1. /\ cur' = cur /\ stale' = stale
        /\ servers' \in [Port -> ListenServer]
        /\ \A r \in Port \ {u[2]} : servers'[r] = servers[r]
        /\ servers'[u[2]].there
    BY <1>1, <1>7, UnregisterDoes
  <2>2. Typed'
    BY <2>1, <1>2, <1>3 DEF Typed
  <2>3. Begun'
    BY <2>1, <1>2 DEF Begun
  <2>4. Bound'
    BY <2>1, <1>2 DEF Bound
  <2> QED BY <2>2, <2>3, <2>4
<1>8. ASSUME ~servers[u[2]].there PROVE Typed' /\ Begun' /\ Bound'
  <2>1. /\ servers' = servers
        /\ cur' \in [Sock -> Phase]
        /\ stale' = Cancelled(S) /\ stale' \in [Sock -> Stale]
        /\ \A s \in S : cur'[s] = "none"
        /\ \A s \in Sock \ S : cur'[s] = cur[s] /\ stale'[s] = stale[s]
    BY <1>1, <1>6, <1>8, UnregisterDoes
  <2>2. Typed'
    BY <2>1, <1>2, <1>3 DEF Typed
  <2>3. \A s \in S : cur[s] = "none" => stale'[s] = stale[s]
    BY <2>1, <1>6, Cancels
  <2>4. Begun'
    BY <2>1, <2>3, <1>2, <1>6 DEF Begun
  <2>5. Bound'
    BY <2>1, <1>2 DEF Bound
  <2> QED BY <2>2, <2>4, <2>5
<1>9. Typed' /\ Begun' /\ Bound'
  BY <1>7, <1>8
<1>10. Configured'
  BY <1>2 DEF Configured
<1>11. Known'
  <2> SUFFICES ASSUME "overlap" \notin blame' PROVE Known'
    BY DEF Known
  <2>1. \A g \in Handler : req[g].pc # "register" /\ req'[g].pc # "register"
    BY <1>2, <1>3, <1>4 DEF Alone
  <2>2. \A v \in DOMAIN rows : ~Pending(v)
    BY <2>1 DEF Pending
  <2> QED BY <2>1, <2>2, <1>2 DEF Known
<1> QED BY <1>3, <1>5, <1>9, <1>10, <1>11

\* What UpdateRouteEndpoint does.
LEMMA UpdateDoes ==
    ASSUME Inv0, NEW h \in Handler, UpdateRouteEndpoint(h)
    PROVE  /\ req[h] \in Editing /\ req[h].pc = "endpoint"
           /\ UNCHANGED <<servers, http, cur, stale, state, requests, started>>
           /\ \/ Goto(h, Idle) /\ UNCHANGED <<rows, blame>>
                 /\ ~(req[h].url \in DOMAIN rows /\ rows[req[h].url].n = req[h].row.n)
              \/ LET u == req[h].url
                     r == req[h].row
                 IN  /\ u \in DOMAIN rows \ DOMAIN Config
                     /\ DOMAIN rows' = DOMAIN rows
                     /\ rows'[u] \in Row /\ rows'[u] = [rows[u] EXCEPT !.good = r.good]
                     /\ \A v \in DOMAIN rows \ {u} : rows'[v] = rows[v]
                     /\ blame' = blame \cup (Mistakes(u, r) \cap {"target"})
                     /\ \E z \in Request :
                          /\ Stage(z) /\ Goto(h, z) /\ z \in Editing /\ z.pc = "reregister"
                          /\ z.url = u /\ z.row = r
<1>1. PICK q : q = req[h]
  OBVIOUS
<1>2. q \in Request /\ q.pc = "endpoint" /\ Stage(q)
  BY <1>1 DEF Inv0, Typed, Stages, UpdateRouteEndpoint
<1>3. q \in Editing
  BY <1>2, Kinds
<1>4. PICK u, r : u = q.url /\ r = q.row
  OBVIOUS
<1>5. UNCHANGED <<servers, http, cur, stale, state, requests, started>>
  BY DEF UpdateRouteEndpoint
<1>6. CASE u \in DOMAIN rows /\ rows[u].n = r.n
  <2>1. PICK z : z = [q EXCEPT !.pc = "reregister"]
    OBVIOUS
  <2>2. /\ rows' = [rows EXCEPT ![u].good = r.good]
        /\ blame' = blame \cup (Mistakes(u, r) \cap {"target"})
        /\ Goto(h, z)
    BY <1>1, <1>4, <1>6, <2>1 DEF UpdateRouteEndpoint
  <2>3. z \in Editing /\ z.pc = "reregister" /\ z.url = u /\ z.row = r
    BY <2>1, <1>3, <1>4 DEF Editing
  <2>4. z \in Request /\ Stage(z)
    BY <2>3, <1>2, <1>3, <1>4 DEF Request, Editing, Stage, Posting, Undoing
  <2>5. r \in Row /\ r.n > 0
    BY <1>2, <1>3, <1>4 DEF Editing, Stage
  <2>6. u \notin DOMAIN Config
    BY <2>5, <1>6, UiRow DEF Inv0
  <2>7. /\ DOMAIN rows' = DOMAIN rows
        /\ rows'[u] = [rows[u] EXCEPT !.good = r.good]
        /\ \A v \in DOMAIN rows \ {u} : rows'[v] = rows[v]
    BY <2>2, <1>6
  <2>8. rows'[u] \in Row
    <3>1. rows[u] \in Row /\ r.good \in BOOLEAN
      BY <2>5, <1>6 DEF Inv0, Typed, Row
    <3> QED BY <3>1, <2>7 DEF Row
  <2> QED BY <2>2, <2>3, <2>4, <2>6, <2>7, <2>8, <1>1, <1>2, <1>3, <1>4, <1>5, <1>6
<1>7. CASE ~(u \in DOMAIN rows /\ rows[u].n = r.n)
  <2>1. Goto(h, Idle) /\ UNCHANGED <<rows, blame>>
    BY <1>1, <1>4, <1>7 DEF UpdateRouteEndpoint
  <2> QED BY <2>1, <1>1, <1>2, <1>3, <1>4, <1>5, <1>7
<1> QED BY <1>6, <1>7

\* UpdateRoute changes the target of a row.
LEMMA UpdateInv0 ==
    ASSUME Inv0, NEW h \in Handler, UpdateRouteEndpoint(h)
    PROVE  Inv0'
<1> USE DEF Inv0
<1>1. /\ req[h].pc = "endpoint"
      /\ UNCHANGED <<servers, http, cur, stale, state, requests, started>>
  BY UpdateDoes
<1>2. CASE Goto(h, Idle) /\ UNCHANGED <<rows, blame>>
  <2>1. Configured' /\ blame' \subseteq Blames
    BY <1>2 DEF Configured, Typed, Blames
  <2>2. \A v \in DOMAIN rows' : rows'[v] \in Row /\ rows'[v].kind = rows[v].kind
    BY <1>2 DEF Typed
  <2>3. Idle \in Request /\ Stage(Idle) /\ Idle.pc # "register"
    BY IdleOK
  <2>4. blame \subseteq blame' /\ DOMAIN rows' \subseteq DOMAIN rows /\ req[h].pc # "idle"
        /\ req[h].pc # "register"
    BY <1>1, <1>2
  <2> HIDE DEF Inv0
  <2> QED BY <1>1, <1>2, <2>1, <2>2, <2>3, <2>4, GoesInv0
<1>3. ASSUME NEW u, NEW r, u \in DOMAIN rows \ DOMAIN Config, DOMAIN rows' = DOMAIN rows,
             rows'[u] \in Row, rows'[u] = [rows[u] EXCEPT !.good = r.good],
             \A v \in DOMAIN rows \ {u} : rows'[v] = rows[v],
             blame' = blame \cup (Mistakes(u, r) \cap {"target"}),
             \E z \in Request : Stage(z) /\ Goto(h, z) /\ z \in Editing /\ z.pc = "reregister"
      PROVE  Inv0'
  <2>1. PICK z \in Request : Stage(z) /\ Goto(h, z) /\ z.pc = "reregister"
    BY <1>3
  <2>2. rows[u] \in Row
    BY <1>3 DEF Typed
  <2>3. rows'[u].kind = rows[u].kind /\ rows'[u].source = rows[u].source /\ rows'[u].n = rows[u].n
    BY <2>2, <1>3 DEF Row
  <2>4. Configured'
    BY <1>3, <2>3 DEF Configured
  <2>5. \A v \in DOMAIN rows' : rows'[v] \in Row /\ rows'[v].kind = rows[v].kind
    BY <1>3, <2>3 DEF Typed
  <2>6. blame \subseteq blame' /\ blame' \subseteq Blames
    BY <1>3 DEF Typed, Blames
  <2>7. z.pc # "register" /\ req[h].pc # "idle" /\ req[h].pc # "register"
    BY <1>1, <2>1
  <2>8. DOMAIN rows' \subseteq DOMAIN rows
    BY <1>3
  <2> HIDE DEF Inv0
  <2> QED BY <1>1, <2>1, <2>4, <2>5, <2>6, <2>7, <2>8, GoesInv0
<1> QED BY <1>2, <1>3, UpdateDoes

\* What the second half of an edit does to the listeners.
LEMMA ReregisterDoes ==
    ASSUME Inv0, NEW h \in Handler, Reregister(h)
    PROVE  LET u == req[h].url
               r == req[h].row
           IN  /\ req[h] \in Editing /\ req[h].pc = "reregister"
               /\ r \in Row /\ u \in Url /\ u[1] \in Host /\ u[2] \in Port
               /\ RegisterRoute(u[1], u[2], r.kind, r.tls, r.good)
               /\ Goto(h, Idle) /\ UNCHANGED <<rows, state, requests>>
<1>1. req[h] \in Request /\ req[h].pc = "reregister"
  BY DEF Inv0, Typed, Reregister
<1>2. req[h] \in Editing
  BY <1>1, Kinds
<1>3. /\ req[h].row \in Row /\ req[h].url \in Url
      /\ req[h].url[1] \in Host /\ req[h].url[2] \in Port
  BY <1>2 DEF Editing, Url
<1> QED BY <1>1, <1>2, <1>3 DEF Reregister

\* The edited row gets a new listener.
LEMMA ReregisterInv0 ==
    ASSUME Inv0, NEW h \in Handler, Reregister(h)
    PROVE  Inv0'
<1> USE DEF Inv0
<1>1. PICK u, r : u = req[h].url /\ r = req[h].row
  OBVIOUS
<1>2. /\ req[h].pc = "reregister"
      /\ r \in Row /\ u[1] \in Host /\ u[2] \in Port
      /\ RegisterRoute(u[1], u[2], r.kind, r.tls, r.good)
      /\ Goto(h, Idle) /\ UNCHANGED <<rows, state, requests>>
  BY <1>1, ReregisterDoes
<1>3. /\ req' \in [Handler -> Request] /\ Stages'
      /\ req'[h] = Idle /\ \A g \in Handler \ {h} : req'[g] = req[g]
  BY <1>2, IdleOK, Moves DEF Goto
<1>4. /\ servers' \in [Port -> ListenServer] /\ http' \in [Port -> Phase]
      /\ cur' \in [Sock -> Phase] /\ stale' \in [Sock -> Stale]
      /\ started' = started \cup Socks(u[2], r.kind)
      /\ blame \subseteq blame' /\ blame' \subseteq blame \cup {"restart"}
      /\ Begun' /\ Bound'
  BY <1>2, RegisterKeeps DEF Row
<1>5. Socks(u[2], r.kind) \subseteq Sock
  BY DEF Socks
<1>6. Alone'
  BY <1>2, <1>3, <1>4, MovesAlone
<1>7. Typed'
  BY <1>2, <1>3, <1>4, <1>5 DEF Typed
<1>8. Configured'
  BY <1>2 DEF Configured
<1>9. Known'
  <2> SUFFICES ASSUME "overlap" \notin blame' PROVE Known'
    BY DEF Known
  <2>1. \A g \in Handler : req[g].pc # "register" /\ req'[g].pc # "register"
    BY <1>2, <1>3, <1>4, IdleOK DEF Alone
  <2>2. \A v \in DOMAIN rows : ~Pending(v)
    BY <2>1 DEF Pending
  <2> QED BY <2>1, <2>2, <1>2, <1>4 DEF Known
<1> QED BY <1>3, <1>4, <1>6, <1>7, <1>8, <1>9

\* The listeners of a fresh process.
LEMMA FreshListeners ==
    ASSUME NEW R, DOMAIN R \subseteq Url, \A u \in DOMAIN R : R[u] \in Row
    PROVE  /\ serversOf(R) \in [Port -> ListenServer] /\ cancelsOf(R) \in [Sock -> Phase]
           /\ \A s \in Sock : cancelsOf(R)[s] # "open"
           /\ \A s \in Sock : cancelsOf(R)[s] # "none" <=>
                \E u \in DOMAIN R : s \in Socks(u[2], R[u].kind)
           /\ \A p \in Port : serversOf(R)[p].there <=>
                \E u \in DOMAIN R : u[2] = p /\ ~isRaw(R[u].kind)
           /\ \A p \in Port : serversOf(R)[p].tls <=>
                \E u \in DOMAIN R : u[2] = p /\ ~isRaw(R[u].kind) /\ R[u].tls
           /\ \A p \in Port : \A x : x \in serversOf(R)[p].hosts <=>
                <<x, p>> \in DOMAIN R /\ ~isRaw(R[<<x, p>>].kind)
<1>1. cancelsOf(R) \in [Sock -> Phase] /\ \A s \in Sock : cancelsOf(R)[s] # "open"
  BY DEF cancelsOf, Phase
<1>2. \A s \in Sock : cancelsOf(R)[s] # "none" <=>
        \E u \in DOMAIN R : s \in Socks(u[2], R[u].kind)
  <2> TAKE s \in Sock
  <2>1. cancelsOf(R)[s] # "none" <=>
          \E u \in RowsAt(R, s[2]) : IF s[1] = "tcp" THEN isTCP(R[u].kind) ELSE isUDP(R[u].kind)
    BY DEF cancelsOf
  <2> QED BY <2>1 DEF RowsAt, Socks
<1> DEFINE urls(p) == {u \in RowsAt(R, p) : ~isRaw(R[u].kind)}
           rec(p) == [there |-> urls(p) # {}, tls |-> \E u \in urls(p) : R[u].tls,
                      hosts |-> {u[1] : u \in urls(p)}]
<1>3. serversOf(R) = [p \in Port |-> rec(p)]
  BY DEF serversOf
<1>4. ASSUME NEW p \in Port
      PROVE  /\ rec(p) \in ListenServer
             /\ rec(p).there <=> urls(p) # {}
             /\ rec(p).tls <=> \E u \in urls(p) : R[u].tls
             /\ rec(p).hosts = {u[1] : u \in urls(p)}
  <2>1. {u[1] : u \in urls(p)} \subseteq Host
    BY DEF RowsAt, Url
  <2>2. (urls(p) # {}) \in BOOLEAN /\ (\E u \in urls(p) : R[u].tls) \in BOOLEAN
    OBVIOUS
  <2>3. ASSUME NEW a \in BOOLEAN, NEW b \in BOOLEAN, NEW c \in SUBSET Host
        PROVE  /\ [there |-> a, tls |-> b, hosts |-> c] \in ListenServer
               /\ [there |-> a, tls |-> b, hosts |-> c].there = a
               /\ [there |-> a, tls |-> b, hosts |-> c].tls = b
               /\ [there |-> a, tls |-> b, hosts |-> c].hosts = c
    BY DEF ListenServer
  <2> HIDE DEF urls
  <2> QED BY <2>1, <2>2, <2>3, Zenon
<1>5. \A p \in Port : serversOf(R)[p] = rec(p)
  <2> HIDE DEF rec
  <2> QED BY <1>3
<1>6. serversOf(R) \in [Port -> ListenServer]
  <2> HIDE DEF rec
  <2> QED BY <1>3, <1>4
<1>7. \A p \in Port : \A u : u \in urls(p) <=> u \in DOMAIN R /\ u[2] = p /\ ~isRaw(R[u].kind)
  BY DEF RowsAt
<1>8. \A u \in DOMAIN R : u = <<u[1], u[2]>>
  BY DEF Url
<1> HIDE DEF urls, rec
<1>9. ASSUME NEW p \in Port
      PROVE  /\ serversOf(R)[p].there <=> \E u \in DOMAIN R : u[2] = p /\ ~isRaw(R[u].kind)
             /\ serversOf(R)[p].tls <=>
                  \E u \in DOMAIN R : u[2] = p /\ ~isRaw(R[u].kind) /\ R[u].tls
  BY <1>4, <1>5, <1>7
<1>10. ASSUME NEW p \in Port, NEW x
       PROVE  x \in serversOf(R)[p].hosts <=> <<x, p>> \in DOMAIN R /\ ~isRaw(R[<<x, p>>].kind)
  <2>1. x \in serversOf(R)[p].hosts <=> \E u \in urls(p) : x = u[1]
    BY <1>4, <1>5
  <2>2. ASSUME NEW u \in urls(p), x = u[1] PROVE u = <<x, p>>
    BY <2>2, <1>7, <1>8
  <2>3. <<x, p>>[1] = x /\ <<x, p>>[2] = p
    OBVIOUS
  <2> QED BY <2>1, <2>2, <2>3, <1>7
<1> QED BY <1>1, <1>2, <1>6, <1>9, <1>10

\* A process that has just come up.
Fresh(R) ==
    /\ servers = serversOf(R) /\ cur = cancelsOf(R)
    /\ http = [p \in Port |-> IF servers[p].there THEN "starting" ELSE "none"]
    /\ stale = [s \in Sock |-> NoStale]
    /\ state = "up"
    /\ req = [h \in Handler |-> Idle]
    /\ started = {s \in Sock : cur[s] # "none"}

FreshRows ==
    /\ Fresh(rows) /\ DOMAIN rows \subseteq Url /\ \A u \in DOMAIN rows : rows[u] \in Row
    /\ Configured /\ requests \in Nat /\ blame \subseteq Blames

\* A process that has just started from its rows satisfies the first layer ...
LEMMA FreshInv0 == FreshRows => Inv0
<1> SUFFICES ASSUME FreshRows PROVE Inv0
  OBVIOUS
<1> USE DEF FreshRows
<1>1. /\ servers \in [Port -> ListenServer] /\ cur \in [Sock -> Phase]
      /\ \A s \in Sock : cur[s] # "none" <=> \E u \in DOMAIN rows : s \in Socks(u[2], rows[u].kind)
      /\ \A p \in Port : servers[p].there <=>
           \E u \in DOMAIN rows : u[2] = p /\ ~isRaw(rows[u].kind)
      /\ \A p \in Port : \A x : x \in servers[p].hosts <=>
           <<x, p>> \in DOMAIN rows /\ ~isRaw(rows[<<x, p>>].kind)
  BY FreshListeners DEF Fresh
<1>2. http \in [Port -> Phase]
  BY DEF Fresh, Phase
<1>3. NoStale \in Stale /\ ~NoStale.open /\ NoStale.starting = 0
  BY DEF NoStale, Stale
<1>4. stale \in [Sock -> Stale] /\ \A s \in Sock : ~stale[s].open /\ stale[s].starting = 0
  BY <1>3 DEF Fresh
<1>5. /\ req \in [Handler -> Request]
      /\ \A h \in Handler : req[h] = Idle /\ Stage(req[h]) /\ req[h].pc = "idle"
  BY IdleOK DEF Fresh
<1>6. Typed /\ Stages /\ Alone
  BY <1>1, <1>2, <1>4, <1>5 DEF Fresh, Typed, Stages, Alone, Blames
<1>7. Begun
  BY <1>4 DEF Begun, Fresh
<1>8. Known
  <2>1. \A u \in DOMAIN rows : Socks(u[2], rows[u].kind) \subseteq started
    BY <1>1 DEF Fresh, Socks
  <2> QED BY <2>1, <1>5 DEF Known
<1>9. Bound
  <2> SUFFICES ASSUME NEW p \in Port, ~servers[p].there
               PROVE  http[p] = "none" /\ servers[p].hosts = {}
    BY DEF Bound
  <2>1. \A x : <<x, p>>[2] = p
    OBVIOUS
  <2>2. \A x : x \notin servers[p].hosts
    BY <1>1, <2>1
  <2> QED BY <2>2 DEF Fresh
<1> QED BY <1>6, <1>7, <1>8, <1>9 DEF Inv0

\* ... the same of the next state ...
LEMMA FreshInv0Later == FreshRows' => Inv0'
BY FreshInv0, PTL

\* Rows after SyncRoutes.
LEMMA Synced ==
    ASSUME Typed, Configured
    PROVE  /\ DOMAIN SyncRoutes(rows) = DOMAIN rows
           /\ \A u \in DOMAIN rows : SyncRoutes(rows)[u] = rows[u]
<1>1. \A u \in DOMAIN rows : u \in DOMAIN Config \/ rows[u].source = "ui"
  BY DEF Configured
<1>2. DOMAIN Config \cup {v \in DOMAIN rows : rows[v].source = "ui"} = DOMAIN rows
  BY <1>1 DEF Configured
<1>3. SyncRoutes(rows) = [u \in DOMAIN rows |-> IF u \in DOMAIN Config THEN Config[u] ELSE rows[u]]
  BY <1>2 DEF SyncRoutes
<1> QED BY <1>3 DEF Configured

\* ... and so does a restart.
LEMMA RestartInv0 ==
    ASSUME Inv0, Restart
    PROVE  /\ Inv0'
           /\ DOMAIN rows' = DOMAIN rows /\ \A u \in DOMAIN rows : rows'[u] = rows[u]
           /\ Bootable(rows') => Fresh(rows)'
           /\ ~Bootable(rows') => state' = "refused"
           /\ \A h \in Handler : req'[h] = Idle
<1>1. /\ rows' = SyncRoutes(rows)
      /\ UNCHANGED <<requests, blame>>
      /\ http' = [p \in Port |-> IF servers'[p].there THEN "starting" ELSE "none"]
      /\ stale' = [s \in Sock |-> NoStale]
      /\ req' = [h \in Handler |-> Idle]
      /\ started' = {s \in Sock : cur'[s] # "none"}
  BY DEF Restart
<1>2. DOMAIN rows' = DOMAIN rows /\ \A u \in DOMAIN rows : rows'[u] = rows[u]
  BY <1>1, Synced DEF Inv0
<1>3. /\ DOMAIN rows' \subseteq Url /\ \A u \in DOMAIN rows' : rows'[u] \in Row
      /\ Configured' /\ requests' \in Nat /\ blame' \subseteq Blames
  BY <1>1, <1>2 DEF Inv0, Typed, Configured, Blames
<1>4. \A h \in Handler : req'[h] = Idle
  BY <1>1
<1>5. CASE Bootable(rows')
  <2>1. Fresh(rows)'
    BY <1>1, <1>5 DEF Restart, Fresh
  <2>2. Inv0'
    BY <1>3, <2>1, FreshInv0Later DEF FreshRows
  <2> QED BY <1>2, <1>4, <1>5, <2>1, <2>2
<1>6. CASE ~Bootable(rows')
  <2>1. /\ servers' = [p \in Port |-> NoServer] /\ cur' = [s \in Sock |-> "none"]
        /\ state' = "refused"
    BY <1>6 DEF Restart
  <2>2. NoServer \in ListenServer /\ NoServer.hosts = {} /\ ~NoServer.there
    BY DEF NoServer, ListenServer
  <2>3. NoStale \in Stale /\ ~NoStale.open /\ NoStale.starting = 0
    BY DEF NoStale, Stale
  <2>4. \A p \in Port : servers'[p].hosts = {} /\ ~servers'[p].there /\ http'[p] = "none"
    BY <1>1, <2>1, <2>2
  <2>5. servers' \in [Port -> ListenServer] /\ http' \in [Port -> Phase]
    BY <1>1, <2>1, <2>2, <2>4 DEF Phase
  <2>6. cur' \in [Sock -> Phase] /\ \A s \in Sock : cur'[s] = "none"
    BY <2>1 DEF Phase
  <2>7. /\ stale' \in [Sock -> Stale]
        /\ \A s \in Sock : ~stale'[s].open /\ stale'[s].starting = 0
    BY <1>1, <2>3
  <2>8. /\ req' \in [Handler -> Request]
        /\ \A h \in Handler : Stage(req'[h]) /\ req'[h].pc = "idle"
    BY <1>1, IdleOK
  <2>9. Typed'
    BY <1>1, <1>3, <2>1, <2>5, <2>6, <2>7, <2>8 DEF Typed, Blames
  <2>10. Stages' /\ Alone' /\ Begun' /\ Bound' /\ Known'
    BY <2>1, <2>4, <2>6, <2>7, <2>8 DEF Stages, Alone, Begun, Bound, Known
  <2> QED BY <1>2, <1>3, <1>4, <1>6, <2>1, <2>9, <2>10 DEF Inv0
<1> QED BY <1>5, <1>6

\* The first process starts from the configuration.
LEMMA InitFresh == Init => Inv0 /\ Fresh(rows) /\ rows = Config /\ blame = {}
<1> SUFFICES ASSUME Init PROVE Inv0 /\ Fresh(rows) /\ rows = Config /\ blame = {}
  OBVIOUS
<1>1. Fresh(rows) /\ rows = Config /\ blame = {} /\ requests = 0
  BY DEF Init, Fresh
<1>2. DOMAIN rows \subseteq Url /\ \A u \in DOMAIN rows : rows[u] \in Row
  BY <1>1, RegistryAssumption
<1>3. Configured
  BY <1>1 DEF Configured
<1> QED BY <1>1, <1>2, <1>3, FreshInv0 DEF FreshRows, Blames

-----------------------------------------------------------------------------
(* CleanInv, step by step                                                  *)

\* Requests that have not overlapped: the others wait.
LEMMA OthersIdle ==
    ASSUME Inv0, NEW h \in Handler, NEW z, Goto(h, z), req[h].pc # "idle",
           blame \subseteq blame', "overlap" \notin blame'
    PROVE  /\ req'[h] = z
           /\ \A g \in Handler \ {h} : req[g] = Idle /\ req'[g] = Idle
<1>1. \A g \in Handler \ {h} : req[g].pc = "idle" /\ req[g] \in Request
  BY DEF Inv0, Alone, Typed
<1>2. \A g \in Handler \ {h} : req[g] = Idle
  BY <1>1, Kinds
<1> QED BY <1>2 DEF Goto, Inv0, Typed

\* An idle worker is in the middle of nothing.
LEMMA IdleIsNone == Idle \notin Posting /\ Idle \notin Editing /\ Idle \notin Removing
                    /\ Idle \notin Undoing
BY DEF Idle, Posting, Editing, Removing, Undoing

\* What the only busy handler has to show.
LEMMA OneVacant ==
    ASSUME NEW h \in Handler, NEW z, req'[h] = z, \A g \in Handler \ {h} : req'[g] = Idle,
           z \in Posting /\ isTCP(z.body.kind) => \A p \in Validated(z) : ~servers'[p].there,
           z \in Editing => Socks(z.url[2], z.row.kind) \subseteq started'
    PROVE  Vacant' /\ EditsBegun'
<1>1. \A g \in Handler : g = h \/ (req'[g] \notin Posting /\ req'[g] \notin Editing)
  BY IdleIsNone
<1>2. Vacant'
  <2> SUFFICES ASSUME NEW g \in Handler, req'[g] \in Posting, isTCP(req'[g].body.kind),
                      NEW p \in Validated(req'[g])
               PROVE  ~servers'[p].there
    BY DEF Vacant
  <2> QED BY <1>1
<1>3. EditsBegun'
  BY <1>1 DEF EditsBegun
<1> QED BY <1>2, <1>3

\* The ports a request has validated, as it goes on.
LEMMA ValidatedMoves ==
    ASSUME NEW q \in Posting, Stage(q), NEW z \in Posting, z.body = q.body
    PROVE  /\ q.pc = "validate" /\ q.next = q.body.first => Validated(q) = {}
           /\ q.pc = "validate" /\ z.pc = "validate" /\ z.next = q.next + 1 =>
                Validated(z) = Validated(q) \cup {q.next}
           /\ q.pc = "validate" /\ z.pc = "create" /\ z.next = q.body.first
              /\ q.next = q.body.last => Validated(z) = Validated(q) \cup {q.next}
           /\ q.pc = "create" /\ z.pc = "register" /\ z.next = q.next =>
                Validated(z) = Validated(q)
           /\ q.pc = "register" /\ z.pc = "create" /\ z.next = q.next + 1 =>
                Validated(z) = Validated(q) \ {q.next}
           /\ q.pc \in {"create", "register"} => q.next \in Validated(q)
           /\ Validated(q) \subseteq Port /\ Validated(z) \subseteq Port
<1>1. /\ q.body.first <= q.next /\ q.next <= q.body.last
      /\ q.body.first \in Nat /\ q.body.last \in Nat /\ q.next \in Nat /\ q.next \in Port
  BY PortNat DEF Stage, Posting, Body
<1>2. \A p \in Port : p \in Nat
  BY PortNat
<1>3. Validated(q) \subseteq Port /\ Validated(z) \subseteq Port
  BY DEF Validated
<1>4. ASSUME q.pc = "validate"
      PROVE  Validated(q) = {p \in Port : q.body.first <= p /\ p < q.next}
  BY <1>4 DEF Validated
<1>5. ASSUME q.pc # "validate"
      PROVE  Validated(q) = {p \in Port : q.next <= p /\ p <= q.body.last}
  BY <1>5 DEF Validated
<1>6. ASSUME z.pc = "validate"
      PROVE  Validated(z) = {p \in Port : q.body.first <= p /\ p < z.next}
  BY <1>6 DEF Validated
<1>7. ASSUME z.pc # "validate"
      PROVE  Validated(z) = {p \in Port : z.next <= p /\ p <= q.body.last}
  BY <1>7 DEF Validated
<1>8. q.pc = "validate" /\ q.next = q.body.first => Validated(q) = {}
  BY <1>1, <1>2, <1>4
<1>9. q.pc = "validate" /\ z.pc = "validate" /\ z.next = q.next + 1 =>
        Validated(z) = Validated(q) \cup {q.next}
  BY <1>1, <1>2, <1>4, <1>6
<1>10. q.pc = "validate" /\ z.pc = "create" /\ z.next = q.body.first /\ q.next = q.body.last =>
         Validated(z) = Validated(q) \cup {q.next}
  BY <1>1, <1>2, <1>4, <1>7
<1>11. q.pc = "create" /\ z.pc = "register" /\ z.next = q.next => Validated(z) = Validated(q)
  BY <1>5, <1>7
<1>12. q.pc = "register" /\ z.pc = "create" /\ z.next = q.next + 1 =>
         Validated(z) = Validated(q) \ {q.next}
  BY <1>1, <1>2, <1>5, <1>7
<1>13. q.pc \in {"create", "register"} => q.next \in Validated(q)
  BY <1>1, <1>5
<1> QED BY <1>3, <1>8, <1>9, <1>10, <1>11, <1>12, <1>13

\* A request that leaves the listeners alone.
LEMMA QuietClean ==
    ASSUME Inv0, CleanInv, UNCHANGED <<servers, cur, stale, state, started>>,
           Vacant', EditsBegun'
    PROVE  CleanInv'
BY DEF CleanInv, Lone, Apart

\* A request that begins keeps the ports apart ...
LEMMA PostClean ==
    ASSUME Inv0, CleanInv, Clean', NEW h \in Handler, NEW b \in Posts, Post(h, b)
    PROVE  CleanInv'
<1> DEFINE body == [b EXCEPT !.tls = @ /\ ~isRaw(b.kind)]
<1>1. /\ body \in Body /\ body.first = b.first /\ body.last = b.last
      /\ b.first \in Port /\ b.first <= b.last /\ b.first .. b.last \subseteq Port
  BY BodyOK
<1> HIDE DEF body
<1>2. PICK q : q = [pc |-> "validate", next |-> b.first, n |-> requests + 1, body |-> body]
  OBVIOUS
<1>3. Begin(h, q) /\ UNCHANGED <<rows, servers, http, cur, stale, state, started>>
  BY <1>2 DEF Post, body
<1>4. requests \in Nat
  BY DEF Inv0, Typed
<1>5. q \in Posting /\ q.pc = "validate" /\ q.next = q.body.first /\ q.n = requests + 1
      /\ q.body = body
  BY <1>1, <1>2, <1>4 DEF Posting
<1>6. Stage(q)
  <2>1. requests + 1 > 0 /\ b.first <= b.first /\ q \notin Undoing /\ q \notin Editing
    BY <1>1, <1>4, <1>5, PortNat DEF Undoing, Editing
  <2> QED BY <2>1, <1>1, <1>5 DEF Stage
<1>7. q \in Request
  BY <1>5 DEF Request
<1>8. req'[h] = q /\ \A g \in Handler \ {h} : req'[g] = Idle
  BY <1>3, <1>6, <1>7, BeginsAlone DEF Inv0, Clean
<1>9. Validated(q) = {}
  BY <1>5, <1>6, ValidatedMoves
<1>10. q \notin Editing
  BY <1>5 DEF Editing
<1> QED BY <1>3, <1>8, <1>9, <1>10, OneVacant, QuietClean

\* ... a deletion ...
LEMMA DeleteClean ==
    ASSUME Inv0, CleanInv, Clean', NEW h \in Handler, NEW u, NEW U \in SUBSET DOMAIN rows,
           Delete(h, u, U)
    PROVE  CleanInv'
<1>1. PICK q : q = [pc |-> "unregister", urls |-> U]
  OBVIOUS
<1>2. Begin(h, q) /\ UNCHANGED <<servers, http, cur, stale, state, started>>
  BY <1>1 DEF Delete
<1>3. q \in Request /\ Stage(q) /\ q \notin Posting /\ q \notin Editing
  BY <1>1 DEF Request, Removing, Stage, Posting, Undoing, Editing, Inv0, Typed
<1>4. req'[h] = q /\ \A g \in Handler \ {h} : req'[g] = Idle
  BY <1>2, <1>3, BeginsAlone DEF Inv0, Clean
<1> QED BY <1>2, <1>3, <1>4, OneVacant, QuietClean

\* ... an edit ...
LEMMA PutClean ==
    ASSUME Inv0, CleanInv, Clean', NEW h \in Handler, NEW u \in DOMAIN rows,
           NEW good \in BOOLEAN, Put(h, u, good)
    PROVE  CleanInv'
<1> USE DEF Inv0
<1>1. PICK r : r = [rows[u] EXCEPT !.good = good]
  OBVIOUS
<1>2. r \in Row /\ r.n = rows[u].n /\ r.source = rows[u].source /\ r.kind = rows[u].kind
  BY <1>1 DEF Typed, Row
<1>3. PICK q : q = [pc |-> "endpoint", url |-> u, row |-> r]
  OBVIOUS
<1>4. Begin(h, q) /\ UNCHANGED <<rows, servers, http, cur, stale, state, started>>
  BY <1>1, <1>3 DEF Put
<1>5. r.source = "ui" /\ r.n > 0
  BY <1>2, UiRow DEF Put
<1>6. q \in Editing /\ q.row = r /\ q.url = u
  BY <1>2, <1>3 DEF Editing, Typed
<1>7. q \in Request /\ Stage(q) /\ q \notin Posting
  BY <1>5, <1>6 DEF Request, Stage, Posting, Undoing, Editing
<1>8. /\ req'[h] = q /\ \A g \in Handler \ {h} : req[g] = Idle /\ req'[g] = Idle
      /\ req[h] = Idle /\ state = "up" /\ blame \subseteq blame'
  BY <1>4, <1>7, BeginsAlone DEF Clean
<1>9. ~Pending(u)
  BY <1>8, IdleOK DEF Pending
<1>10. Socks(u[2], rows[u].kind) \subseteq started
  BY <1>8, <1>9 DEF Known, Clean
<1> QED BY <1>2, <1>4, <1>6, <1>7, <1>8, <1>10, OneVacant, QuietClean

\* ... the check: what it lets pass is apart from all that is there ...
LEMMA ValidateClean ==
    ASSUME Inv0, CleanInv, Clean', NEW h \in Handler, Validate(h)
    PROVE  CleanInv'
<1>1. PICK q : q = req[h]
  OBVIOUS
<1>2. PICK z \in Request :
        /\ Stage(z) /\ Goto(h, z) /\ q \in Posting /\ q.pc = "validate"
        /\ \/ z = Idle
           \/ /\ ValidateRoute(q.next, q.body.kind)
              /\ z \in Posting /\ z.body = q.body
              /\ \/ z.pc = "validate" /\ z.next = q.next + 1
                 \/ z.pc = "create" /\ z.next = q.body.first /\ q.next = q.body.last
  BY <1>1, ValidateDoes
<1>3. UNCHANGED <<rows, servers, http, cur, stale, state, requests, started, blame>>
  BY DEF Validate
<1>4. req'[h] = z /\ \A g \in Handler \ {h} : req'[g] = Idle
  BY <1>1, <1>2, <1>3, OthersIdle DEF Clean
<1>5. z \notin Editing
  BY <1>2, IdleIsNone DEF Posting, Editing
<1>6. ASSUME z \in Posting, isTCP(z.body.kind), NEW p \in Validated(z)
      PROVE  ~servers'[p].there
  <2>1. z # Idle /\ Stage(q)
    BY <1>1, <1>6, IdleIsNone DEF Inv0, Stages
  <2>2. Validated(z) = Validated(q) \cup {q.next}
    BY <1>2, <2>1, ValidatedMoves
  <2>3. ~servers[q.next].there
    BY <1>2, <1>6, <2>1 DEF ValidateRoute
  <2>4. \A r \in Validated(q) : ~servers[r].there
    BY <1>1, <1>2, <1>6, <2>1 DEF CleanInv, Vacant
  <2> QED BY <1>3, <1>6, <2>2, <2>3, <2>4
<1> QED BY <1>3, <1>4, <1>5, <1>6, OneVacant, QuietClean

\* ... the insert ...
LEMMA CreateRouteClean ==
    ASSUME Inv0, CleanInv, Clean', NEW h \in Handler, CreateRoute(h)
    PROVE  CleanInv'
<1>1. PICK q : q = req[h]
  OBVIOUS
<1>2. /\ q \in Posting /\ q.pc = "create" /\ Stage(q)
      /\ UNCHANGED <<servers, http, cur, stale, state, requests, started>>
      /\ blame \subseteq blame'
  BY <1>1, CreateDoes DEF Inv0, Stages
<1>3. PICK z \in Request :
        /\ Goto(h, z)
        /\ \/ z = Idle \/ z \in Undoing
           \/ z \in Posting /\ z.pc = "register" /\ z.next = q.next /\ z.body = q.body
  BY <1>1, CreateDoes
<1>4. req'[h] = z /\ \A g \in Handler \ {h} : req'[g] = Idle
  BY <1>1, <1>2, <1>3, OthersIdle DEF Clean
<1>5. z \notin Editing
  BY <1>3, IdleIsNone DEF Posting, Editing, Undoing
<1>6. ASSUME z \in Posting, isTCP(z.body.kind), NEW p \in Validated(z)
      PROVE  ~servers'[p].there
  <2>1. z # Idle /\ z \notin Undoing
    BY <1>6, IdleIsNone DEF Posting, Undoing
  <2>2. Validated(z) = Validated(q)
    BY <1>2, <1>3, <2>1, ValidatedMoves
  <2>3. \A r \in Validated(q) : ~servers[r].there
    BY <1>1, <1>2, <1>3, <1>6, <2>1 DEF CleanInv, Vacant
  <2> QED BY <1>2, <1>6, <2>2, <2>3
<1> QED BY <1>2, <1>4, <1>5, <1>6, OneVacant, QuietClean

\* ... the rollback ...
LEMMA RollbackClean ==
    ASSUME Inv0, CleanInv, Clean', NEW h \in Handler, Rollback(h)
    PROVE  CleanInv'
<1>1. PICK z \in Request :
        /\ Goto(h, z) /\ req[h].pc = "rollback" /\ (z = Idle \/ z \in Removing)
        /\ UNCHANGED <<servers, http, cur, stale, state, requests, started, blame>>
  BY RollbackDoes
<1>2. req'[h] = z /\ \A g \in Handler \ {h} : req'[g] = Idle
  BY <1>1, OthersIdle DEF Clean
<1>3. z \notin Posting /\ z \notin Editing
  BY <1>1, IdleIsNone DEF Posting, Editing, Removing
<1> QED BY <1>1, <1>2, <1>3, OneVacant, QuietClean

\* ... the new target ...
LEMMA UpdateClean ==
    ASSUME Inv0, CleanInv, Clean', NEW h \in Handler, UpdateRouteEndpoint(h)
    PROVE  CleanInv'
<1>1. PICK q : q = req[h]
  OBVIOUS
<1>2. /\ q \in Editing /\ q.pc = "endpoint" /\ blame \subseteq blame'
      /\ UNCHANGED <<servers, http, cur, stale, state, requests, started>>
  BY <1>1, UpdateDoes
<1>3. PICK z \in Request :
        Goto(h, z) /\ (z = Idle \/ (z \in Editing /\ z.url = q.url /\ z.row = q.row))
  BY <1>1, UpdateDoes, IdleOK
<1>4. req'[h] = z /\ \A g \in Handler \ {h} : req'[g] = Idle
  BY <1>1, <1>2, <1>3, OthersIdle DEF Clean
<1>5. z \notin Posting
  BY <1>3, IdleIsNone DEF Posting, Editing
<1>6. z \in Editing => Socks(z.url[2], z.row.kind) \subseteq started'
  BY <1>1, <1>2, <1>3, IdleIsNone DEF CleanInv, EditsBegun
<1> QED BY <1>2, <1>4, <1>5, <1>6, OneVacant, QuietClean

\* A route is registered on a port where no raw listener was started before.
LEMMA RegisterRouteClean ==
    ASSUME Inv0, CleanInv, Clean', NEW x \in Host, NEW p \in Port, NEW k \in Kind,
           NEW tls \in BOOLEAN, NEW good \in BOOLEAN, RegisterRoute(x, p, k, tls, good),
           isTCP(k) => ~servers[p].there
    PROVE  /\ Lone' /\ Apart' /\ (isRaw(k) => Socks(p, k) \cap started = {})
           /\ isRaw(k) => servers' = servers
<1> USE DEF Inv0, CleanInv
<1>1. CASE isRaw(k)
  <2>1. RegisterRaw(p, k)
    BY <1>1 DEF RegisterRoute
  <2>2. /\ servers' = servers /\ stale' = Cancelled(Socks(p, k))
        /\ \A s \in Sock \ Socks(p, k) : cur'[s] = cur[s] /\ stale'[s] = stale[s]
        /\ started' = started \cup Socks(p, k)
        /\ blame' = blame \cup (IF Socks(p, k) \cap started # {} THEN {"restart"} ELSE {})
    BY <2>1, RegisterRawDoes
  <2>3. Socks(p, k) \cap started = {}
    BY <2>2 DEF Clean
  <2>4. /\ Socks(p, k) \subseteq Sock
        /\ \A r \in Port : <<"tcp", r>> \in Socks(p, k) => r = p /\ isTCP(k)
    BY DEF Socks, Sock
  <2>5. \A s \in Socks(p, k) : cur[s] = "none" /\ ~stale[s].open /\ ~(stale[s].starting > 0)
    BY <2>3, <2>4 DEF Begun
  <2>6. \A s \in Socks(p, k) : stale'[s] = stale[s] /\ stale[s].starting = 0
    <3>1. \A s \in Socks(p, k) : stale'[s] = stale[s] /\ stale[s] \in Stale
      BY <2>2, <2>4, <2>5, Cancels DEF Typed
    <3> QED BY <3>1, <2>5 DEF Stale
  <2>7. Lone'
    <3> SUFFICES ASSUME NEW s \in Sock
                 PROVE  /\ cur'[s] # "none" => ~stale'[s].open /\ stale'[s].starting = 0
                        /\ stale'[s].open => stale'[s].starting = 0
                        /\ stale'[s].starting <= 1
      BY DEF Lone
    <3>1. CASE s \in Socks(p, k)
      BY <3>1, <2>5, <2>6
    <3>2. CASE s \notin Socks(p, k)
      BY <3>2, <2>2 DEF Lone
    <3> QED BY <3>1, <3>2
  <2>8. Apart'
    BY <2>2, <2>4 DEF Apart
  <2> QED BY <2>2, <2>3, <2>7, <2>8
<1>2. CASE ~isRaw(k)
  <2>1. RegisterHTTP(x, p, tls, good)
    BY <1>2 DEF RegisterRoute
  <2>2. /\ cur' = cur /\ stale' = stale /\ started' = started
        /\ \A r \in Port \ {p} : servers'[r] = servers[r]
        /\ servers' = servers \/ servers[p].there \/ <<"tcp", p>> \notin started
    BY <2>1, RegisterHTTPDoes DEF Clean
  <2>3. Lone'
    BY <2>2 DEF Lone
  <2>4. Apart'
    BY <2>2 DEF Apart
  <2> QED BY <1>2, <2>3, <2>4
<1> QED BY <1>1, <1>2

\* ... the registration, on ports that the check found vacant ...
LEMMA RegisterClean ==
    ASSUME Inv0, CleanInv, Clean', NEW h \in Handler, Register(h)
    PROVE  CleanInv'
<1> USE DEF Inv0
<1>1. PICK q : q = req[h]
  OBVIOUS
<1>2. /\ q \in Posting /\ q.pc = "register" /\ q.body \in Body /\ q.next \in Port
      /\ RegisterRoute(q.body.host, q.next, q.body.kind, q.body.tls, q.body.good)
      /\ UNCHANGED <<rows, state, requests>> /\ Stage(q)
  BY <1>1, RegisterDoes DEF Stages
<1>3. PICK z \in Request :
        /\ Goto(h, z)
        /\ \/ z = Idle
           \/ z \in Posting /\ z.pc = "create" /\ z.next = q.next + 1 /\ z.body = q.body
  BY <1>1, RegisterDoes
<1>4. /\ q.body.host \in Host /\ q.body.kind \in Kind /\ q.body.tls \in BOOLEAN
      /\ q.body.good \in BOOLEAN
  BY <1>2 DEF Body
<1>5. blame \subseteq blame'
  BY <1>2, <1>4, RegisterKeeps
<1>6. req'[h] = z /\ \A g \in Handler \ {h} : req'[g] = Idle
  BY <1>1, <1>2, <1>3, <1>5, OthersIdle DEF Clean
<1>7. q.next \in Validated(q)
  BY <1>2, ValidatedMoves
<1>8. isTCP(q.body.kind) => \A p \in Validated(q) : ~servers[p].there
  BY <1>1, <1>2 DEF CleanInv, Vacant
<1>9. Lone' /\ Apart' /\ (isRaw(q.body.kind) => servers' = servers)
  BY <1>2, <1>4, <1>7, <1>8, RegisterRouteClean
<1>10. z \notin Editing
  BY <1>3, IdleIsNone DEF Posting, Editing
<1>11. ASSUME z \in Posting, isTCP(z.body.kind), NEW p \in Validated(z)
       PROVE  ~servers'[p].there
  <2>1. z # Idle
    BY <1>11, IdleIsNone
  <2>2. Validated(z) = Validated(q) \ {q.next} /\ z.body = q.body
    BY <1>2, <1>3, <2>1, ValidatedMoves
  <2> QED BY <1>8, <1>9, <1>11, <2>2 DEF isRaw
<1>12. Vacant' /\ EditsBegun'
  BY <1>6, <1>10, <1>11, OneVacant
<1> QED BY <1>2, <1>9, <1>12 DEF CleanInv

\* ... the second half of an edit ...
LEMMA ReregisterClean ==
    ASSUME Inv0, CleanInv, Clean', NEW h \in Handler, Reregister(h)
    PROVE  CleanInv'
<1> USE DEF Inv0
<1>1. PICK u, r : u = req[h].url /\ r = req[h].row
  OBVIOUS
<1>2. /\ req[h] \in Editing /\ req[h].pc = "reregister"
      /\ r \in Row /\ u[1] \in Host /\ u[2] \in Port
      /\ RegisterRoute(u[1], u[2], r.kind, r.tls, r.good)
      /\ Goto(h, Idle) /\ UNCHANGED <<rows, state, requests>>
  BY <1>1, ReregisterDoes
<1>3. r.kind \in Kind /\ r.tls \in BOOLEAN /\ r.good \in BOOLEAN
  BY <1>2 DEF Row
<1>4. blame \subseteq blame'
  BY <1>2, <1>3, RegisterKeeps
<1>5. req'[h] = Idle /\ \A g \in Handler \ {h} : req'[g] = Idle
  BY <1>2, <1>4, OthersIdle DEF Clean
<1>6. Vacant' /\ EditsBegun'
  BY <1>5, IdleIsNone, OneVacant
<1>7. ~isRaw(r.kind)
  <2> SUFFICES ASSUME isRaw(r.kind) PROVE FALSE
    OBVIOUS
  <2>1. RegisterRaw(u[2], r.kind)
    BY <1>2 DEF RegisterRoute
  <2>2. blame' = blame \cup (IF Socks(u[2], r.kind) \cap started # {} THEN {"restart"} ELSE {})
    BY <2>1, <1>2, <1>3, RegisterRawDoes
  <2>3. Socks(u[2], r.kind) \subseteq started /\ Socks(u[2], r.kind) # {}
    BY <1>1, <1>2, <1>3, SocksOf DEF CleanInv, EditsBegun
  <2> QED BY <2>2, <2>3 DEF Clean
<1>8. Lone' /\ Apart'
  BY <1>2, <1>3, <1>7, RegisterRouteClean DEF isRaw
<1> QED BY <1>2, <1>6, <1>8 DEF CleanInv

\* ... and the cancellation.
LEMMA UnregisterClean ==
    ASSUME Inv0, CleanInv, Clean', NEW h \in Handler, Unregister(h)
    PROVE  CleanInv'
<1> USE DEF Inv0
<1>1. PICK u \in req[h].urls, z \in Request :
        /\ u[1] \in Host /\ u[2] \in Port /\ UnregisterRoute(u[1], u[2])
        /\ Goto(h, z) /\ (z = Idle \/ z \in Removing)
  BY UnregisterStep
<1>2. /\ req[h] \in Removing /\ UNCHANGED <<rows, http, state, requests, started, blame>>
  BY UnregisterStep
<1>3. req[h].pc # "idle"
  BY <1>2 DEF Removing
<1>4. req'[h] = z /\ \A g \in Handler \ {h} : req'[g] = Idle
  BY <1>1, <1>2, <1>3, OthersIdle DEF Clean
<1>5. z \notin Posting /\ z \notin Editing
  BY <1>1, IdleIsNone DEF Posting, Editing, Removing
<1>6. Vacant' /\ EditsBegun'
  BY <1>4, <1>5, OneVacant
<1>7. PICK S : S = {s \in Sock : s[2] = u[2]}
  OBVIOUS
<1>8. ASSUME servers[u[2]].there PROVE Lone' /\ Apart'
  <2>1. /\ cur' = cur /\ stale' = stale
        /\ \A r \in Port \ {u[2]} : servers'[r] = servers[r]
    BY <1>1, <1>8, UnregisterDoes
  <2> QED BY <2>1, <1>2, <1>8 DEF CleanInv, Lone, Apart
<1>9. ASSUME ~servers[u[2]].there PROVE Lone' /\ Apart'
  <2>1. /\ servers' = servers /\ stale' = Cancelled(S)
        /\ \A s \in S : cur'[s] = "none"
        /\ \A s \in Sock \ S : cur'[s] = cur[s] /\ stale'[s] = stale[s]
    BY <1>1, <1>7, <1>9, UnregisterDoes
  <2>2. /\ \A s \in S : cur[s] = "none" => stale'[s] = stale[s]
        /\ \A s \in S : cur[s] = "starting" =>
             stale'[s] = [starting |-> stale[s].starting + 1, open |-> stale[s].open]
        /\ \A s \in S : cur[s] = "open" =>
             stale'[s] = [starting |-> stale[s].starting, open |-> TRUE]
    <3>1. S \in SUBSET Sock
      BY <1>7
    <3>2. /\ \A s \in Sock : s \notin S \/ cur[s] = "none" => Cancelled(S)[s] = stale[s]
          /\ \A s \in S : cur[s] = "starting" =>
               Cancelled(S)[s] = [starting |-> stale[s].starting + 1, open |-> stale[s].open]
          /\ \A s \in S : cur[s] = "open" =>
               Cancelled(S)[s] = [starting |-> stale[s].starting, open |-> TRUE]
      BY <3>1, Cancels
    <3> QED BY <3>1, <3>2, <2>1, Zenon
  <2>3. \A s \in S : cur[s] \in Phase /\ stale[s] \in Stale
    BY <1>7 DEF Typed
  <2>4. Lone'
    <3> SUFFICES ASSUME NEW s \in Sock
                 PROVE  /\ cur'[s] # "none" => ~stale'[s].open /\ stale'[s].starting = 0
                        /\ stale'[s].open => stale'[s].starting = 0
                        /\ stale'[s].starting <= 1
      BY DEF Lone
    <3>1. CASE s \notin S
      BY <3>1, <2>1 DEF CleanInv, Lone
    <3>2. CASE s \in S /\ cur[s] = "none"
      BY <3>2, <2>1, <2>2 DEF CleanInv, Lone
    <3>3. CASE s \in S /\ cur[s] = "starting"
      <4>1. ~stale[s].open /\ stale[s].starting = 0
        BY <3>3 DEF CleanInv, Lone
      <4>2. stale'[s] = [starting |-> stale[s].starting + 1, open |-> stale[s].open]
        BY <3>3, <2>2, Zenon
      <4> QED BY <3>3, <2>1, <4>1, <4>2
    <3>4. CASE s \in S /\ cur[s] = "open"
      <4>1. stale[s].starting = 0
        BY <3>4 DEF CleanInv, Lone
      <4>2. stale'[s] = [starting |-> stale[s].starting, open |-> TRUE]
        BY <3>4, <2>2, Zenon
      <4> QED BY <3>4, <2>1, <4>1, <4>2
    <3> QED BY <3>1, <3>2, <3>3, <3>4, <2>3 DEF Phase
  <2> QED BY <2>1, <2>4, <1>2 DEF CleanInv, Apart
<1> QED BY <1>2, <1>6, <1>8, <1>9 DEF CleanInv

\* A port with an HTTP socket has no raw TCP listener.
LEMMA HttpApart ==
    ASSUME Inv0, CleanInv, NEW p \in Port, http[p] # "none"
    PROVE  cur[<<"tcp", p>>] = "none" /\ ~stale[<<"tcp", p>>].open
           /\ ~(stale[<<"tcp", p>>].starting > 0)
<1>1. servers[p].there
  BY DEF Inv0, Bound
<1>2. <<"tcp", p>> \notin started
  BY <1>1 DEF CleanInv, Apart
<1>3. <<"tcp", p>> \in Sock
  BY DEF Sock
<1> QED BY <1>2, <1>3 DEF Inv0, Begun

\* The steps of the sockets keep all but Lone and the state.
LEMMA SocketsClean ==
    ASSUME CleanInv, Sockets, Lone', state' # "failed"
    PROVE  CleanInv'
<1>1. UNCHANGED <<rows, servers, req, requests, started, blame>>
  BY DEF Sockets, live
<1>2. Apart' /\ EditsBegun'
  BY <1>1 DEF CleanInv, Apart, EditsBegun
<1>3. Vacant'
  BY <1>1 DEF CleanInv, Vacant
<1> QED BY <1>2, <1>3 DEF CleanInv

\* A socket that opens belongs to the only row of its port.
LEMMA ListenClean ==
    ASSUME Inv0, CleanInv, NEW s \in Sock, Listen(s)
    PROVE  CleanInv'
<1> USE DEF Inv0
<1>1. cur[s] = "starting" /\ state = "up" /\ stale' = stale
  BY DEF Listen
<1>2. ~stale[s].open
  BY <1>1 DEF CleanInv, Lone
<1>3. s[1] = "tcp" => http[s[2]] = "none"
  <2> SUFFICES ASSUME s[1] = "tcp", http[s[2]] # "none" PROVE FALSE
    OBVIOUS
  <2>1. s = <<"tcp", s[2]>> /\ s[2] \in Port
    BY DEF Sock
  <2> QED BY <2>1, <1>1, HttpApart
<1>4. ~InUse(s)
  BY <1>1, <1>2, <1>3 DEF InUse
<1>5. cur' = [cur EXCEPT ![s] = "open"] /\ state' = state
  BY <1>4 DEF Listen
<1>6. \A t \in Sock : cur'[t] = "none" <=> cur[t] = "none"
  BY <1>1, <1>5 DEF Typed
<1>7. Lone'
  BY <1>1, <1>6 DEF CleanInv, Lone
<1>8. Sockets
  BY ListenTyped
<1> QED BY <1>1, <1>5, <1>7, <1>8, SocketsClean

\* A listener cancelled before it opened is the only one on its port.
LEMMA ListenStaleClean ==
    ASSUME Inv0, CleanInv, NEW s \in Sock, ListenStale(s)
    PROVE  CleanInv'
<1> USE DEF Inv0
<1>1. stale[s].starting > 0 /\ state = "up" /\ cur' = cur /\ stale[s] \in Stale
  BY DEF ListenStale, Typed
<1>2. stale[s].starting # 0
  BY <1>1 DEF Stale
<1>3. ~stale[s].open /\ cur[s] = "none" /\ stale[s].starting <= 1
  BY <1>2 DEF CleanInv, Lone
<1>4. s[1] = "tcp" => http[s[2]] = "none"
  <2> SUFFICES ASSUME s[1] = "tcp", http[s[2]] # "none" PROVE FALSE
    OBVIOUS
  <2>1. s = <<"tcp", s[2]>> /\ s[2] \in Port
    BY DEF Sock
  <2> QED BY <2>1, <1>1, HttpApart
<1>5. ~InUse(s)
  BY <1>3, <1>4 DEF InUse
<1>6. /\ stale' = [stale EXCEPT ![s] = [starting |-> @.starting - 1, open |-> TRUE]]
      /\ state' = state
  BY <1>5 DEF ListenStale
<1>7. stale'[s] = [starting |-> stale[s].starting - 1, open |-> TRUE]
      /\ \A t \in Sock \ {s} : stale'[t] = stale[t]
  BY <1>6 DEF Typed
<1>8. stale'[s].starting = 0 /\ stale'[s].open
  BY <1>1, <1>2, <1>3, <1>7 DEF Stale
<1>9. Lone'
  BY <1>1, <1>3, <1>7, <1>8 DEF CleanInv, Lone
<1>10. Sockets
  BY ListenStaleTyped
<1> QED BY <1>1, <1>6, <1>9, <1>10, SocketsClean

\* A cancelled listener that ends frees its port.
LEMMA CloseStaleClean ==
    ASSUME Inv0, CleanInv, NEW s \in Sock, CloseStale(s)
    PROVE  CleanInv'
<1> USE DEF Inv0
<1>1. /\ stale[s].open /\ stale' = [stale EXCEPT ![s].open = FALSE]
      /\ cur' = cur /\ state' = state /\ stale[s] \in Stale
  BY DEF CloseStale, Typed
<1>2. /\ stale'[s] = [stale[s] EXCEPT !.open = FALSE]
      /\ \A t \in Sock \ {s} : stale'[t] = stale[t]
  BY <1>1 DEF Typed
<1>3. ~stale'[s].open /\ stale'[s].starting = stale[s].starting
  BY <1>1, <1>2 DEF Stale
<1>4. Lone'
  BY <1>1, <1>2, <1>3 DEF CleanInv, Lone
<1>5. Sockets
  BY CloseStaleTyped
<1> QED BY <1>1, <1>4, <1>5, SocketsClean DEF CleanInv

\* An HTTP server starts on a port that is its own.
LEMMA ServeHTTPClean ==
    ASSUME Inv0, CleanInv, NEW p \in Port, ServeHTTP(p)
    PROVE  CleanInv'
<1> USE DEF Inv0
<1>1. http[p] = "starting" /\ state = "up" /\ cur' = cur /\ stale' = stale
  BY DEF ServeHTTP
<1>2. ~InUse(<<"tcp", p>>)
  BY <1>1, HttpApart DEF InUse
<1>3. state' = state
  BY <1>2 DEF ServeHTTP
<1>4. Lone'
  BY <1>1 DEF CleanInv, Lone
<1>5. Sockets
  BY ServeHTTPTyped
<1> QED BY <1>1, <1>3, <1>4, <1>5, SocketsClean

\* The second layer for a new process whose rows were accepted ...
LEMMA FreshClean == FreshRows /\ Bootable(rows) => CleanInv
<1> SUFFICES ASSUME FreshRows, Bootable(rows) PROVE CleanInv
  OBVIOUS
<1> USE DEF FreshRows
<1>1. /\ \A s \in Sock : cur[s] # "none" <=> \E u \in DOMAIN rows : s \in Socks(u[2], rows[u].kind)
      /\ \A p \in Port : servers[p].there <=>
           \E u \in DOMAIN rows : u[2] = p /\ ~isRaw(rows[u].kind)
  BY FreshListeners DEF Fresh
<1>2. NoStale \in Stale /\ ~NoStale.open /\ NoStale.starting = 0
  BY DEF NoStale, Stale
<1>3. \A s \in Sock : ~stale[s].open /\ stale[s].starting = 0
  BY <1>2 DEF Fresh
<1>4. Lone
  BY <1>3 DEF Lone
<1>5. Apart
  <2> SUFFICES ASSUME NEW p \in Port, servers[p].there, <<"tcp", p>> \in started PROVE FALSE
    BY DEF Apart
  <2>1. PICK u \in DOMAIN rows : u[2] = p /\ ~isRaw(rows[u].kind)
    BY <1>1
  <2>2. PICK v \in DOMAIN rows : <<"tcp", p>> \in Socks(v[2], rows[v].kind)
    BY <1>1 DEF Fresh
  <2>3. v[2] = p /\ isTCP(rows[v].kind)
    BY <2>2 DEF Socks
  <2>4. u # v
    BY <2>1, <2>3 DEF isRaw
  <2> QED BY <2>1, <2>3, <2>4 DEF Bootable
<1>6. \A h \in Handler : req[h] = Idle
  BY DEF Fresh
<1>7. Vacant /\ EditsBegun
  BY <1>6, IdleIsNone DEF Vacant, EditsBegun
<1> QED BY <1>4, <1>5, <1>7 DEF CleanInv, Fresh

\* ... in the next state ...
LEMMA FreshCleanLater == FreshRows' /\ Bootable(rows') => CleanInv'
<1>1. (FreshRows /\ Bootable(rows))' => CleanInv'
  BY FreshClean, PTL
<1> QED BY <1>1

\* ... and after a restart.
LEMMA RestartClean ==
    ASSUME Inv0, Clean', Restart
    PROVE  CleanInv'
<1>1. Inv0' /\ (Bootable(rows') => Fresh(rows)') /\ (~Bootable(rows') => state' = "refused")
      /\ \A h \in Handler : req'[h] = Idle
  BY RestartInv0
<1>2. CASE Bootable(rows')
  <2>1. FreshRows'
    BY <1>1, <1>2 DEF FreshRows, Inv0, Typed, Blames
  <2> QED BY <1>2, <2>1, FreshCleanLater
<1>3. CASE ~Bootable(rows')
  <2>1. /\ servers' = [p \in Port |-> NoServer] /\ state' = "refused"
        /\ stale' = [s \in Sock |-> NoStale]
    BY <1>3 DEF Restart
  <2>2. ~NoServer.there /\ ~NoStale.open /\ NoStale.starting = 0
    BY DEF NoServer, NoStale
  <2>3. Lone' /\ Apart'
    BY <2>1, <2>2 DEF Lone, Apart
  <2>4. Vacant' /\ EditsBegun'
    BY <1>1, IdleIsNone DEF Vacant, EditsBegun
  <2> QED BY <2>1, <2>3, <2>4 DEF CleanInv
<1> QED BY <1>2, <1>3

-----------------------------------------------------------------------------
(* SoundInv, step by step                                                  *)

\* What the rows and the listeners promise each other.
Listened ==
    Bootable(rows) /\ state # "refused" /\ Unshared /\ Live /\ Owned /\ Hosted /\ Departed

\* Of one busy handler, now and after a step.
LEMMA OnlyOne ==
    ASSUME NEW h \in Handler, \A g \in Handler \ {h} : req[g] = Idle, NEW u
    PROVE  /\ Pending(u) <=> req[h].pc = "register" /\ u = <<req[h].body.host, req[h].next>>
           /\ Leaving(u) <=> req[h].pc = "unregister" /\ u \in req[h].urls
<1>1. \A g \in Handler \ {h} : req[g].pc = "idle"
  BY IdleOK
<1> QED BY <1>1 DEF Pending, Leaving

\* With one busy handler, what is pending and what is leaving is its own.
LEMMA OnlyOneLater ==
    ASSUME NEW h \in Handler, NEW z, req'[h] = z, \A g \in Handler \ {h} : req'[g] = Idle, NEW u
    PROVE  /\ Pending(u)' <=> z.pc = "register" /\ u = <<z.body.host, z.next>>
           /\ Leaving(u)' <=> z.pc = "unregister" /\ u \in z.urls
<1>1. \A g \in Handler \ {h} : req'[g].pc = "idle"
  BY IdleOK
<1> QED BY <1>1 DEF Pending, Leaving

\* What the only busy handler has to show.
LEMMA OneChecked ==
    ASSUME NEW h \in Handler, NEW z \in Request, req'[h] = z,
           \A g \in Handler \ {h} : req'[g] = Idle,
           z \in Posting => \A p \in Validated(z) : ValidateRoute(p, z.body.kind)',
           NEW u, u = <<z.body.host, z.next>>,
           z.pc = "register" =>
             /\ rows'[u].tls = z.body.tls
             /\ ~isRaw(z.body.kind) =>
                  /\ servers'[u[2]].there => servers'[u[2]].tls = z.body.tls
                  /\ z.body.tls => CertFiles
                  /\ z.body.good,
           z \in Editing => /\ z.url \in DOMAIN rows' /\ rows'[z.url].n = z.row.n
                            /\ rows'[z.url].kind = z.row.kind
    PROVE  Checked' /\ Prepared' /\ Edited'
<1>1. \A g \in Handler : g = h \/ (req'[g] \notin Posting /\ req'[g] \notin Editing
                                   /\ req'[g].pc # "register")
  BY IdleIsNone, IdleOK
<1>2. Checked'
  <2> SUFFICES ASSUME NEW g \in Handler, req'[g] \in Posting, NEW p \in Validated(req'[g]),
                      NEW k, k = req'[g].body.kind
               PROVE  ValidateRoute(p, k)'
    BY DEF Checked, ValidateRoute
  <2> QED BY <1>1 DEF ValidateRoute
<1>3. Prepared'
  BY <1>1 DEF Prepared
<1>4. Edited'
  BY <1>1 DEF Edited
<1> QED BY <1>2, <1>3, <1>4

\* The listeners and the urls stay, and no request comes to or leaves a step
\* that counts.
LEMMA SteadySound ==
    ASSUME Inv0, SoundInv, servers' = servers, state' # "refused",
           \A s \in Sock : cur'[s] = "none" <=> cur[s] = "none",
           Bootable(rows'), DOMAIN rows' = DOMAIN rows,
           \A u \in DOMAIN rows : /\ rows'[u].kind = rows[u].kind /\ rows'[u].tls = rows[u].tls
                                  /\ rows'[u].source = rows[u].source,
           \A u : Pending(u)' <=> Pending(u), \A u : Leaving(u)' <=> Leaving(u)
    PROVE  Listened'
<1> USE DEF SoundInv
<1>1. Unshared'
  BY DEF Unshared
<1>2. \A u \in DOMAIN rows : Socks(u[2], rows[u].kind) \subseteq Sock
  BY DEF Socks
<1>3. Live'
  BY <1>2 DEF Live, Serving
<1>4. Owned'
  BY DEF Owned
<1>5. Hosted'
  BY DEF Hosted
<1>6. Departed'
  <2>1. \A p : RowsAt(rows, p)' = RowsAt(rows, p)
    BY DEF RowsAt
  <2> QED BY <2>1 DEF Departed
<1> QED BY <1>1, <1>3, <1>4, <1>5, <1>6 DEF Listened

\* The third layer is what the listeners have to show (Listened) and three
\* parts about the requests.
LEMMA ListenedSound ==
    ASSUME Listened', Checked', Prepared', Edited'
    PROVE  SoundInv'
BY DEF Listened, SoundInv

\* Sockets that open or close in their own time change nothing it speaks of.
LEMMA SocketsSound ==
    ASSUME Inv0, SoundInv, Sockets
    PROVE  SoundInv'
<1>1. UNCHANGED <<rows, servers, req, requests, started, blame>>
  BY DEF Sockets, live
<1>2. \A s \in Sock : cur'[s] = "none" <=> cur[s] = "none"
  BY DEF Sockets
<1>3. /\ \A u : Pending(u)' <=> Pending(u)
      /\ \A u : Leaving(u)' <=> Leaving(u)
  BY <1>1 DEF Pending, Leaving
<1>4. state' # "refused" /\ Bootable(rows')
  BY <1>1 DEF Sockets, SoundInv
<1>5. Listened'
  BY <1>1, <1>2, <1>3, <1>4, SteadySound
<1>6. \A p \in Port : <<"tcp", p>> \in Sock /\ <<"udp", p>> \in Sock
  BY DEF Sock
<1>7. Checked'
  <2> SUFFICES ASSUME NEW h \in Handler, req'[h] \in Posting, NEW p \in Validated(req'[h]),
                      NEW k, k = req'[h].body.kind
               PROVE  ValidateRoute(p, k)'
    BY DEF Checked, ValidateRoute
  <2>1. p \in Port
    BY DEF Validated
  <2>2. ValidateRoute(p, k)
    BY <1>1 DEF SoundInv, Checked
  <2> QED BY <2>1, <2>2, <1>1, <1>2, <1>6 DEF ValidateRoute
<1>8. Prepared' /\ Edited'
  BY <1>1 DEF SoundInv, Prepared, Edited
<1> QED BY <1>5, <1>7, <1>8, ListenedSound

\* The third layer holds after a POST has begun ...
LEMMA PostSound ==
    ASSUME Inv0, SoundInv, Sound', NEW h \in Handler, NEW b \in Posts, Post(h, b)
    PROVE  SoundInv'
<1> DEFINE body == [b EXCEPT !.tls = @ /\ ~isRaw(b.kind)]
<1>1. /\ body \in Body /\ body.first = b.first /\ body.last = b.last
      /\ b.first \in Port /\ b.first <= b.last /\ b.first .. b.last \subseteq Port
  BY BodyOK
<1> HIDE DEF body
<1>2. PICK q : q = [pc |-> "validate", next |-> b.first, n |-> requests + 1, body |-> body]
  OBVIOUS
<1>3. Begin(h, q) /\ UNCHANGED <<rows, servers, http, cur, stale, state, started>>
  BY <1>2 DEF Post, body
<1>4. requests \in Nat
  BY DEF Inv0, Typed
<1>5. q \in Posting /\ q.pc = "validate" /\ q.next = q.body.first /\ q.n = requests + 1
      /\ q.body = body
  BY <1>1, <1>2, <1>4 DEF Posting
<1>6. Stage(q)
  <2>1. requests + 1 > 0 /\ b.first <= b.first /\ q \notin Undoing /\ q \notin Editing
    BY <1>1, <1>4, <1>5, PortNat DEF Undoing, Editing
  <2> QED BY <2>1, <1>1, <1>5 DEF Stage
<1>7. q \in Request /\ q \notin Editing
  BY <1>5 DEF Request, Editing
<1>8. /\ req'[h] = q /\ req[h] = Idle
      /\ \A g \in Handler \ {h} : req[g] = Idle /\ req'[g] = Idle
  BY <1>3, <1>6, <1>7, BeginsAlone DEF Inv0, Sound
<1>9. Validated(q) = {}
  BY <1>5, <1>6, ValidatedMoves
<1>10. Checked' /\ Prepared' /\ Edited'
  BY <1>5, <1>7, <1>8, <1>9, OneChecked
<1>11. \A u : ~Pending(u) /\ ~Leaving(u)
  BY <1>8, OnlyOne, IdleOK
<1>12. \A u : ~Pending(u)' /\ ~Leaving(u)'
  BY <1>5, <1>8, OnlyOneLater
<1>13. Listened'
  BY <1>3, <1>11, <1>12, SteadySound DEF SoundInv
<1> QED BY <1>10, <1>13, ListenedSound

\* ... an edit has begun ...
LEMMA PutSound ==
    ASSUME Inv0, SoundInv, Sound', NEW h \in Handler, NEW u \in DOMAIN rows,
           NEW good \in BOOLEAN, Put(h, u, good)
    PROVE  SoundInv'
<1>1. PICK r : r = [rows[u] EXCEPT !.good = good]
  OBVIOUS
<1>2. r \in Row /\ r.n = rows[u].n /\ r.source = rows[u].source /\ r.kind = rows[u].kind
  BY <1>1 DEF Inv0, Typed, Row
<1>3. PICK q : q = [pc |-> "endpoint", url |-> u, row |-> r]
  OBVIOUS
<1>4. Begin(h, q) /\ UNCHANGED <<rows, servers, http, cur, stale, state, started>>
  BY <1>1, <1>3 DEF Put
<1>5. r.source = "ui" /\ r.n > 0
  BY <1>2, UiRow DEF Put, Inv0
<1>6. q \in Editing /\ q.row = r /\ q.url = u /\ q.pc = "endpoint"
  BY <1>2, <1>3 DEF Editing, Inv0, Typed
<1>7. q \in Request /\ Stage(q) /\ q \notin Posting
  BY <1>5, <1>6 DEF Request, Stage, Posting, Undoing, Editing
<1>8. /\ req'[h] = q /\ req[h] = Idle
      /\ \A g \in Handler \ {h} : req[g] = Idle /\ req'[g] = Idle
  BY <1>4, <1>7, BeginsAlone DEF Inv0, Sound
<1>9. Checked' /\ Prepared' /\ Edited'
  BY <1>2, <1>4, <1>6, <1>7, <1>8, OneChecked
<1>10. \A v : ~Pending(v) /\ ~Leaving(v)
  BY <1>8, OnlyOne, IdleOK
<1>11. \A v : ~Pending(v)' /\ ~Leaving(v)'
  BY <1>6, <1>8, OnlyOneLater
<1>12. Listened'
  BY <1>4, <1>10, <1>11, SteadySound DEF SoundInv
<1> QED BY <1>9, <1>12, ListenedSound

\* ... the check: what it read is still true ...
LEMMA ValidateSound ==
    ASSUME Inv0, SoundInv, Sound', NEW h \in Handler, Validate(h)
    PROVE  SoundInv'
<1>1. PICK q : q = req[h]
  OBVIOUS
<1>2. PICK z \in Request :
        /\ Stage(z) /\ Goto(h, z) /\ q \in Posting /\ q.pc = "validate"
        /\ \/ z = Idle
           \/ /\ ValidateRoute(q.next, q.body.kind)
              /\ z \in Posting /\ z.body = q.body
              /\ \/ z.pc = "validate" /\ z.next = q.next + 1
                 \/ z.pc = "create" /\ z.next = q.body.first /\ q.next = q.body.last
  BY <1>1, ValidateDoes
<1>3. UNCHANGED <<rows, servers, http, cur, stale, state, requests, started, blame>>
  BY DEF Validate
<1>4. req'[h] = z /\ \A g \in Handler \ {h} : req[g] = Idle /\ req'[g] = Idle
  BY <1>1, <1>2, <1>3, OthersIdle DEF Sound
<1>5. z \notin Editing /\ z.pc # "register" /\ z.pc # "unregister"
  BY <1>2, IdleIsNone, IdleOK DEF Posting, Editing
<1>6. ASSUME z \in Posting, NEW p \in Validated(z)
      PROVE  ValidateRoute(p, z.body.kind)'
  <2>1. z # Idle /\ Stage(q)
    BY <1>1, <1>6, IdleIsNone DEF Inv0, Stages
  <2>2. Validated(z) = Validated(q) \cup {q.next}
    BY <1>2, <2>1, ValidatedMoves
  <2>3. \A r \in Validated(q) : ValidateRoute(r, q.body.kind)
    BY <1>1, <1>2 DEF SoundInv, Checked
  <2>4. ValidateRoute(p, z.body.kind)
    BY <1>2, <1>6, <2>1, <2>2, <2>3
  <2> QED BY <1>3, <2>4 DEF ValidateRoute
<1>7. Checked' /\ Prepared' /\ Edited'
  BY <1>4, <1>5, <1>6, OneChecked
<1>8. \A u : ~Pending(u) /\ ~Leaving(u)
  BY <1>1, <1>2, <1>4, OnlyOne
<1>9. \A u : ~Pending(u)' /\ ~Leaving(u)'
  BY <1>4, <1>5, OnlyOneLater
<1>10. Listened'
  BY <1>3, <1>8, <1>9, SteadySound DEF SoundInv
<1> QED BY <1>7, <1>10, ListenedSound

\* ... the target has changed in the row ...
LEMMA UpdateSound ==
    ASSUME Inv0, SoundInv, Sound', NEW h \in Handler, UpdateRouteEndpoint(h)
    PROVE  SoundInv'
<1>1. PICK q, u, r : q = req[h] /\ u = q.url /\ r = q.row
  OBVIOUS
<1>2. /\ q \in Editing /\ q.pc = "endpoint"
      /\ UNCHANGED <<servers, http, cur, stale, state, requests, started>>
  BY <1>1, UpdateDoes
<1>3. u \in DOMAIN rows /\ rows[u].n = r.n /\ rows[u].kind = r.kind
  BY <1>1, <1>2 DEF SoundInv, Edited
<1>4. /\ DOMAIN rows' = DOMAIN rows
      /\ rows'[u] = [rows[u] EXCEPT !.good = r.good]
      /\ \A v \in DOMAIN rows \ {u} : rows'[v] = rows[v]
      /\ blame' = blame \cup (Mistakes(u, r) \cap {"target"})
      /\ \E z \in Request :
           Stage(z) /\ Goto(h, z) /\ z \in Editing /\ z.pc = "reregister" /\ z.url = u /\ z.row = r
  BY <1>1, <1>3, UpdateDoes
<1>5. PICK z \in Request :
        Goto(h, z) /\ z \in Editing /\ z.pc = "reregister" /\ z.url = u /\ z.row = r
  BY <1>4
<1>6. req'[h] = z /\ \A g \in Handler \ {h} : req[g] = Idle /\ req'[g] = Idle
  BY <1>1, <1>2, <1>4, <1>5, OthersIdle DEF Sound
<1>7. rows[u] \in Row /\ r \in Row
  BY <1>1, <1>2, <1>3 DEF Inv0, Typed, Editing
<1>8. /\ rows'[u].kind = rows[u].kind /\ rows'[u].tls = rows[u].tls
      /\ rows'[u].source = rows[u].source /\ rows'[u].n = rows[u].n /\ rows'[u].good = r.good
  BY <1>4, <1>7 DEF Row
<1>9. isRaw(r.kind) \/ r.good
  <2>1. "target" \notin Mistakes(u, r)
    BY <1>4 DEF Sound
  <2> QED BY <2>1 DEF Mistakes
<1>10. \A v \in DOMAIN rows : /\ rows'[v].kind = rows[v].kind /\ rows'[v].tls = rows[v].tls
                              /\ rows'[v].source = rows[v].source
  BY <1>4, <1>8
<1>11. Bootable(rows')
  <2>1. \A v \in DOMAIN rows' : ~isRaw(rows'[v].kind) => (rows'[v].tls => CertFiles) /\ rows'[v].good
    BY <1>3, <1>4, <1>8, <1>9, <1>10 DEF SoundInv, Bootable
  <2> QED BY <2>1, <1>4, <1>10 DEF SoundInv, Bootable
<1>12. z \notin Posting
  BY <1>5 DEF Posting, Editing
<1>13. Checked' /\ Prepared' /\ Edited'
  <2>1. z.pc # "register" /\ z.url \in DOMAIN rows' /\ rows'[z.url].n = z.row.n
        /\ rows'[z.url].kind = z.row.kind
    BY <1>3, <1>4, <1>5, <1>8
  <2> QED BY <2>1, <1>6, <1>12, OneChecked
<1>14. \A v : ~Pending(v) /\ ~Leaving(v)
  BY <1>1, <1>2, <1>6, OnlyOne
<1>15. \A v : ~Pending(v)' /\ ~Leaving(v)'
  BY <1>5, <1>6, OnlyOneLater
<1>16. Listened'
  BY <1>2, <1>4, <1>10, <1>11, <1>14, <1>15, SteadySound DEF SoundInv
<1> QED BY <1>13, <1>16, ListenedSound

\* Rows made in the admin panel are deleted; they are to be unregistered.
LEMMA RemoveSound ==
    ASSUME Inv0, SoundInv, UNCHANGED <<servers, cur, state>>,
           NEW U \in SUBSET DOMAIN rows, U \cap DOMAIN Config = {},
           rows' = [v \in DOMAIN rows \ U |-> rows[v]],
           \A v : ~Pending(v) /\ ~Leaving(v),
           \A v : ~Pending(v)' /\ (Leaving(v)' <=> v \in U)
    PROVE  Listened'
<1> USE DEF SoundInv, Inv0
<1>1. /\ DOMAIN rows' = DOMAIN rows \ U
      /\ \A v \in DOMAIN rows' : v \in DOMAIN rows /\ rows'[v] = rows[v]
  OBVIOUS
<1>2. \A v \in U : v \in DOMAIN rows /\ rows[v].source = "ui"
  BY DEF Configured
<1>3. Bootable(rows')
  BY <1>1 DEF Bootable
<1>4. Unshared'
  BY <1>1 DEF Unshared
<1>5. \A v \in DOMAIN rows : Serving(v)
  BY DEF Live
<1>6. Live'
  BY <1>1, <1>5 DEF Live, Serving
<1>7. Owned'
  <2> SUFFICES ASSUME NEW s \in Sock, cur[s] # "none"
               PROVE  \/ \E v \in DOMAIN rows' : s \in Socks(v[2], rows'[v].kind)
                      \/ ~servers[s[2]].there /\ \E v \in Url : Leaving(v)' /\ v[2] = s[2]
    BY DEF Owned
  <2>1. PICK v \in DOMAIN rows : s \in Socks(v[2], rows[v].kind)
    BY DEF Owned
  <2>2. CASE v \notin U
    BY <2>1, <2>2, <1>1
  <2>3. CASE v \in U
    <3>1. v[2] = s[2] /\ isRaw(rows[v].kind)
      BY <2>1 DEF Socks, isRaw
    <3>2. ~servers[v[2]].there
      BY <3>1, <2>3, <1>2 DEF Unshared
    <3>3. v \in Url
      BY DEF Typed
    <3> QED BY <3>1, <3>2, <3>3, <2>3
  <2> QED BY <2>2, <2>3
<1>8. Hosted'
  <2> SUFFICES ASSUME NEW p \in Port, NEW x \in servers[p].hosts
               PROVE  \/ <<x, p>> \in DOMAIN rows' /\ ~isRaw(rows'[<<x, p>>].kind)
                      \/ Leaving(<<x, p>>)'
    BY DEF Hosted
  <2>1. <<x, p>> \in DOMAIN rows /\ ~isRaw(rows[<<x, p>>].kind)
    BY DEF Hosted
  <2> QED BY <2>1, <1>1
<1>9. Departed'
  <2> SUFFICES ASSUME NEW u \in U, ~servers[u[2]].there,
                      NEW v \in DOMAIN rows', v[2] = u[2]
               PROVE  FALSE
    BY <1>1 DEF Departed, RowsAt
  <2>1. u \in DOMAIN rows /\ rows[u].source = "ui" /\ v \in DOMAIN rows /\ u # v
    BY <1>1, <1>2
  <2>2. ~isUDP(rows[u].kind) /\ ~isUDP(rows[v].kind)
    BY <2>1 DEF Unshared
  <2>3. isRaw(rows[u].kind)
    BY <2>1, <1>5 DEF Serving
  <2>4. isTCP(rows[u].kind)
    BY <2>2, <2>3 DEF isRaw
  <2>5. isTCP(rows[v].kind) \/ ~isRaw(rows[v].kind)
    BY <2>2 DEF isRaw
  <2> QED BY <2>1, <2>4, <2>5 DEF Bootable
<1> QED BY <1>3, <1>4, <1>6, <1>7, <1>8, <1>9 DEF Listened

\* ... a row is gone and its listener not yet ...
LEMMA DeleteSound ==
    ASSUME Inv0, SoundInv, Sound', NEW h \in Handler, NEW u, NEW U \in SUBSET DOMAIN rows,
           Delete(h, u, U), U \cap DOMAIN Config = {}
    PROVE  SoundInv'
<1>1. PICK q : q = [pc |-> "unregister", urls |-> U]
  OBVIOUS
<1>2. /\ Begin(h, q) /\ UNCHANGED <<servers, http, cur, stale, state, started>>
      /\ rows' = [v \in DOMAIN rows \ U |-> rows[v]]
  BY <1>1 DEF Delete
<1>3. q \in Request /\ Stage(q) /\ q \notin Posting /\ q \notin Editing
      /\ q.pc = "unregister" /\ q.urls = U
  BY <1>1 DEF Request, Removing, Stage, Posting, Undoing, Editing, Inv0, Typed
<1>4. /\ req'[h] = q /\ req[h] = Idle
      /\ \A g \in Handler \ {h} : req[g] = Idle /\ req'[g] = Idle
  BY <1>2, <1>3, BeginsAlone DEF Inv0, Sound
<1>5. Checked' /\ Prepared' /\ Edited'
  BY <1>3, <1>4, OneChecked
<1>6. \A v : ~Pending(v) /\ ~Leaving(v)
  BY <1>4, OnlyOne, IdleOK
<1>7. \A v : ~Pending(v)' /\ (Leaving(v)' <=> v \in U)
  BY <1>3, <1>4, OnlyOneLater
<1>8. Listened'
  BY <1>2, <1>6, <1>7, RemoveSound
<1> QED BY <1>5, <1>8, ListenedSound

\* The urls that the two kinds of DELETE take away.
LEMMA Deletes ==
    ASSUME Inv0, NEW h \in Handler, NEW u \in DOMAIN rows,
           DeleteRoute(h, u) \/ DeleteRouteGroup(h, u)
    PROVE  \E U \in SUBSET DOMAIN rows : Delete(h, u, U) /\ U \cap DOMAIN Config = {}
<1>1. CASE DeleteRoute(h, u)
  <2>1. u \notin DOMAIN Config /\ Delete(h, u, {u})
    BY <1>1, UiRow DEF Inv0, DeleteRoute, Delete
  <2> QED BY <2>1
<1>2. CASE DeleteRouteGroup(h, u)
  <2> DEFINE U == {v \in DOMAIN rows : rows[v].n = rows[u].n /\ rows[v].range}
  <2>1. Delete(h, u, U) /\ u \notin DOMAIN Config
    BY <1>2, UiRow DEF Inv0, DeleteRouteGroup, Delete
  <2>2. \A v \in U : v \notin DOMAIN Config
    BY <2>1, UiRow DEF Inv0
  <2> QED BY <2>1, <2>2
<1> QED BY <1>1, <1>2

\* ... the rows of a failed request are gone ...
LEMMA RollbackSound ==
    ASSUME Inv0, SoundInv, Sound', NEW h \in Handler, Rollback(h)
    PROVE  SoundInv'
<1>1. PICK U \in SUBSET DOMAIN rows, z \in Request :
        /\ Goto(h, z) /\ req[h].pc = "rollback"
        /\ U \cap DOMAIN Config = {}
        /\ rows' = [v \in DOMAIN rows \ U |-> rows[v]]
        /\ (z = Idle /\ U = {}) \/ (z \in Removing /\ z.urls = U)
        /\ UNCHANGED <<servers, http, cur, stale, state, requests, started, blame>>
  BY RollbackDoes
<1>2. req'[h] = z /\ \A g \in Handler \ {h} : req[g] = Idle /\ req'[g] = Idle
  BY <1>1, OthersIdle DEF Sound
<1>3. z \notin Posting /\ z \notin Editing /\ z.pc # "register"
  BY <1>1, IdleIsNone, IdleOK DEF Posting, Editing, Removing
<1>4. Checked' /\ Prepared' /\ Edited'
  BY <1>2, <1>3, OneChecked
<1>5. \A v : ~Pending(v) /\ ~Leaving(v)
  BY <1>1, <1>2, OnlyOne
<1>6. \A v : ~Pending(v)' /\ (Leaving(v)' <=> v \in U)
  <2>1. \A v : (z.pc = "unregister" /\ v \in z.urls) <=> v \in U
    BY <1>1, IdleOK DEF Removing
  <2> QED BY <1>2, <1>3, <2>1, OnlyOneLater
<1>7. Listened'
  BY <1>1, <1>5, <1>6, RemoveSound
<1> QED BY <1>4, <1>7, ListenedSound

\* A row without mistakes on a port that ValidateRoute still calls free.
LEMMA NewRowSound ==
    ASSUME Inv0, SoundInv, \A v : ~Pending(v) /\ ~Leaving(v),
           NEW p \in Port, NEW u \in Url, u[2] = p, u \notin DOMAIN rows, NEW r \in Row,
           Mistakes(u, r) = {}, ValidateRoute(p, r.kind), r.source = "ui",
           DOMAIN rows' = DOMAIN rows \cup {u}, rows'[u] = r,
           \A v \in DOMAIN rows : rows'[v] = rows[v],
           UNCHANGED <<servers, cur, state>>,
           Pending(u)', \A v : ~Leaving(v)'
    PROVE  Listened'
<1> USE DEF SoundInv, Inv0
<1>1. \A v \in DOMAIN rows : Serving(v)
  BY DEF Live
<1>2. /\ \A v \in DOMAIN rows : v[2] = p => ~isUDP(r.kind) /\ ~isUDP(rows[v].kind)
      /\ isUDP(r.kind) => ~servers[p].there
  <2>1. "shared" \notin Mistakes(u, r)
    OBVIOUS
  <2> QED BY <2>1 DEF Mistakes, RowsAt
<1>3. ~isRaw(r.kind) => /\ r.tls => CertFiles
                        /\ servers[p].there => servers[p].tls = r.tls
                        /\ r.good
  <2>1. "tls" \notin Mistakes(u, r) /\ "target" \notin Mistakes(u, r)
    OBVIOUS
  <2> QED BY <2>1 DEF Mistakes
<1>4. \A v \in DOMAIN rows : v[2] = p /\ isTCP(rows[v].kind) => cur[<<"tcp", p>>] # "none"
  <2> SUFFICES ASSUME NEW v \in DOMAIN rows, v[2] = p, isTCP(rows[v].kind)
               PROVE  cur[<<"tcp", p>>] # "none"
    OBVIOUS
  <2>1. rows[v].kind \in Kind
    BY DEF Typed, Row
  <2>2. <<"tcp", p>> \in Socks(v[2], rows[v].kind) /\ isRaw(rows[v].kind)
    BY <2>1, SocksOf DEF isRaw
  <2> QED BY <2>2, <1>1 DEF Serving
<1>5. \A v \in DOMAIN rows : v[2] = p /\ ~isRaw(rows[v].kind) =>
        servers[p].there /\ servers[p].tls = rows[v].tls
  BY <1>1 DEF Serving
<1>6. ASSUME NEW v \in DOMAIN rows, v[2] = p
      PROVE  /\ ~(isTCP(r.kind) /\ isTCP(rows[v].kind))
             /\ ~(isUDP(r.kind) \/ isUDP(rows[v].kind))
             /\ ~(isTCP(r.kind) /\ ~isRaw(rows[v].kind))
             /\ ~(~isRaw(r.kind) /\ isTCP(rows[v].kind))
             /\ ~isRaw(r.kind) /\ ~isRaw(rows[v].kind) => r.tls = rows[v].tls
  BY <1>2, <1>3, <1>4, <1>5, <1>6 DEF ValidateRoute
<1>7. Bootable(rows')
  <2>1. \A v \in DOMAIN rows' : ~isRaw(rows'[v].kind) => (rows'[v].tls => CertFiles) /\ rows'[v].good
    BY <1>3 DEF Bootable
  <2>2. ASSUME NEW a \in DOMAIN rows', NEW b \in DOMAIN rows', a # b, a[2] = b[2]
        PROVE  /\ ~(isTCP(rows'[a].kind) /\ isTCP(rows'[b].kind))
               /\ ~(isUDP(rows'[a].kind) /\ isUDP(rows'[b].kind))
               /\ ~(isTCP(rows'[a].kind) /\ ~isRaw(rows'[b].kind))
               /\ ~isRaw(rows'[a].kind) /\ ~isRaw(rows'[b].kind) => rows'[a].tls = rows'[b].tls
    <3>1. CASE a = u
      <4>1. b \in DOMAIN rows /\ b[2] = p /\ rows'[b] = rows[b] /\ rows'[a] = r
        BY <2>2, <3>1
      <4> QED BY <4>1, <1>6
    <3>2. CASE b = u
      <4>1. a \in DOMAIN rows /\ a[2] = p /\ rows'[a] = rows[a] /\ rows'[b] = r
        BY <2>2, <3>2
      <4> QED BY <4>1, <1>6
    <3>3. CASE a # u /\ b # u
      <4>1. a \in DOMAIN rows /\ b \in DOMAIN rows /\ rows'[a] = rows[a] /\ rows'[b] = rows[b]
        BY <2>2, <3>3
      <4> QED BY <4>1, <2>2 DEF Bootable
    <3> QED BY <3>1, <3>2, <3>3
  <2> QED BY <2>1, <2>2 DEF Bootable
<1>8. Unshared'
  <2>1. ASSUME NEW a \in DOMAIN rows', NEW b \in DOMAIN rows', a # b, a[2] = b[2],
               rows'[a].source = "ui"
        PROVE  ~isUDP(rows'[a].kind) /\ ~isUDP(rows'[b].kind)
    <3>1. CASE a = u
      <4>1. b \in DOMAIN rows /\ b[2] = p /\ rows'[b] = rows[b] /\ rows'[a] = r
        BY <2>1, <3>1
      <4> QED BY <4>1, <1>6
    <3>2. CASE b = u
      <4>1. a \in DOMAIN rows /\ a[2] = p /\ rows'[a] = rows[a] /\ rows'[b] = r
        BY <2>1, <3>2
      <4> QED BY <4>1, <1>6
    <3>3. CASE a # u /\ b # u
      <4>1. a \in DOMAIN rows /\ b \in DOMAIN rows /\ rows'[a] = rows[a] /\ rows'[b] = rows[b]
        BY <2>1, <3>3
      <4> QED BY <4>1, <2>1 DEF Unshared
    <3> QED BY <3>1, <3>2, <3>3
  <2>2. isRaw(r.kind) => ~servers[p].there
    BY <1>2 DEF ValidateRoute, isRaw
  <2>3. \A a \in DOMAIN rows' : rows'[a].source = "ui" /\ isRaw(rows'[a].kind) =>
          ~servers'[a[2]].there
    BY <2>2 DEF Unshared
  <2> QED BY <2>1, <2>3 DEF Unshared
<1>9. Live'
  <2> SUFFICES ASSUME NEW v \in DOMAIN rows, v # u PROVE Serving(v)'
    BY DEF Live
  <2> QED BY <1>1 DEF Serving
<1>10. Owned'
  BY DEF Owned
<1>11. Hosted'
  BY DEF Hosted
<1>12. Departed'
  BY DEF Departed
<1> QED BY <1>7, <1>8, <1>9, <1>10, <1>11, <1>12 DEF Listened

\* ... a row is there and its listener not yet ...
LEMMA CreateRouteSound ==
    ASSUME Inv0, SoundInv, Sound', NEW h \in Handler, CreateRoute(h)
    PROVE  SoundInv'
<1>1. PICK q, u : q = req[h] /\ u = <<q.body.host, q.next>>
  OBVIOUS
<1>2. /\ q \in Posting /\ q.pc = "create" /\ Stage(q)
      /\ UNCHANGED <<servers, http, cur, stale, state, requests, started>>
      /\ blame \subseteq blame'
  BY <1>1, CreateDoes DEF Inv0, Stages
<1>3. \A z : Goto(h, z) =>
        req'[h] = z /\ \A g \in Handler \ {h} : req[g] = Idle /\ req'[g] = Idle
  BY <1>1, <1>2, OthersIdle DEF Sound
<1>4. CASE /\ UNCHANGED <<rows, blame>>
           /\ \E z \in Request : Stage(z) /\ Goto(h, z) /\ (z = Idle \/ z \in Undoing)
  <2>1. PICK z \in Request : Goto(h, z) /\ (z = Idle \/ z \in Undoing)
    BY <1>4
  <2>2. /\ z \notin Posting /\ z \notin Editing
        /\ z.pc # "register" /\ z.pc # "unregister"
    BY <2>1, IdleIsNone, IdleOK DEF Posting, Editing, Undoing
  <2>3. req'[h] = z /\ \A g \in Handler \ {h} : req[g] = Idle /\ req'[g] = Idle
    BY <2>1, <1>3
  <2>4. Checked' /\ Prepared' /\ Edited'
    BY <2>2, <2>3, OneChecked
  <2>5. \A v : ~Pending(v) /\ ~Leaving(v)
    BY <1>1, <1>2, <2>3, OnlyOne
  <2>6. \A v : ~Pending(v)' /\ ~Leaving(v)'
    BY <2>2, <2>3, OnlyOneLater
  <2>7. Listened'
    BY <1>2, <1>4, <2>5, <2>6, SteadySound DEF SoundInv
  <2> QED BY <2>4, <2>7, ListenedSound
<1>5. CASE /\ u \notin DOMAIN rows
           /\ rows' = [v \in DOMAIN rows \cup {u} |-> IF v = u THEN NewRow(q) ELSE rows[v]]
           /\ blame' = blame \cup Mistakes(u, NewRow(q))
           /\ \E z \in Request :
                /\ Stage(z) /\ Goto(h, z) /\ z \in Posting /\ z.pc = "register"
                /\ z.next = q.next /\ z.body = q.body
  <2>1. PICK z \in Request : /\ Goto(h, z) /\ z \in Posting /\ z.pc = "register"
                             /\ z.next = q.next /\ z.body = q.body
    BY <1>5
  <2>2. req'[h] = z /\ \A g \in Handler \ {h} : req[g] = Idle /\ req'[g] = Idle
    BY <2>1, <1>3
  <2>3. PICK r : r = NewRow(q)
    OBVIOUS
  <2>4. /\ r \in Row /\ r.kind = q.body.kind /\ r.tls = q.body.tls /\ r.good = q.body.good
        /\ r.source = "ui" /\ u \in Url
    BY <1>1, <1>2, <2>3, NewRowOK
  <2>5. /\ DOMAIN rows' = DOMAIN rows \cup {u} /\ rows'[u] = r
        /\ \A v \in DOMAIN rows : rows'[v] = rows[v]
    BY <1>5, <2>3
  <2>6. Mistakes(u, r) = {}
    <3>1. Mistakes(u, r) \subseteq {"shared", "tls", "target"}
      BY DEF Mistakes
    <3>2. Mistakes(u, r) \subseteq {"restart"}
      BY <1>5, <2>3 DEF Sound
    <3> QED BY <3>1, <3>2
  <2>7. q.next \in Port /\ u[2] = q.next
    BY <1>1, <1>2 DEF Posting
  <2>8. \A p \in Validated(q) : ValidateRoute(p, q.body.kind)
    BY <1>1, <1>2 DEF SoundInv, Checked
  <2>9. q.next \in Validated(q) /\ Validated(z) = Validated(q)
    BY <1>2, <2>1, ValidatedMoves
  <2>10. \A v : ~Pending(v) /\ ~Leaving(v)
    BY <1>1, <1>2, <2>2, OnlyOne
  <2>11. Pending(u)' /\ \A v : ~Leaving(v)'
    BY <1>1, <2>1, <2>2, OnlyOneLater
  <2>12. Listened'
    <3>1. ValidateRoute(q.next, r.kind)
      BY <2>4, <2>8, <2>9
    <3> QED BY <1>2, <1>5, <2>4, <2>5, <2>6, <2>7, <2>10, <2>11, <3>1, NewRowSound
  <2>13. ~isRaw(r.kind) => /\ r.tls => CertFiles
                           /\ servers[u[2]].there => servers[u[2]].tls = r.tls
                           /\ r.good
    <3>1. "tls" \notin Mistakes(u, r) /\ "target" \notin Mistakes(u, r)
      BY <2>6
    <3> QED BY <3>1 DEF Mistakes
  <2>14. \A p \in Validated(z) : ValidateRoute(p, z.body.kind)'
    BY <1>2, <2>1, <2>8, <2>9 DEF ValidateRoute
  <2>15. z \notin Editing
    BY <2>1 DEF Posting, Editing
  <2>16. Checked' /\ Prepared' /\ Edited'
    <3>1. u = <<z.body.host, z.next>>
      BY <1>1, <2>1
    <3>2. /\ rows'[u].tls = z.body.tls
          /\ ~isRaw(z.body.kind) =>
               /\ servers'[u[2]].there => servers'[u[2]].tls = z.body.tls
               /\ z.body.tls => CertFiles
               /\ z.body.good
      BY <1>2, <2>1, <2>4, <2>5, <2>13
    <3> QED BY <2>2, <2>14, <2>15, <3>1, <3>2, OneChecked
  <2> QED BY <2>12, <2>16, ListenedSound
<1> QED BY <1>1, <1>4, <1>5, CreateDoes

\* The row u is registered as it is, with nothing in the way.
LEMMA RowRegistered ==
    ASSUME Inv0, SoundInv, rows' = rows, state' = state,
           \A v : ~Leaving(v) /\ ~Leaving(v)' /\ ~Pending(v)',
           NEW u \in DOMAIN rows, NEW p, NEW k, p = u[2], k = rows[u].kind,
           \A v : Pending(v) => v = u,
           NEW tls \in BOOLEAN, NEW good \in BOOLEAN, RegisterRoute(u[1], p, k, tls, good),
           ~isRaw(k) =>
             /\ servers[p].there => servers[p].tls = rows[u].tls
             /\ ~servers[p].there =>
                  cur[<<"tcp", p>>] = "none" /\ (tls => CertFiles) /\ tls = rows[u].tls
             /\ good \/ u[1] \in servers[p].hosts
    PROVE  /\ Listened'
           /\ \A r \in Port \ {p} : \A t : ValidateRoute(r, t) => ValidateRoute(r, t)'
<1> USE DEF SoundInv, Inv0
<1>1. u \in Url /\ u[1] \in Host /\ p \in Port /\ k \in Kind /\ u = <<u[1], p>>
  BY DEF Typed, Url, Row
<1>2. Bootable(rows') /\ state' # "refused"
  OBVIOUS
<1>3. \A v \in DOMAIN rows \ {u} : Serving(v)
  BY DEF Live
<1>4. \A v \in DOMAIN rows : v[2] \in Port /\ rows[v].kind \in Kind
  BY DEF Typed, Url, Row
<1>5. \A v \in DOMAIN rows : Socks(v[2], rows[v].kind) \subseteq Sock
  BY DEF Socks
<1>6. ASSUME isRaw(k)
      PROVE  /\ Listened'
             /\ \A r \in Port \ {p} : \A t : ValidateRoute(r, t) => ValidateRoute(r, t)'
  <2>1. RegisterRaw(p, k)
    BY <1>6 DEF RegisterRoute
  <2>2. /\ servers' = servers
        /\ \A s \in Socks(p, k) : cur'[s] = "starting"
        /\ \A s \in Sock \ Socks(p, k) : cur'[s] = cur[s]
    BY <1>1, <2>1, RegisterRawDoes
  <2>3. \A s \in Sock : cur[s] # "none" => cur'[s] # "none"
    BY <2>2
  <2>4. Unshared'
    BY <2>2 DEF Unshared
  <2>5. Live'
    <3>1. Serving(u)'
      BY <1>6, <2>2 DEF Serving
    <3>2. \A v \in DOMAIN rows \ {u} : Serving(v)'
      BY <1>3, <1>5, <2>2, <2>3 DEF Serving
    <3> QED BY <3>1, <3>2 DEF Live
  <2>6. Owned'
    BY <2>2 DEF Owned
  <2>7. Hosted'
    BY <2>2 DEF Hosted
  <2>8. Departed'
    BY DEF Departed
  <2>9. \A r \in Port \ {p} : /\ <<"tcp", r>> \in Sock \ Socks(p, k)
                              /\ <<"udp", r>> \in Sock \ Socks(p, k)
    BY DEF Sock, Socks
  <2>10. \A r \in Port \ {p} : \A t : ValidateRoute(r, t) => ValidateRoute(r, t)'
    BY <2>2, <2>9 DEF ValidateRoute
  <2> QED BY <1>2, <2>4, <2>5, <2>6, <2>7, <2>8, <2>10 DEF Listened
<1>7. ASSUME ~isRaw(k)
      PROVE  /\ Listened'
             /\ \A r \in Port \ {p} : \A t : ValidateRoute(r, t) => ValidateRoute(r, t)'
  <2>1. RegisterHTTP(u[1], p, tls, good)
    BY <1>7 DEF RegisterRoute
  <2>2. /\ cur' = cur
        /\ \A r \in Port \ {p} : servers'[r] = servers[r]
        /\ servers[p].there => servers'[p].tls = servers[p].tls
        /\ ~servers[p].there => servers'[p].tls = tls
        /\ servers'[p].there
        /\ servers'[p].hosts = (IF servers[p].there THEN servers[p].hosts ELSE {})
                               \cup (IF good THEN {u[1]} ELSE {})
    BY <1>1, <1>7, <2>1, RegisterHTTPDoes
  <2>3. ~servers[p].there => servers[p].hosts = {}
    BY <1>1 DEF Bound
  <2>4. servers'[p].hosts = servers[p].hosts \cup {u[1]} /\ servers'[p].tls = rows[u].tls
    BY <1>7, <2>2, <2>3
  <2>5. ASSUME NEW v \in DOMAIN rows, v[2] = p, rows[v].source = "ui", isRaw(rows[v].kind)
        PROVE  FALSE
    <3>1. v # u
      BY <1>7, <2>5
    <3>2. isTCP(rows[v].kind)
      BY <2>5, <3>1 DEF Unshared, isRaw
    <3> QED BY <1>7, <2>5, <3>1, <3>2 DEF Bootable
  <2>6. Unshared'
    <3>1. \A v \in DOMAIN rows : rows[v].source = "ui" /\ isRaw(rows[v].kind) =>
            ~servers'[v[2]].there
      BY <1>4, <2>2, <2>5 DEF Unshared
    <3> QED BY <3>1 DEF Unshared
  <2>7. Live'
    <3>1. Serving(u)'
      BY <1>7, <2>2, <2>4 DEF Serving
    <3>2. ASSUME NEW v \in DOMAIN rows \ {u} PROVE Serving(v)'
      <4>1. CASE isRaw(rows[v].kind) \/ v[2] # p
        BY <4>1, <1>3, <1>4, <2>2 DEF Serving
      <4>2. CASE ~isRaw(rows[v].kind) /\ v[2] = p
        BY <4>2, <1>3, <2>2, <2>4 DEF Serving
      <4> QED BY <4>1, <4>2
    <3> QED BY <3>1, <3>2 DEF Live
  <2>8. Owned'
    BY <2>2 DEF Owned
  <2>9. Hosted'
    <3> SUFFICES ASSUME NEW r \in Port, NEW x \in servers'[r].hosts
                 PROVE  <<x, r>> \in DOMAIN rows /\ ~isRaw(rows[<<x, r>>].kind)
      BY DEF Hosted
    <3>1. CASE x \in servers[r].hosts
      BY <3>1 DEF Hosted
    <3>2. CASE x \notin servers[r].hosts
      <4>1. r = p /\ x = u[1]
        BY <3>2, <2>2, <2>4
      <4> QED BY <4>1, <1>1, <1>7
    <3> QED BY <3>1, <3>2
  <2>10. Departed'
    BY DEF Departed
  <2>11. \A r \in Port \ {p} : \A t : ValidateRoute(r, t) => ValidateRoute(r, t)'
    BY <2>2 DEF ValidateRoute
  <2> QED BY <1>2, <2>6, <2>7, <2>8, <2>9, <2>10, <2>11 DEF Listened
<1> QED BY <1>6, <1>7

\* ... the listener is there as well ...
LEMMA RegisterSound ==
    ASSUME Inv0, SoundInv, Sound', NEW h \in Handler, Register(h)
    PROVE  SoundInv'
<1>1. PICK q, u : q = req[h] /\ u = <<q.body.host, q.next>>
  OBVIOUS
<1>2. /\ q \in Posting /\ q.pc = "register" /\ q.body \in Body /\ q.next \in Port
      /\ RegisterRoute(q.body.host, q.next, q.body.kind, q.body.tls, q.body.good)
      /\ UNCHANGED <<rows, state, requests>> /\ Stage(q)
  BY <1>1, RegisterDoes DEF Inv0, Stages
<1>3. PICK z \in Request :
        /\ Goto(h, z)
        /\ \/ z = Idle
           \/ z \in Posting /\ z.pc = "create" /\ z.next = q.next + 1 /\ z.body = q.body
  BY <1>1, RegisterDoes
<1>4. /\ q.body.host \in Host /\ q.body.kind \in Kind /\ q.body.tls \in BOOLEAN
      /\ q.body.good \in BOOLEAN
  BY <1>2 DEF Body
<1>5. blame \subseteq blame'
  BY <1>2, <1>4, RegisterKeeps
<1>6. req'[h] = z /\ \A g \in Handler \ {h} : req[g] = Idle /\ req'[g] = Idle
  BY <1>1, <1>2, <1>3, <1>5, OthersIdle DEF Sound
<1>7. z \notin Editing /\ z.pc # "register" /\ z.pc # "unregister"
  BY <1>3, IdleIsNone, IdleOK DEF Posting, Editing
<1>8. \A v : ~Leaving(v) /\ (Pending(v) => v = u)
  BY <1>1, <1>2, <1>6, OnlyOne
<1>9. \A v : ~Leaving(v)' /\ ~Pending(v)'
  BY <1>6, <1>7, OnlyOneLater
<1>10. u \in DOMAIN rows /\ rows[u].kind = q.body.kind /\ u[1] = q.body.host /\ u[2] = q.next
  BY <1>1, <1>2, <1>5 DEF Inv0, Known, Sound
<1>11. /\ rows[u].tls = q.body.tls
       /\ ~isRaw(q.body.kind) =>
            /\ servers[q.next].there => servers[q.next].tls = q.body.tls
            /\ q.body.tls => CertFiles
            /\ q.body.good
  BY <1>1, <1>2, <1>10 DEF SoundInv, Prepared
<1>12. /\ \A p \in Validated(q) : ValidateRoute(p, q.body.kind)
       /\ q.next \in Validated(q)
  BY <1>1, <1>2, ValidatedMoves DEF SoundInv, Checked
<1>13. ~isRaw(q.body.kind) => cur[<<"tcp", q.next>>] = "none"
  BY <1>12 DEF ValidateRoute
<1>14. /\ Listened'
       /\ \A r \in Port \ {q.next} : \A t : ValidateRoute(r, t) => ValidateRoute(r, t)'
  BY <1>2, <1>4, <1>8, <1>9, <1>10, <1>11, <1>13, RowRegistered
<1>15. ASSUME z \in Posting, NEW p \in Validated(z)
       PROVE  ValidateRoute(p, z.body.kind)'
  <2>1. z # Idle
    BY <1>15, IdleIsNone
  <2>2. Validated(z) = Validated(q) \ {q.next} /\ z.body = q.body /\ Validated(q) \subseteq Port
    BY <1>2, <1>3, <2>1, ValidatedMoves
  <2>3. p \in Port \ {q.next} /\ ValidateRoute(p, q.body.kind)
    BY <2>2, <1>12, <1>15
  <2>4. PICK t : t = q.body.kind
    OBVIOUS
  <2>5. ValidateRoute(p, t)'
    BY <2>3, <2>4, <1>14
  <2> QED BY <2>2, <2>4, <2>5 DEF ValidateRoute
<1>16. Checked' /\ Prepared' /\ Edited'
  BY <1>6, <1>7, <1>15, OneChecked
<1> QED BY <1>14, <1>16, ListenedSound

\* ... the edited route is live again ...
LEMMA ReregisterSound ==
    ASSUME Inv0, SoundInv, Sound', NEW h \in Handler, Reregister(h)
    PROVE  SoundInv'
<1>1. PICK u, r : u = req[h].url /\ r = req[h].row
  OBVIOUS
<1>2. /\ req[h] \in Editing /\ req[h].pc = "reregister"
      /\ r \in Row /\ u[1] \in Host /\ u[2] \in Port
      /\ RegisterRoute(u[1], u[2], r.kind, r.tls, r.good)
      /\ Goto(h, Idle) /\ UNCHANGED <<rows, state, requests>>
  BY <1>1, ReregisterDoes
<1>3. r.kind \in Kind /\ r.tls \in BOOLEAN /\ r.good \in BOOLEAN
  BY <1>2 DEF Row
<1>4. blame \subseteq blame'
  BY <1>2, <1>3, RegisterKeeps
<1>5. req'[h] = Idle /\ \A g \in Handler \ {h} : req[g] = Idle /\ req'[g] = Idle
  BY <1>2, <1>4, OthersIdle DEF Sound
<1>6. \A v : ~Leaving(v) /\ ~Pending(v)
  BY <1>2, <1>5, OnlyOne
<1>7. \A v : ~Leaving(v)' /\ ~Pending(v)'
  BY <1>5, IdleOK, OnlyOneLater
<1>8. u \in DOMAIN rows /\ rows[u].kind = r.kind
  BY <1>1, <1>2 DEF SoundInv, Edited
<1>9. ~isRaw(r.kind) => /\ servers[u[2]].there /\ u[1] \in servers[u[2]].hosts
                        /\ servers[u[2]].tls = rows[u].tls
  BY <1>6, <1>8 DEF SoundInv, Live, Serving
<1>10. Listened'
  BY <1>2, <1>3, <1>6, <1>7, <1>8, <1>9, RowRegistered
<1>11. Checked' /\ Prepared' /\ Edited'
  BY <1>5, IdleOK, IdleIsNone, OneChecked
<1> QED BY <1>10, <1>11, ListenedSound

\* ... and the listener of a deleted row is gone.
LEMMA UnregisterSound ==
    ASSUME Inv0, SoundInv, Sound', NEW h \in Handler, Unregister(h)
    PROVE  SoundInv'
<1> USE DEF Inv0
<1>1. PICK u \in req[h].urls, z \in Request :
        /\ u \in Url /\ u[1] \in Host /\ u[2] \in Port /\ UnregisterRoute(u[1], u[2])
        /\ Goto(h, z)
        /\ \/ z = Idle /\ req[h].urls = {u}
           \/ z \in Removing /\ z.urls = req[h].urls \ {u}
  BY UnregisterStep
<1>2. /\ req[h] \in Removing /\ UNCHANGED <<rows, http, state, requests, started, blame>>
  BY UnregisterStep
<1>3. req[h].pc = "unregister"
  BY <1>2 DEF Removing
<1>4. req'[h] = z /\ \A g \in Handler \ {h} : req[g] = Idle /\ req'[g] = Idle
  BY <1>1, <1>2, <1>3, OthersIdle DEF Sound
<1>5. z \notin Posting /\ z \notin Editing /\ z.pc # "register"
  BY <1>1, IdleIsNone, IdleOK DEF Posting, Editing, Removing
<1>6. Checked' /\ Prepared' /\ Edited'
  BY <1>4, <1>5, OneChecked
<1>7. PICK L : L = req[h].urls
  OBVIOUS
<1>8. \A v : ~Pending(v) /\ (Leaving(v) <=> v \in L)
  BY <1>3, <1>4, <1>7, OnlyOne
<1>9. \A v : ~Pending(v)' /\ (Leaving(v)' <=> v \in L /\ v # u)
  <2>1. \A v : (z.pc = "unregister" /\ v \in z.urls) <=> v \in L /\ v # u
    BY <1>1, <1>7, IdleOK DEF Removing
  <2> QED BY <1>4, <1>5, <2>1, OnlyOneLater
<1>10. PICK p : p = u[2]
  OBVIOUS
<1>11. /\ p \in Port /\ u = <<u[1], p>> /\ u \in L
       /\ u \notin DOMAIN rows /\ (~servers[p].there => RowsAt(rows, p) = {})
  BY <1>1, <1>7, <1>8, <1>10 DEF SoundInv, Departed, Url
<1>12. \A v \in DOMAIN rows : v \in Url /\ v = <<v[1], v[2]>> /\ v[2] \in Port
  BY DEF Typed, Url
<1>13. \A v \in DOMAIN rows : Serving(v)
  BY <1>8 DEF SoundInv, Live
<1>14. \A v \in DOMAIN rows : Socks(v[2], rows[v].kind) \subseteq {s \in Sock : s[2] = v[2]}
  BY DEF Socks
<1>15. ASSUME servers[p].there PROVE Unshared' /\ Live' /\ Owned' /\ Hosted' /\ Departed'
  <2>1. /\ cur' = cur
        /\ \A r \in Port \ {p} : servers'[r] = servers[r]
        /\ servers'[p].there /\ servers'[p].tls = servers[p].tls
        /\ servers'[p].hosts = servers[p].hosts \ {u[1]}
    BY <1>1, <1>10, <1>15, UnregisterDoes
  <2>2. \A r \in Port : servers'[r].there <=> servers[r].there
    BY <2>1, <1>15
  <2>3. Unshared'
    BY <2>2, <1>2, <1>12 DEF SoundInv, Unshared
  <2>4. Live'
    <3> SUFFICES ASSUME NEW v \in DOMAIN rows PROVE Serving(v)'
      BY <1>2 DEF Live
    <3>1. CASE isRaw(rows[v].kind) \/ v[2] # p
      BY <3>1, <1>2, <1>12, <1>13, <2>1 DEF Serving
    <3>2. CASE ~isRaw(rows[v].kind) /\ v[2] = p
      <4>1. v[1] # u[1]
        BY <3>2, <1>11, <1>12
      <4> QED BY <3>2, <4>1, <1>2, <1>13, <2>1 DEF Serving
    <3> QED BY <3>1, <3>2
  <2>5. Owned'
    <3> SUFFICES ASSUME NEW s \in Sock, cur[s] # "none"
                 PROVE  \/ \E v \in DOMAIN rows : s \in Socks(v[2], rows[v].kind)
                        \/ ~servers'[s[2]].there /\ \E v \in Url : Leaving(v)' /\ v[2] = s[2]
      BY <1>2, <2>1 DEF Owned
    <3>1. \/ \E v \in DOMAIN rows : s \in Socks(v[2], rows[v].kind)
          \/ ~servers[s[2]].there /\ \E v \in Url : Leaving(v) /\ v[2] = s[2]
      BY DEF SoundInv, Owned
    <3>2. s[2] \in Port
      BY DEF Sock
    <3>3. ASSUME ~servers[s[2]].there, NEW v \in Url, Leaving(v), v[2] = s[2]
          PROVE  ~servers'[s[2]].there /\ Leaving(v)'
      <4>1. v # u
        BY <3>3, <1>10, <1>15
      <4> QED BY <4>1, <3>2, <3>3, <1>8, <1>9, <2>2
    <3> QED BY <3>1, <3>3
  <2>6. Hosted'
    <3> SUFFICES ASSUME NEW r \in Port, NEW x \in servers'[r].hosts
                 PROVE  \/ <<x, r>> \in DOMAIN rows /\ ~isRaw(rows[<<x, r>>].kind)
                        \/ Leaving(<<x, r>>)'
      BY <1>2 DEF Hosted
    <3>1. x \in servers[r].hosts /\ <<x, r>> # u
      BY <2>1, <1>11
    <3>2. \/ <<x, r>> \in DOMAIN rows /\ ~isRaw(rows[<<x, r>>].kind)
          \/ Leaving(<<x, r>>)
      BY <3>1 DEF SoundInv, Hosted
    <3> QED BY <3>1, <3>2, <1>8, <1>9
  <2>7. Departed'
    <3> SUFFICES ASSUME NEW v \in Url, Leaving(v)'
                 PROVE  v \notin DOMAIN rows /\ (~servers'[v[2]].there => RowsAt(rows, v[2]) = {})
      BY <1>2 DEF Departed, RowsAt
    <3>1. Leaving(v) /\ v[2] \in Port
      BY <1>8, <1>9 DEF Url
    <3> QED BY <3>1, <2>2 DEF SoundInv, Departed
  <2> QED BY <2>3, <2>4, <2>5, <2>6, <2>7
<1>16. ASSUME ~servers[p].there PROVE Unshared' /\ Live' /\ Owned' /\ Hosted' /\ Departed'
  <2>1. PICK S : S = {s \in Sock : s[2] = p}
    OBVIOUS
  <2>2. /\ servers' = servers
        /\ \A s \in S : cur'[s] = "none"
        /\ \A s \in Sock \ S : cur'[s] = cur[s]
    <3>1. p \in Port /\ u[1] \in Host /\ UnregisterRoute(u[1], p) /\ Typed
      BY <1>1, <1>10
    <3> HIDE DEF Inv0
    <3> QED BY <3>1, <1>16, <2>1, UnregisterDoes
  <2>3. \A v \in DOMAIN rows : v[2] # p
    BY <1>11, <1>16 DEF RowsAt
  <2>4. Unshared'
    BY <2>2, <1>2 DEF SoundInv, Unshared
  <2>5. Live'
    <3> SUFFICES ASSUME NEW v \in DOMAIN rows PROVE Serving(v)'
      BY <1>2 DEF Live
    <3>1. \A s \in Socks(v[2], rows[v].kind) : s \in Sock \ S
      BY <2>1, <2>3, <1>14
    <3> QED BY <3>1, <1>2, <1>13, <2>2 DEF Serving
  <2>6. Owned'
    <3> SUFFICES ASSUME NEW s \in Sock, cur'[s] # "none"
                 PROVE  \/ \E v \in DOMAIN rows : s \in Socks(v[2], rows[v].kind)
                        \/ ~servers[s[2]].there /\ \E v \in Url : Leaving(v)' /\ v[2] = s[2]
      BY <1>2, <2>2 DEF Owned
    <3>1. s \notin S /\ cur[s] # "none"
      BY <2>2
    <3>2. \/ \E v \in DOMAIN rows : s \in Socks(v[2], rows[v].kind)
          \/ ~servers[s[2]].there /\ \E v \in Url : Leaving(v) /\ v[2] = s[2]
      BY <3>1 DEF SoundInv, Owned
    <3>3. ASSUME NEW v \in Url, Leaving(v), v[2] = s[2] PROVE Leaving(v)'
      <4>1. v # u
        BY <3>1, <3>3, <1>10, <2>1
      <4> QED BY <4>1, <3>3, <1>8, <1>9
    <3> QED BY <3>2, <3>3
  <2>7. Hosted'
    <3> SUFFICES ASSUME NEW r \in Port, NEW x \in servers[r].hosts
                 PROVE  \/ <<x, r>> \in DOMAIN rows /\ ~isRaw(rows[<<x, r>>].kind)
                        \/ Leaving(<<x, r>>)'
      BY <1>2, <2>2 DEF Hosted
    <3>1. r # p
      BY <1>16 DEF Bound
    <3>2. <<x, r>> # u
      BY <3>1, <1>11
    <3>3. \/ <<x, r>> \in DOMAIN rows /\ ~isRaw(rows[<<x, r>>].kind)
          \/ Leaving(<<x, r>>)
      BY DEF SoundInv, Hosted
    <3> QED BY <3>2, <3>3, <1>8, <1>9
  <2>8. Departed'
    <3> SUFFICES ASSUME NEW v \in Url, Leaving(v)'
                 PROVE  v \notin DOMAIN rows /\ (~servers[v[2]].there => RowsAt(rows, v[2]) = {})
      BY <1>2, <2>2 DEF Departed, RowsAt
    <3>1. Leaving(v)
      BY <1>8, <1>9
    <3> QED BY <3>1 DEF SoundInv, Departed
  <2> QED BY <2>4, <2>5, <2>6, <2>7, <2>8
<1>17. Bootable(rows') /\ state' # "refused"
  BY <1>2 DEF SoundInv
<1>18. Listened'
  BY <1>15, <1>16, <1>17 DEF Listened
<1> QED BY <1>6, <1>18, ListenedSound

\* Rows that share their ports as SoundInv wants it.
UnsharedRows ==
    \A u, v \in DOMAIN rows : u # v /\ u[2] = v[2] /\ rows[u].source = "ui" =>
        ~isUDP(rows[u].kind) /\ ~isUDP(rows[v].kind)

\* The third layer for a new process: it starts what its rows say ...
LEMMA FreshSound == FreshRows /\ Bootable(rows) /\ UnsharedRows => SoundInv
<1> SUFFICES ASSUME FreshRows, Bootable(rows), UnsharedRows PROVE SoundInv
  OBVIOUS
<1> USE DEF FreshRows
<1>1. /\ servers \in [Port -> ListenServer]
      /\ \A s \in Sock : cur[s] # "none" <=> \E u \in DOMAIN rows : s \in Socks(u[2], rows[u].kind)
      /\ \A p \in Port : servers[p].there <=>
           \E u \in DOMAIN rows : u[2] = p /\ ~isRaw(rows[u].kind)
      /\ \A p \in Port : servers[p].tls <=>
           \E u \in DOMAIN rows : u[2] = p /\ ~isRaw(rows[u].kind) /\ rows[u].tls
      /\ \A p \in Port : \A x : x \in servers[p].hosts <=>
           <<x, p>> \in DOMAIN rows /\ ~isRaw(rows[<<x, p>>].kind)
  BY FreshListeners DEF Fresh
<1>2. \A h \in Handler : req[h] = Idle
  BY DEF Fresh
<1>3. \A u : ~Pending(u) /\ ~Leaving(u)
  BY <1>2, IdleOK DEF Pending, Leaving
<1>4. Checked /\ Prepared /\ Edited
  BY <1>2, IdleOK, IdleIsNone DEF Checked, Prepared, Edited
<1>5. Unshared
  <2> SUFFICES ASSUME NEW u \in DOMAIN rows, rows[u].source = "ui", isRaw(rows[u].kind),
                      servers[u[2]].there
               PROVE  FALSE
    BY DEF Unshared, UnsharedRows
  <2>1. u[2] \in Port
    BY DEF Url
  <2>2. PICK v \in DOMAIN rows : v[2] = u[2] /\ ~isRaw(rows[v].kind)
    BY <1>1, <2>1
  <2>3. u # v
    BY <2>2
  <2>4. isTCP(rows[u].kind)
    BY <2>2, <2>3 DEF UnsharedRows, isRaw
  <2> QED BY <2>2, <2>3, <2>4 DEF Bootable
<1>6. Live
  <2> SUFFICES ASSUME NEW u \in DOMAIN rows PROVE Serving(u)
    BY DEF Live
  <2>1. u[2] \in Port /\ u = <<u[1], u[2]>>
    BY DEF Url
  <2>2. CASE isRaw(rows[u].kind)
    BY <2>2, <1>1 DEF Serving, Socks
  <2>3. CASE ~isRaw(rows[u].kind)
    <3>1. servers[u[2]].there /\ u[1] \in servers[u[2]].hosts
      BY <2>1, <2>3, <1>1
    <3>2. servers[u[2]].tls <=> rows[u].tls
      <4>1. \A v \in DOMAIN rows : v[2] = u[2] /\ ~isRaw(rows[v].kind) => rows[v].tls = rows[u].tls
        BY <2>3 DEF Bootable
      <4> QED BY <2>1, <2>3, <1>1, <4>1
    <3>3. servers[u[2]].tls \in BOOLEAN /\ rows[u].tls \in BOOLEAN
      BY <2>1, <1>1 DEF ListenServer, Row
    <3>4. servers[u[2]].tls = rows[u].tls
      BY <3>2, <3>3
    <3> QED BY <2>3, <3>1, <3>4 DEF Serving
  <2> QED BY <2>2, <2>3
<1>7. Owned
  BY <1>1 DEF Owned
<1>8. Hosted
  BY <1>1 DEF Hosted
<1>9. Departed
  BY <1>3 DEF Departed
<1> QED BY <1>4, <1>5, <1>6, <1>7, <1>8, <1>9 DEF SoundInv, Fresh

\* ... in the next state ...
LEMMA FreshSoundLater == FreshRows' /\ Bootable(rows') /\ UnsharedRows' => SoundInv'
<1>1. (FreshRows /\ Bootable(rows) /\ UnsharedRows)' => SoundInv'
  BY FreshSound, PTL
<1> QED BY <1>1

\* ... and after a restart.
LEMMA RestartSound ==
    ASSUME Inv0, SoundInv, Restart
    PROVE  SoundInv'
<1>1. /\ Inv0' /\ (Bootable(rows') => Fresh(rows)')
      /\ DOMAIN rows' = DOMAIN rows /\ \A u \in DOMAIN rows : rows'[u] = rows[u]
  BY RestartInv0
<1>2. Bootable(rows')
  BY <1>1 DEF SoundInv, Bootable
<1>3. UnsharedRows'
  BY <1>1 DEF SoundInv, Unshared, UnsharedRows
<1>4. FreshRows'
  BY <1>1, <1>2 DEF FreshRows, Inv0, Typed, Blames
<1> QED BY <1>2, <1>3, <1>4, FreshSoundLater

-----------------------------------------------------------------------------
(* The theorems                                                            *)

\* The configuration satisfies the invariant.
LEMMA InvInit == Init => Inv
<1> SUFFICES ASSUME Init PROVE Inv
  OBVIOUS
<1>1. Inv0 /\ Fresh(rows) /\ rows = Config
  BY InitFresh
<1>2. Bootable(rows)
  BY <1>1, ConfigAssumption
<1>3. FreshRows
  BY <1>1 DEF FreshRows, Inv0, Typed, Blames
<1>4. UnsharedRows
  <2>1. \A u \in DOMAIN rows : rows[u].source # "ui"
    BY <1>1, RegistryAssumption
  <2> QED BY <2>1 DEF UnsharedRows
<1> QED BY <1>1, <1>2, <1>3, <1>4, FreshClean, FreshSound DEF Inv

\* Every step keeps the three layers, each on what it needs of those below.
LEMMA HandlerStep ==
    ASSUME Inv, NEW h \in Handler,
           \/ \E b \in Posts : Post(h, b)
           \/ Validate(h) \/ CreateRoute(h) \/ Register(h) \/ Rollback(h)
           \/ \E u \in DOMAIN rows : DeleteRoute(h, u) \/ DeleteRouteGroup(h, u)
           \/ Unregister(h)
           \/ \E u \in DOMAIN rows, good \in BOOLEAN : Put(h, u, good)
           \/ UpdateRouteEndpoint(h) \/ Reregister(h)
    PROVE  Inv0' /\ (Clean' /\ CleanInv => CleanInv') /\ (Sound' /\ SoundInv => SoundInv')
<1> USE DEF Inv
<1>1. CASE \E b \in Posts : Post(h, b)
  BY <1>1, PostInv0, PostClean, PostSound
<1>2. CASE Validate(h)
  BY <1>2, ValidateInv0, ValidateClean, ValidateSound
<1>3. CASE CreateRoute(h)
  BY <1>3, CreateRouteInv0, CreateRouteClean, CreateRouteSound
<1>4. CASE Register(h)
  BY <1>4, RegisterInv0, RegisterClean, RegisterSound
<1>5. CASE Rollback(h)
  BY <1>5, RollbackInv0, RollbackClean, RollbackSound
<1>6. CASE \E u \in DOMAIN rows : DeleteRoute(h, u) \/ DeleteRouteGroup(h, u)
  <2>1. PICK u \in DOMAIN rows, U \in SUBSET DOMAIN rows :
          Delete(h, u, U) /\ U \cap DOMAIN Config = {}
    BY <1>6, Deletes
  <2> QED BY <2>1, DeleteInv0, DeleteClean, DeleteSound
<1>7. CASE Unregister(h)
  BY <1>7, UnregisterInv0, UnregisterClean, UnregisterSound
<1>8. CASE \E u \in DOMAIN rows, good \in BOOLEAN : Put(h, u, good)
  BY <1>8, PutInv0, PutClean, PutSound
<1>9. CASE UpdateRouteEndpoint(h)
  BY <1>9, UpdateInv0, UpdateClean, UpdateSound
<1>10. CASE Reregister(h)
  BY <1>10, ReregisterInv0, ReregisterClean, ReregisterSound
<1> QED BY <1>1, <1>2, <1>3, <1>4, <1>5, <1>6, <1>7, <1>8, <1>9, <1>10

\* Every step that is not one of a handler.
LEMMA OtherStep ==
    ASSUME Inv,
           \/ \E s \in Sock : Listen(s) \/ ListenStale(s) \/ CloseStale(s)
           \/ \E p \in Port : ServeHTTP(p)
           \/ Restart
    PROVE  Inv0' /\ (Clean' /\ CleanInv => CleanInv') /\ (Sound' /\ SoundInv => SoundInv')
<1> USE DEF Inv
<1>1. Typed /\ Begun
  BY DEF Inv0
<1>2. ASSUME NEW s \in Sock, Listen(s)
      PROVE  Inv0' /\ (CleanInv => CleanInv') /\ (SoundInv => SoundInv')
  BY <1>1, <1>2, ListenTyped, SocketsInv0, ListenClean, SocketsSound
<1>3. ASSUME NEW s \in Sock, ListenStale(s)
      PROVE  Inv0' /\ (CleanInv => CleanInv') /\ (SoundInv => SoundInv')
  BY <1>1, <1>3, ListenStaleTyped, SocketsInv0, ListenStaleClean, SocketsSound
<1>4. ASSUME NEW s \in Sock, CloseStale(s)
      PROVE  Inv0' /\ (CleanInv => CleanInv') /\ (SoundInv => SoundInv')
  BY <1>1, <1>4, CloseStaleTyped, SocketsInv0, CloseStaleClean, SocketsSound
<1>5. ASSUME NEW p \in Port, ServeHTTP(p)
      PROVE  Inv0' /\ (CleanInv => CleanInv') /\ (SoundInv => SoundInv')
  BY <1>1, <1>5, ServeHTTPTyped, SocketsInv0, ServeHTTPClean, SocketsSound
<1>6. CASE Restart
  BY <1>6, RestartInv0, RestartClean, RestartSound
<1> QED BY <1>2, <1>3, <1>4, <1>5, <1>6

\* The history of blame only grows.
LEMMA BlameGrows == ASSUME Inv0, Next PROVE blame \subseteq blame'
<1>1. ASSUME NEW h \in Handler, Register(h) PROVE blame \subseteq blame'
  <2>1. PICK q : q = req[h]
    OBVIOUS
  <2>2. /\ q.body \in Body /\ q.next \in Port
        /\ RegisterRoute(q.body.host, q.next, q.body.kind, q.body.tls, q.body.good)
    BY <1>1, <2>1, RegisterDoes
  <2> QED BY <2>2, RegisterKeeps DEF Body
<1>2. ASSUME NEW h \in Handler, Reregister(h) PROVE blame \subseteq blame'
  <2>1. PICK u, r : u = req[h].url /\ r = req[h].row
    OBVIOUS
  <2>2. /\ r \in Row /\ u[1] \in Host /\ u[2] \in Port
        /\ RegisterRoute(u[1], u[2], r.kind, r.tls, r.good)
    BY <1>2, <2>1, ReregisterDoes
  <2> QED BY <2>2, RegisterKeeps DEF Row
<1>3. ASSUME NEW h \in Handler, NEW q, Begin(h, q) PROVE blame \subseteq blame'
  BY <1>3 DEF Begin
<1>4. ASSUME NEW h \in Handler, CreateRoute(h) \/ UpdateRouteEndpoint(h)
      PROVE  blame \subseteq blame'
  BY <1>4 DEF CreateRoute, UpdateRouteEndpoint
<1>5. ASSUME NEW h \in Handler,
             (\E b \in Posts : Post(h, b))
             \/ (\E u \in DOMAIN rows : DeleteRoute(h, u) \/ DeleteRouteGroup(h, u))
             \/ (\E u \in DOMAIN rows, good \in BOOLEAN : Put(h, u, good))
      PROVE  blame \subseteq blame'
  BY <1>3, <1>5 DEF Post, DeleteRoute, DeleteRouteGroup, Delete, Put
<1>6. ASSUME NEW h \in Handler, Validate(h) \/ Rollback(h) \/ Unregister(h)
      PROVE  blame \subseteq blame'
  BY <1>6 DEF Validate, Rollback, Unregister
<1>7. ASSUME \/ \E s \in Sock : Listen(s) \/ ListenStale(s) \/ CloseStale(s)
             \/ \E p \in Port : ServeHTTP(p)
             \/ Restart
      PROVE  blame \subseteq blame'
  BY <1>7 DEF Listen, ListenStale, CloseStale, ServeHTTP, live, Restart
<1> QED BY <1>1, <1>2, <1>4, <1>5, <1>6, <1>7 DEF Next

\* Every step keeps the invariant.
LEMMA InvNext == Inv /\ [Next]_vars => Inv'
<1> SUFFICES ASSUME Inv, [Next]_vars PROVE Inv'
  OBVIOUS
<1>1. CASE Next
  <2>1. Inv0' /\ (Clean' /\ CleanInv => CleanInv') /\ (Sound' /\ SoundInv => SoundInv')
    BY <1>1, HandlerStep, OtherStep DEF Next
  <2>2. blame \subseteq blame'
    BY <1>1, BlameGrows DEF Inv
  <2>3. (Clean' => Clean) /\ (Sound' => Sound)
    BY <2>2 DEF Clean, Sound
  <2> QED BY <2>1, <2>3 DEF Inv
<1>2. CASE UNCHANGED vars
  <2>1. UNCHANGED <<rows, servers, http, cur, stale, state, req, requests, started, blame>>
    BY <1>2 DEF vars
  <2>2. Inv0'
    BY <2>1 DEF Inv, Inv0, Typed, Stages, Configured, Alone, Begun, Known, Pending, Bound
  <2>3. Sockets
    BY <2>1 DEF Sockets, live
  <2>4. (Clean' => Clean) /\ (Sound' => Sound)
    BY <2>1 DEF Clean, Sound
  <2>5. CleanInv => CleanInv'
    <3> SUFFICES ASSUME CleanInv PROVE CleanInv'
      OBVIOUS
    <3>1. Lone' /\ state' # "failed"
      BY <2>1 DEF CleanInv, Lone
    <3> QED BY <2>3, <3>1, SocketsClean
  <2>6. SoundInv => SoundInv'
    BY <2>3, SocketsSound DEF Inv
  <2> QED BY <2>2, <2>4, <2>5, <2>6 DEF Inv
<1> QED BY <1>1, <1>2

\* So it always holds.
LEMMA InvAlways == Spec => []Inv
BY InvInit, InvNext, PTL DEF Spec

\* When no handler is at work, the third layer is the property.
LEMMA QuietMatches == Inv => LiveMatchesRows
<1> SUFFICES ASSUME Inv, Quiet, blame \subseteq {"restart"}
             PROVE  /\ \A s \in Sock : (cur[s] = "none") <=> (cancelsOf(rows)[s] = "none")
                    /\ \A p \in Port : servers[p].hosts = serversOf(rows)[p].hosts
  BY DEF LiveMatchesRows
<1>1. Inv0 /\ SoundInv
  BY DEF Inv, Sound
<1>2. /\ \A s \in Sock : cancelsOf(rows)[s] # "none" <=>
           \E u \in DOMAIN rows : s \in Socks(u[2], rows[u].kind)
      /\ \A p \in Port : \A x : x \in serversOf(rows)[p].hosts <=>
           <<x, p>> \in DOMAIN rows /\ ~isRaw(rows[<<x, p>>].kind)
      /\ serversOf(rows) \in [Port -> ListenServer]
  BY <1>1, FreshListeners DEF Inv0, Typed
<1>3. \A u : ~Pending(u) /\ ~Leaving(u)
  BY DEF Quiet, Pending, Leaving
<1>4. \A u \in DOMAIN rows : Serving(u)
  BY <1>1, <1>3 DEF SoundInv, Live
<1>5. \A s \in Sock : cur[s] # "none" <=> \E u \in DOMAIN rows : s \in Socks(u[2], rows[u].kind)
  <2> TAKE s \in Sock
  <2>1. cur[s] # "none" => \E u \in DOMAIN rows : s \in Socks(u[2], rows[u].kind)
    BY <1>1, <1>3 DEF SoundInv, Owned
  <2>2. ASSUME NEW u \in DOMAIN rows, s \in Socks(u[2], rows[u].kind) PROVE cur[s] # "none"
    <3>1. isRaw(rows[u].kind)
      BY <2>2 DEF Socks, isRaw
    <3> QED BY <2>2, <3>1, <1>4 DEF Serving
  <2> QED BY <2>1, <2>2
<1>6. ASSUME NEW p \in Port PROVE servers[p].hosts = serversOf(rows)[p].hosts
  <2>1. \A x : x \in servers[p].hosts =>
          <<x, p>> \in DOMAIN rows /\ ~isRaw(rows[<<x, p>>].kind)
    BY <1>1, <1>3 DEF SoundInv, Hosted
  <2>2. ASSUME NEW x, <<x, p>> \in DOMAIN rows, ~isRaw(rows[<<x, p>>].kind)
        PROVE  x \in servers[p].hosts
    BY <2>2, <1>4 DEF Serving
  <2>3. \A x : x \in servers[p].hosts <=> x \in serversOf(rows)[p].hosts
    BY <2>1, <2>2, <1>2
  <2>4. servers[p].hosts \in SUBSET Host /\ serversOf(rows)[p].hosts \in SUBSET Host
    BY <1>1, <1>2 DEF Inv0, Typed, ListenServer
  <2> QED BY <2>3, <2>4
<1> QED BY <1>2, <1>5, <1>6

\* RegisterRoute, UnregisterRoute and StartProxy keep listeners and handlers in
\* step with proxy_routes: LiveMatchesRows, for any number of requests, hosts,
\* ports and configured routes.
THEOREM ListenersMatch == Spec => []LiveMatchesRows
BY InvAlways, QuietMatches, PTL

\* The rows of the third layer pass the checks of parseProxies.
LEMMA SoundBoots == Inv => BootsAlone
<1> SUFFICES ASSUME Inv, blame \subseteq {"restart"} PROVE Bootable(SyncRoutes(rows))
  BY DEF BootsAlone
<1>1. Inv0 /\ Bootable(rows)
  BY DEF Inv, Sound, SoundInv
<1>2. /\ DOMAIN SyncRoutes(rows) = DOMAIN rows
      /\ \A u \in DOMAIN rows : SyncRoutes(rows)[u] = rows[u]
  BY <1>1, Synced DEF Inv0
<1>3. PICK R : R = SyncRoutes(rows)
  OBVIOUS
<1>4. Bootable(R)
  BY <1>1, <1>2, <1>3 DEF Bootable
<1> QED BY <1>3, <1>4

\* Whatever rows ValidateRoute and CreateRoute let through one request at a
\* time, parseProxies and initProxies accept at the next start: BootsAlone.
THEOREM StartsAgain == Spec => []BootsAlone
BY InvAlways, SoundBoots, PTL

\* Without blame the second layer leaves no listener a taken port.
LEMMA CleanStays == Inv => NoSelfConflict
BY DEF Inv, CleanInv, Clean, NoSelfConflict

\* No listener of the proxy finds its port taken by another one of the proxy
\* unless a raw listener is restarted on it or requests overlap: NoSelfConflict.
THEOREM PortsAreFree == Spec => []NoSelfConflict
BY InvAlways, CleanStays, PTL
=============================================================================

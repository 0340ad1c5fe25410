# reMazarin: a formal model

reMazarin is a reverse proxy with logins, groups, bans, rate limits and an admin
panel that changes all of these while traffic flows. This directory holds TLA+
models of the parts that decide who gets through, which listeners run and how
the process starts and ends, the TLC configurations that check them, and TLAPS
proofs of their safety properties. `PROJECT.json` lists, machine-readably,
components, runs, mutants, the source lines of every definition, findings,
hazards and theorems.

Run `tlc -config X.cfg M` for a run (the pairs are below) and `tlapm M.tla` for
a proof module.

## 1. Inventory

| part | state | operations | interacts through |
|---|---|---|---|
| access decision (`proxy/auth.go`) | route cache, settings copy (atomic values) | `withAuthForKey`, `authorizeIP`, `ipAllows`, `groupsAllow` | queries on `sessions`, `user_groups`; calls limiter |
| sessions, users, groups (`storage/`, `api/auth.go`, `api/metrics.go`) | SQLite tables | login, logout, extension, renewal by token or by address, revocation, user and group administration, cleanup | foreign keys with cascade; every handler is a goroutine, every statement its own transaction |
| registration and administration (`storage/invites.go`, `storage/storage.go`, `api/auth.go`) | `invites`, `users`, the admin group | `UseInvite`, `CreateUser`, `requireAdmin`, `seedAdmin` | several statements per request |
| cache refresh (`proxy/auth.go`, `proxy/limiter.go`) | copies of routes, settings, policies | `refreshCache` from every admin handler and from the 5-minute ticker | no lock between two refreshes |
| bans (`proxy/limiter.go`, `storage/throttle.go`) | a map in memory, `banned_ips` | `Ban`, `Unban`, `reloadThrottle`, cleanup | memory first, table second; a reload the other way round |
| rate limiter (`proxy/limiter.go`) | a bucket per address in a `sync.Map` | `Allow`, `RecordFailure`, `SetTier`, `sweepBuckets` | pointers held across unlocks |
| route registry (`proxy/proxy.go`, `tcp.go`, `udp.go`, `listeners.go`, `api/auth.go`, `storage/routes.go`) | `proxy_routes`, `p.servers`, `tcpCancels`, `udpCancels`, sockets | create (ports and ranges), edit target, delete, start-up | asynchronous listeners; `ErrChan` ends the process |
| UDP and TCP relays (`proxy/udp.go`, `proxy/tcp.go`) | a map of flows, a socket per flow, `lastActive` | read loop, reply pumps, reaper, cancellation | the gate; a mutex around the map only, sockets closed under their readers |
| events and access log (`proxy/metrics.go`, `proxy/auth.go`, `api/metrics.go`) | counters, a ring, `logChan` | `RecordEvent`, `GetRecentEvents`, the metrics page, `logAccess`, the drainer | every request writes, the admin page reads, no common lock |
| start-up and shutdown (`main.go`) | context, WaitGroup, `ErrChan`, store | `run`, `cleanShutdown`, the deferred calls | owns all of the above; signals, listener errors, timeouts |
| schema migrations (`storage/storage.go`, `storage/migrations`) | the schema, `schema_migrations` | `runMigrations`, `bootstrapMigrations` | one statement after the other, no transaction |
| reverse proxy, static files, TLS, API lookup, logging, telemetry, web pages | none of their own | | not modelled: I/O around `net/http` |

What is hard to test here is in `PROJECT.json` under `hazards`, at the line
where it bites. The recurring pattern is *read, then write, without a lock in
between*: a refresh that stores what it read before an edit, an invite selected
and then marked, a bucket tested and then deleted, a port validated and then
bound. The second one is *something that ends while others still use it*: a
socket closed under a pump, a queue closed under a handler, a process that dies
between two statements of a migration.

## 2. Modules and how they correspond to the code

Every SQL statement is one atomic step, as it is in SQLite with autocommit; a
handler with several statements is a goroutine with a program counter and the
values it carries. Variables marked *history* in a module record something for
a property and influence no step. Operators named `..._Fault` are plausible
bugs; they are used by nothing and exist so that every property can be shown to
notice one.

* **Gate**: the decision as pure operators. A rule (`cachedRoute`) has a set of
  allowed groups, allowlist entries (each the set of addresses it matches), and
  the flags `ip_auth`, `persistent_login`, `require_login`. `Junk` and `Blank`
  stand for entries of `allowed_groups` that `strconv.Atoi` rejects or that are
  empty. `normalizeIP` is a function from spellings of addresses to addresses.
* **Sessions** (extends Gate): tables and the handlers on them. `HttpRequest`,
  `IPLookup`, `IPRenew`, `CookieLookup`, `CookieRenew`, `Respond` are the
  statements of `withAuthForKey`; `RawRequest`, `RawLookup`, `RawSettings` of
  `authorizeIP`; then login, extension, self-revocation and the administrator's
  statements. A request whose route is not in the cache carries the rule `None`,
  which HTTP answers with 407 and a raw listener takes for public. Every
  statement of a request may fail: a lookup that fails counts as no session
  (recorded in `failed`), a failing renewal is only logged, `GetSettings` then
  returns the defaults without an error. Foreign keys are on (the DSN in
  `storage.New`), so `CreateSession` fails for a deleted user and `DeleteUser`
  cascades. A token's row is *fresh*, *live* or *gone*; ids are AUTOINCREMENT
  and never come back. `ByAddress` and `ByCookie` are what the documents promise,
  written without the code's operators; `Unfiltered` is the one case in which the
  code goes beyond them.
* **Refresh**: three cells (routes, settings, policies) with a version in the
  database and a copy in memory; a refresh queries and stores them in the order
  of `refreshCache`. A failing query of the routes ends it, one of the settings
  stores the defaults (`GetSettings` returns them without an error), one of the
  policies is skipped.
* **Bans**: `mem` and `db` as maps from address to expiry. `DbActive` models the
  comparison of the driver's text in local time with `datetime('now')`, which is
  UTC: `ZoneOffset` shifts it, and `Early` is how long before its expiry that puts
  a row out of sight. Inserts, deletes and the load at a start may fail.
* **Limiter**: buckets are heap objects with a pointer from the map and from
  requests; a bucket deleted while in use lives on, detached. Tokens are counted
  in parts of a token, so that the model needs no fractions. The history `ideal`
  is, per address, the bucket that would be there if none were ever evicted: it
  is refilled and spent by the same requests, under the policy each of them met.
  The API stores any policy: a burst of zero acts as one, and a policy may refill
  its burst more slowly than an idle bucket is evicted (`Slow`), which the history
  counts in `loans`.
  `MaxBurst`, `MaxThreshold` and `Span` bound all policies that are ever saved,
  because a bucket may have been filled, or failures counted, under an earlier
  policy than the present one.
* **Accounts**: `seedAdmin` statement by statement with failures and crashes,
  `HandleRegister` as SELECT, UPDATE, INSERT, and admin requests as the two
  queries of `requireAdmin` and the change.
* **Registry**: rows and listeners. `ValidateRoute`, `RegisterRoute` and
  `UnregisterRoute` keep the code's decisions; a raw socket has a current
  listener (*none, starting, open*) and cancelled ones that still open or close
  it. `Restart` is `SyncRoutes` followed by `StartProxy`, or a refusal to start.
  The history `blame` collects what the properties make exceptions for: requests
  that overlapped, a raw listener started where one was before, and rows of the
  kinds `ValidateRoute` does not look at (`Mistakes`).
* **RecentEvents**: the abstract specification of the recent-events list: a
  sequence of at most `Cap` events, the newest first.
* **EventRing**: the array with `eventHead` and `eventCount`, the two kinds of
  counters, and the page. `RecordEvent` is three separate steps (`CountOutcome`,
  `CountRoute`, `PushRing`: two atomic additions and one locked section), a page
  one load per counter, in the order of `HandleAdminMetrics`. `List` instantiates
  RecentEvents with what `GetRecentEvents` would return. (`RingInit`, `RingNext`,
  `RingSpec`: TrafficProofs extends this module and UdpRelay.)
* **UdpRelay**: one relay. The read loop has a program counter (look up, ban,
  authorise, dial, store, spawn, write), every flow a pump, and there is one
  reaper. A sweep of it computes its cutoff, takes the mutex of the map, and then
  loads `lastActive` and closes the flow in two steps (`SweepLoads`,
  `SweepCloses`), between which the loop and the pumps go on using socket and
  `lastActive`, which the mutex does not cover. `lastActive` is kept as an age in
  half timeouts, the period of the reaper. `standing` is what `IsBanned` and `authorizeIP` would answer for the
  packet at hand, and may change between the two calls.
* **Migrations**: the fifteen files as statements that need and change tables and
  columns; `OpenDatabase`, `MarkApplied`, `NextFile`, `ExecStatement` and
  `RecordVersion` are the steps of `runMigrations`; `StatementFails` is an error of
  one of them that has nothing to do with the schema. `MigInit` is every database an
  earlier release can have left, recorded or not.
* **Lifecycle** (extends Migrations): `run` as one program counter, beside it
  handlers (HTTP ones, for which `server.Shutdown` waits, and raw ones, which are
  in the WaitGroup), the drainer of `logChan` and the ticker. The groups of the
  admin route are *unset* as long as nobody has set any, *restricted*, or *cleared*
  by the administrator; the code sees no difference between the first and the last.
  An edit of it is an UPDATE, a query and a store (`EditAdminRoute`, `EditReads`,
  `EditStores`), as the ticker's refresh is a query and a store, so that they can
  overtake each other. Of `seedAdmin` only the admin group is kept, whose
  statements are in Accounts. `Crash` is possible everywhere, and the next process
  finds what is on disk.

Modules that start with `MC` give values to constants. They replace no
definition.

Deliberate simplifications:

* A request carries the rule it met in the cache; how old that copy may be is
  the subject of Refresh alone, and the ban it may cause is the subject of Bans.
* Limiter lets banned addresses arrive too (more behaviours than the code has).
* Registry treats `p.servers` as atomic although the code does not lock it, and
  starts or stops both protocols of a `tcp+udp` route in one step. No other
  process of the machine competes for ports. The cache refresh at the end of a
  handler is left to Refresh.
* UdpRelay joins the storing of `lastActive` with the transfer of the datagram it
  is for. A refused write to the target shows up at the pump.
* Lifecycle keeps one admin route, one queue and one WaitGroup, and of all HTTP
  servers, or all raw listeners, whether one is open; it assumes that the admin
  panel is enabled. The refresh of the start is one step, since no request is
  served yet that could change the row in between.

## 3. Runs

| run | cfg of | expects | shows |
|---|---|---|---|
| `gate` | MCSessions | pass | with every shape of rule, and none, nobody is denied who should be served and nobody served who should be denied: `DenialJustified`, `GrantJustified`, `TypeOK` |
| `sessions` | MCSessions | pass | `NoOrphans`, `KeepAlive`, `RenewalNeedsActive`, `RevocationFinal` under concurrent handlers |
| `refresh` | MCRefresh | pass | `TypeOK`, `NothingInvented`, `InForceAlone`, and `EventuallyCoherent` (liveness) |
| `bans` | MCBans | pass | `TypeOK`, `Persisted`, `AgreeWhenAlone`, and `EventuallyAgree` (liveness) |
| `limiter` | MCLimiter | pass | `RateBound`, `BanJustified`, `BanBound` |
| `accounts` | MCAccounts | pass | `InviteOnceAlone`, `Privileged` |
| `invite_once` | MCAccounts | violation | `InviteSingleUse`, from `docs/concepts.md:140` |
| `registry` | MCRegistry | pass | `LiveMatchesRows`, `BootsAlone`, `NoSelfConflict` |
| `registry_boot` | MCRegistry | violation | `BootsAgain`, from `proxy/proxy.go:109` |
| `events` | MCEventRing | pass | `ImplementsRecentEvents` (refinement), `CountsAgree`, `PageAddsUp`, `RingTypeOK` |
| `relay` | MCUdpRelay | pass | `NoLeak`, `ReapedOnlyIdle`, `FlowsAreGated`, `TypeOK`, and `IdleIsReaped`, `CancelEnds` (liveness) |
| `lifecycle` | MCLifecycle | pass | `MigratedIsComplete`, `RefusedOnlyTorn`, `FlushedBeforeClose`, `NoLateSend`, `AdminProtected`, `TypeOK`, and `ShutdownEnds` (liveness) |

The passing properties state what the code *does* guarantee, with the exact
condition under which it does. Two violations show what fails without such a
condition, in the words of a document or comment:

* `invite_once`: two registrations select the unused invite, both mark it, both
  create an account.
* `registry_boot`: POST of a route with `tls` on a port whose listener has none.
  `ValidateRoute` "checks whether a new route is compatible with the live proxy"
  (`proxy/proxy.go:109`), but does not look at TLS. The row is stored, the route
  registered, and `parseProxies` refuses the rows at the next start.

### Where documents say more than the code does

The conditions in the other properties mark further disagreements, each of which
the model reaches:

* An acknowledged edit is in force, "immediately" in `docs/concepts.md:26`,
  unless refreshes overlapped (`InForceAlone`): the ticker reads the routes, a
  handler edits them, refreshes and answers, the ticker stores its old copy.
* `Unban` "lifts a ban from both the in-memory set and the DB"
  (`proxy/limiter.go:230`) unless a reload is under way (`AgreeWhenAlone`): it
  read the ban before, and puts it back into memory. Nor if the DELETE fails:
  its error is dropped (`proxy/limiter.go:234`), the address is let in and then,
  after the next reload, banned again.
* Bans "survive restarts" (`docs/concepts.md:199`): east of UTC and on it. West of
  it a row is invisible, and cleaned up, as long before its expiry as local time
  is behind (`storage/throttle.go:146`), so a ban shorter than that is lost with
  the memory (`Persisted` speaks of `Lasting` bans). And if the load of the start
  fails, nobody is banned until a reload succeeds (`AgreeWhenAlone`).
* A group rule admits only members of the groups (`docs/concepts.md:116`), unless
  no entry of `allowed_groups` is a number: then the lookup by address filters by
  no group and any session admits (`GrantJustified` names `Unfiltered`), whereas
  the lookup by cookie admits nobody.
* A route that has just been registered and is not yet in the cache is public on a
  raw listener (`proxy/auth.go:152`) and answered 407 by HTTP (`Free`,
  `DenialJustified`).
* "If a listener already exists on that port it is stopped first"
  (`proxy/tcp.go:15`): it is told to stop, and its successor may find the port
  taken, which ends the process (`NoSelfConflict` allows "restart").
* "UnregisterRoute removes a route from the live proxy" (`proxy/proxy.go:348`), and
  a UDP listener "is independent and coexists with either" (`docs/concepts.md:40-41`).
  `UnregisterRoute` looks for `p.servers[port]` first (`proxy/proxy.go:355`), and
  entries of `p.servers` stay when their last host is gone: a UDP route created on
  a port that once had an HTTP route is deleted from the database and its
  listener goes on relaying (`LiveMatchesRows` allows "shared").
* "A banned IP is dropped ... on both HTTP (403) and raw TCP/UDP"
  (`docs/concepts.md`, Throttling): a UDP flow is gated by its first packet only,
  and lives on through a ban (`FlowsAreGated` speaks of the opening of a flow).
* The stop function of `InitAuth` "must be called after all request handlers have
  stopped" (`proxy/auth.go:36`). It is, unless a timeout passes; or, after a
  listener error, raw listeners exist, which nothing tells to stop; or the error
  was that of the last listener and the select takes `done` (`NoLateSend`). Nor
  does it keep the ticker from running on a closed store: nobody waits for it.
* The protection of the admin route is "applied once the first time the route is
  created", and a later change "is kept across restarts" (`docs/concepts.md:20`,
  likewise `main.go:99-100` and `storage/routes.go:291-294`): `EnsureRouteGroup`
  tests the groups for being empty, so an administrator who makes the route public
  finds it restricted after the next start. `AdminProtected` claims nothing about
  a route the administrator has cleared; it is about the route nobody has touched.
  If seeding was cut off before the admin group existed, `run` only warns, at this
  and every later start, and the page is public (`warned`); and if the ticker reads
  the row before it is protected and stores its copy after the first refresh, the
  page is public until the next one (`overtaken`).
* A flow that is in use is closed if its first datagram after a pause passes
  between the reaper's load of `lastActive` and its `Close` (`proxy/udp.go:209-210`):
  `ReapedOnlyIdle` speaks of the moment of the load.
* An old database is recognised so that "no statement is run twice"
  (`docs/migrations.md:43`), unless a crash falls between the marks: then the
  table is no longer empty, the remaining marks are never made, and every later
  start fails at a column that exists (`RefusedOnlyTorn`).

`BanBound` documents a smaller disagreement: `proxy/limiter.go:176-178` speaks
of a sliding window, the code restarts the window, and so up to twice
(threshold - 1) failures fit into a window's length without a ban. With policies
that change, that holds for a time no longer than the shortest window ever
configured, nor than the idle time of an eviction, which forgets a count too.

### Bounds, and why they are enough

* `gate`: one request at a time, two users, two tokens, an address in both
  spellings, the cache miss and six rules that between them use every branch of
  the decision, one of them with an entry that is not a number. Clock 0..2 with
  sessions of two hours: two sessions on one address with different expiries are
  what shadowing needs, and the earlier one runs out within the run.
* `sessions`: two workers, one user, two tokens, one rule that takes all paths,
  clock 0..2 with sessions of two hours, so that a session expires between two
  statements of a request. Every race of the hazards list needs two parties.
* `refresh`: two handlers and the ticker, two edits, one failing query: three
  overlapping refreshes.
* `bans`: two addresses, two callers, two reloaders, three calls, one restart,
  one failing statement, clock 0..2, permanent bans and bans of one hour, an hour west
  of UTC, so that a ban is in force while its row is out of sight.
* `limiter`: one address (buckets of different addresses share nothing), two
  workers, three buckets (two held, one in the map), clock 0..3 with `Idle` 2:
  a bucket is filled, used, evicted and used again. The three policy tables differ
  in rate and in burst, so that a bucket filled under one is used under the
  other; one has a burst of zero and one is too slow to refill its burst while an
  idle bucket is kept.
* `accounts`: two workers, one invite, four user ids, one crash, one failure.
* `registry`: two ports (one with the web host of the configuration), two
  handlers, four requests out of seven bodies that cover every kind, a range
  that crosses an HTTP port, TLS that disagrees, and a target without handler
  (1.65 million states). Four, because what an HTTP listener without routes does
  to a UDP route on its port takes a POST, a DELETE, a POST and a DELETE.
* `events`: two writers, two routes, two outcomes, five events in a ring of
  three, so that the head wraps around and every slot is overwritten.
* `relay`: one client and two flows: a client's new flow can coexist with the
  dying one it had before, which is what a wrong removal needs. Clients share
  nothing but the loop and the reaper; the proofs of the safety properties are for
  any number of them.
* `lifecycle`: one handler of each kind, a queue of one entry. Two crashes or
  failing statements per migration of a database, so that a start can be cut off
  after a start that was cut off; once the schema is complete, crashes are
  not counted. Databases of all fifteen versions, and the five unrecorded ones.

Clocks and counters stop at named bounds. Deadlock is checked in every run: at
the bounds a handler, a reload or a restart can still take a step.

### Fairness

Liveness is checked in four runs. `Refresh` assumes weak fairness of the ticker
(a `time.Ticker` in a goroutine that runs as long as the process) and of every
query and store of a refresh that has begun (a goroutine is scheduled and SQLite
answers or fails; failures are bounded). `Bans` assumes the same of calls that
have begun and of reloads, whose query does not fail for ever. `UdpRelay` assumes
it of the loop between two reads, of a read or a pump whose socket is closed (Go's
poller wakes it), of the goroutine that closes the listening socket and of the
reaper, and nothing of traffic. Where it waits for the mutex of the map, or the
reaper's select has both a tick and the end of the context, the fairness is
strong: a `sync.Mutex` is handed to a waiter that has starved for a millisecond,
and a select takes one of the ready cases at random. `Lifecycle` assumes it of `run`, whose waits all have a timeout except
the one for the drainer, and of the drainer. Nothing is assumed of
administrators, clients, signals, crashes or, elsewhere, the clock.

## 4. Proofs

All for arbitrary constants: any number of users, tokens, groups, rules,
addresses, workers, flows, handlers, and any bound on clocks, crashes and
failures. Every proof module extends the module it is about (TrafficProofs two), states an inductive
invariant as a conjunction of named parts, and shows action by action that no
step breaks it; the theorems at its end are the properties of the runs.

| module | theorem | property |
|---|---|---|
| SessionsProofs | `TypeCorrect` | `TypeOK` |
| | `NoOrphansEver` | `NoOrphans` |
| | `RevocationIsFinal` | `RevocationFinal` |
| | `SessionsKeptAlive` | `KeepAlive` |
| | `RenewalIsOfActive` | `RenewalNeedsActive` |
| | `GrantsAreJustified` | `GrantJustified` |
| | `DenialsAreJustified` | `DenialJustified` |
| BansProofs | `TypeCorrect` | `TypeOK` |
| | `BansPersist` | `Persisted` |
| | `AgreeAlone` | `AgreeWhenAlone` |
| RefreshProofs | `TypeCorrect` | `TypeOK` |
| | `OnlyCommittedEnforced` | `NothingInvented` |
| | `AcknowledgedInForce` | `InForceAlone` |
| LimiterProofs | `RateIsBounded` | `RateBound` |
| | `BansAreJustified` | `BanJustified` |
| | `FailuresAreBounded` | `BanBound` |
| AccountsProofs | `InvitesMakeOne` | `InviteOnceAlone` |
| | `OnlyAdminsAct` | `Privileged` |
| RegistryProofs | `ListenersMatch` | `LiveMatchesRows` |
| | `StartsAgain` | `BootsAlone` |
| | `PortsAreFree` | `NoSelfConflict` |
| TrafficProofs (UdpRelay) | `TypeCorrect` | `TypeOK` |
| | `NothingLeaks` | `NoLeak` |
| | `OnlyIdleReaped` | `ReapedOnlyIdle` |
| | `FlowsGated` | `FlowsAreGated` |
| TrafficProofs (EventRing) | `RingTypeCorrect` | `RingTypeOK` |
| | `RingImplementsList` | `ImplementsRecentEvents` |
| | `CountersAgree` | `CountsAgree` |
| | `PagesAddUp` | `PageAddsUp` |
| LifecycleProofs | `TypeCorrect` | `TypeOK` |
| | `LogFlushed` | `FlushedBeforeClose` |
| | `SendsAreSafe` | `NoLateSend` |
| | `AdminRouteProtected` | `AdminProtected` |
| | `MigratedComplete` | `MigratedIsComplete` |
| | `RefusedTorn` | `RefusedOnlyTorn` |

### The arguments

* **Sessions.** The types are not inductive alone: that a worker reading
  `req[w].user` finds a user depends on the stage it is in, so `TypeInv` adds
  `Stages` (what each program counter says of the fields carried), `RowsFilled`
  (a live row has its columns) and `SettingsLast` (no duration that was ever read,
  the defaults of a failing query among them, is below `MinHours`).
  `NoOrphansEver` then needs only the lemma `RowsStep`:
  every step leaves the rows as they are, removes or prolongs some, or is the
  insert of a login, which the foreign key guards. `SessionsKeptAlive` needs
  `KeptAlive`: it speaks of every row that has not expired, whether its user is
  there or not, and says that no renewal is dated in the future.
  `GrantsAreJustified` needs `Cleared`: a worker in a stage after the decision
  (renewing, answering) has the mark "granted" in its history, set by the step at
  whose instant rule, sessions and memberships admitted it, or "unfiltered";
  `FoundByAddress` and `FoundByCookie` show that what the two lookups return gives
  access by the reference definition, or by the filter that is none. `DenialsAreJustified` is the converse and needs more: a
  lookup that returns nothing must mean that there is nothing, but
  `ValidateSessionByIPInGroups` returns the row with the latest expiry, and
  among infinitely many tokens there need not be one. `Bounded` (all expiries
  are below some number) and `LeastNatural` provide it; `Refused` extends
  the property to the stage between the two lookups. A lookup that failed, or a
  route without a rule, is the only other reason for a denial.
* **Bans.** `Persisted` needs `NothingOwed`: while an `Unban` is between its two
  steps, no ban of that address is owed, so its DELETE takes away nothing that
  was promised. `AgreeWhenAlone` needs `Undisturbed`: there is one call at most,
  the memory is ahead of the table at its address and level with it elsewhere,
  and so is everything a reload has read. Both are proved for every `ZoneOffset`:
  west of UTC `CleanupExpiredBans` removes rows, and `GetActiveBans` leaves rows
  out, before they expire, but, as `Lasting` says, by no more than the offset.
* **Refresh.** `NothingInvented` needs `Read` (what a refresh holds between its
  query and its store was committed, or is the defaults); `InForceAlone` needs
  `Committed` (nobody acknowledges more than is in the table), `Single` (without
  an overlap one refresh is under way) and `Current` (what it has stored, and what
  it is about to store, is level with the table).
* **Limiter.** Everything rests on `Owned`: a bucket belongs to one address,
  whether the map or a request refers to it, so heap objects that outlive their
  place in the map never mix the counts of two addresses. `RateBound` needs
  `Paced`: the bucket in the map never has more tokens than the one that is never
  evicted, up to a burst for every eviction in use and every loan, or it is new
  and the other has had the time to fill up, unless the policy is slow: then the
  burst is counted as a loan.
  `BanJustified` needs `Counted`: the failures a bucket counts are the latest of
  its address and none is older than its window. `BanBound` needs `Passed`: of
  the failures before the present window at most threshold - 1 can be as recent as
  `Span`. Four kinds of steps (`Calm`, `Create`, `Touch`, eviction) cover all
  actions, and each part is shown once per kind.
* **Accounts.** `Spent` says that a code that was never shared is with one
  registration, that it is marked before an account is made, and that a marked
  code is never found again. `Warranted` ties the stage of an admin request to what
  its two queries saw.
* **EventRing.** `OneLap` and `NextSlot` say what `%` does on the indices, `Slot`
  is the slot of the k-th newest event without it, and `HeadMoves` says that moving
  the head turns the k-th newest into the next one and that none of them is the
  slot being written. From these, `PushIsRecord`: the locked section of
  `RecordEvent` is a step of the list. All other steps leave the list alone.
  `CountsAgree` is inductive with the types; what it needs is arithmetic of
  sums and of cardinalities. `Total` folds over a set by CHOOSE: it is the value of
  a recursive function on the subsets of the keys, and `SumExists` shows that there
  is one (the least n for which subsets of n elements have none is not 0 and
  not more). That one addition adds one to it, and that larger counters have
  no smaller sum, is shown by looking at a smallest subset for which it is false
  (`Smallest`, from `LeastNatural`), which is how induction is done where a
  theorem cannot take an operator as a parameter. `WriterMoves` says what one
  writer's step does to the number of calls at any set of places. `PageAddsUp` needs
  `PageInv`: what a page has read by route is at most what the counters hold now;
  when it reads the served ones, all routes have been read, and by
  `CountsAgree` their sum is at most the number it then reads.
* **Registry.** Three layers. `Inv0` holds always: what each stage of a request
  carries (`Stages`), the rows of the configuration (`Configured`), that requests
  that did not overlap are served one at a time (`Alone`), that no listener exists
  that was not started (`Begun`, `Bound`), and that the row a handler is about to
  register is there while all other rows have been started (`Known`).
  `CleanInv` holds as long as nobody is to blame for a conflict: at most one
  listener, current or cancelled, is on a raw socket (`Lone`), HTTP and TCP
  never met on a port (`Apart`), also not between the check and the start
  (`Vacant`, `EditsBegun`), and hence no bind fails. `SoundInv` holds as long as the
  rows are of the kinds the code looks at: every row is served but the one about
  to be registered (`Live`), every listener and host has a row but the ones about
  to be removed (`Owned`, `Hosted`, `Departed`), the rows are bootable, and what a
  request has checked still holds when it acts on it (`Checked`, `Prepared`,
  `Edited`). Between requests, that is `LiveMatchesRows`. A blame, once there, stays.
  `FreshInv0`, `FreshClean` and `FreshSound` show each layer of a process that has
  just started from its rows, and serve the initial state and `Restart` alike.
* **UdpRelay.** `NoLeak` is not inductive: which sockets can be found depends on
  who holds which flow at every point of the loop and the pumps. `Custody` says
  it: a flow in the map is there under its owner and has a pump, or the loop is
  about to start one; the flow the loop has dialled is in no map; a pump removes
  its flow only after it has closed the socket, and only if the map still has it.
  `FlowsAreGated` needs `Screened` (what the loop has seen of its client when
  it passes each check), `ReapedOnlyIdle` needs `AgesAgree` (`lastActive` never
  makes a flow look more idle than it is) and, since the cutoff is older than the
  load, that a flow still in `stale` has stored nothing since.
* **Lifecycle, the migrations.** The script is a fixed text, so a few lemmas
  tabulate it (`ScriptOrdered`: no item is created twice, what is dropped was
  added by an earlier file), and the rest uses it only through them.
  `MigratedIsComplete` looks as if "every recorded file was applied" were the
  invariant, but that is false: `bootstrapMigrations` records files because it
  found a column, and the first file because it found `proxy_routes`, which a
  crash may have left without the tables after it. `MigInv` says what is true
  instead, and that a database without `sessions` cannot get past the fourth file.
  `RefusedOnlyTorn` needs `Whole`: until a crash hits a step that cannot be
  repeated, nothing still to be created is there, nothing still to be dropped is
  missing. When the last file has been recorded nothing is left to repeat
  (`LastWhole`), and what was torn before no longer matters: from then on the
  property holds of every start.
* **Lifecycle, the process.** What a shutdown relies on is collected on the way:
  `Early` (what cannot have happened before the listeners open), `Listening`,
  `Closing` with `Quiesced` (who has ended at each stage of a shutdown that waited
  for everyone), `Sending`, `Drain` (the drainer ends with an empty closed queue,
  and `store.Close` waits for it) and `Guarded`: from `EnsureRouteGroup` on the row
  of the admin route is not unset unless the start has warned, and from the refresh
  on the cached rule is not either, unless the copy in use was read before
  (`overtaken`). A refresh by a handler or the ticker stores what it has read, and
  the mark says whether that was the row of before.

Assumptions on constants are named in the modules that declare them
(`RulesAssumption`, `HoursAssumption`, `BansAssumption`, `MigrationsAssumption`,
...) and evaluated by TLC in the runs. They give constants their types, with
two exceptions. `HoursAssumption` says that `MinHours` is a lower bound of the
durations in use, `PoliciesAssumption` gives names to the largest burst and
threshold and to a time no longer than `Idle` and any window, and has the history
of failures reach as far back as a threshold. Neither excludes a policy or a
setting the API accepts; they only name the numbers the properties speak of. The
proof of `RateBound` is also how the property got its present form: a bound that
looked at the current policies only is false when a slower policy follows a
faster one.

## 5. Only model-checked

* Liveness (`EventuallyCoherent`, `EventuallyAgree`, `IdleIsReaped`, `CancelEnds`,
  `ShutdownEnds`): temporal reasoning with fairness is out of the prover's reach.

Every invariant and every action property of the passing runs has a theorem.

## 6. Not modelled

Proxying of HTTP, static files, TLS parameters, configuration parsing, logging,
telemetry, the pages in `www/`, and handlers that only read (`HandleMe`,
`HandleUserRoutes`, lists of the admin panel): stateless or output only. The
unsynchronised map `p.servers` is a data race whose outcomes the Go memory model
leaves open. Bytes of a TCP connection and contents of datagrams are passed on
unread. The rows of the access log and of `auth_failures` are written and shown,
and nothing depends on them. Two errors that are not handled are left out: the
reads of `runMigrations` and `bootstrapMigrations` whose errors are dropped
(`storage/storage.go:101`, `134`, `141`, `178`), and a request that arrives when
no refresh has ever succeeded (the type assertion on the empty `atomic.Value`
panics; net/http recovers that, a raw connection does not): Lifecycle takes the
admin route for unknown then.

## 7. Plan

Everything the inventory names with state of its own is modelled, and every
safety property of the passing runs is proved. When the code changes, the
places to look at first are the conditions in the properties ("overlap",
"shared", "restart" of Registry, overlapping refreshes, reloads during an
`Unban`, `Early` of Bans, `Unfiltered`, `overtaken`, the invite read twice): a lock or a transaction there makes a condition
superfluous, and the property without it is then what should be checked and
proved. `p.servers` should be modelled entry by entry if it gets a lock.

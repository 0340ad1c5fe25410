------------------------------ MODULE Sessions ------------------------------
(***************************************************************************)
(* Sessions and the requests that live on them: the users, groups,         *)
(* user_groups, sessions and settings tables of storage/, and the handlers *)
(* that read and write them concurrently: the HTTP gate (withAuthForKey),  *)
(* the raw gate (authorizeIP), login, session extension, self-revocation,  *)
(* logout, the administrator's statements and the cleanup of the ticker.   *)
(*                                                                         *)
(* Every SQL statement is one step; a handler with several statements is a *)
(* goroutine (Worker) with a pc and the values it carries from one         *)
(* statement to the next. The rule a request is judged by was loaded from  *)
(* the route cache when it arrived: any rule of Rules (Refresh models how  *)
(* old that copy can be), or None while the route is registered and its    *)
(* rule is not in the cache yet. Any statement of a handler may fail.      *)
(***************************************************************************)
EXTENDS Gate

CONSTANTS
    Worker, User, Token,
    Rules,          \* the rules requests may meet
    SettingsInput,  \* what an administrator may submit as settings
    DefaultHours,   \* 168 in the code
    MinHours,       \* a lower bound of every duration in use
    MaxTime,        \* bound: the clock stops here
    None

ASSUME RulesAssumption == Rules \subseteq Rule

ASSUME HoursAssumption ==
    /\ DefaultHours \in Nat \ {0}
    /\ MinHours \in Nat /\ MinHours <= DefaultHours
    /\ SettingsInput \subseteq [hours : Nat, renew : BOOLEAN]
    /\ \A s \in SettingsInput : s.hours = 0 \/ MinHours <= s.hours

ASSUME TimeAssumption == MaxTime \in Nat

VARIABLES
    now,            \* the wall clock
    users,          \* id -> "new", "live" or "deleted" (ids are never reused)
    groups,         \* likewise
    member,         \* the user_groups table
    sess,           \* token -> its row in sessions
    settings,       \* the settings row
    globalSettings, \* the proxy's copy of it
    req,            \* worker -> the request it serves
    seen,           \* history: what held of a request in flight (Watch)
    renewedAt       \* history: last renewal by address of a user's sessions

db   == <<users, groups, member, sess, settings>>
vars == <<now, users, groups, member, sess, settings, globalSettings,
          req, seen, renewedAt>>

Status == {"new", "live", "deleted"}
Setting == [hours : Nat \ {0}, renew : BOOLEAN]

\* A row of sessions; the columns of a row that is not there are blank.
Row == [st : {"fresh", "live", "gone"}, user : User \cup {None},
        ip : Addr \cup {None}, exp : Nat]

Fresh == [st |-> "fresh", user |-> None, ip |-> None, exp |-> 0]
Gone  == [st |-> "gone",  user |-> None, ip |-> None, exp |-> 0]

PC == {"idle", "ipLookup", "ipRenew", "cookieLookup", "cookieRenew",
       "rawLookup", "rawSettings", "served", "denied",
       "loginSettings", "loginCreate",
       "extendAccess", "extendSettings", "extendWrite", "revokeDelete"}

\* user: whom the request acts for, once known; target: the session a
\* revocation names; gs: the settings the request has read; failed: the
\* lookups that returned an error instead of an answer.
Request == [kind : {"none", "http", "raw", "login", "extend", "revoke"},
            pc : PC, ip : Addr \cup {None}, tok : Token \cup {None},
            rule : Rules \cup {None}, gs : Setting \cup {None},
            user : User \cup {None}, target : Token \cup {None},
            failed : SUBSET {"address", "cookie"}]

Idle == [kind |-> "none", pc |-> "idle", ip |-> None, tok |-> None,
         rule |-> None, gs |-> None, user |-> None, target |-> None,
         failed |-> {}]

-----------------------------------------------------------------------------
(* Queries                                                                 *)

\* Settings.SessionDur: hours that are not positive mean the default.
SessionDur(s) == IF s.hours = 0 THEN DefaultHours ELSE s.hours

DefaultSettings == [hours |-> DefaultHours, renew |-> TRUE]

\* The row, or the defaults when the query fails: no error is reported.
GetSettings == {settings, DefaultSettings}

\* expires_at > time.Now(), joined with an existing user.
Active(t) ==
    /\ sess[t].st = "live"
    /\ sess[t].exp > now
    /\ users[sess[t].user] = "live"

GroupsOf(u) == {g \in Group : <<u, g>> \in member}

\* Fault: no group filter.
IPCandidates_Fault(a, r) ==
    {t \in Token : Active(t) /\ sess[t].ip = normalizeIP[a]}

\* Rows that pass the WHERE of ValidateSessionByIPInGroups.
IPCandidates(a, r) ==
    {t \in Token : /\ Active(t)
                   /\ sess[t].ip = normalizeIP[a]
                   /\ InGroups(r, GroupsOf(sess[t].user))}

\* Fault: the latest session on the address is picked before the group test.
LatestThenGroup_Fault(a, r) ==
    {t \in IPCandidates(a, r) :
        \A o \in Token : Active(o) /\ sess[o].ip = normalizeIP[a]
                            => sess[o].exp <= sess[t].exp}

\* ORDER BY expires_at DESC LIMIT 1: a tie may be broken either way.
ValidateSessionByIPInGroups(a, r) ==
    {t \in IPCandidates(a, r) :
        \A o \in IPCandidates(a, r) : sess[o].exp <= sess[t].exp}

-----------------------------------------------------------------------------
(* What the documentation promises a request, as one formula over the      *)
(* whole database: the reference the stepwise handlers are compared with.  *)

\* The rule restricts nothing, or lists the client's address; a raw route
\* that is not in the cache is public, an HTTP one is not.
Free(q) ==
    IF q.rule = None THEN q.kind = "raw"
    ELSE \/ ipAllows(q.rule, q.ip)
         \/ IF q.kind = "http" THEN Public(q.rule) ELSE RawPublic(q.rule)

Unexpired(t) == sess[t].st = "live" /\ now < sess[t].exp

\* The rule takes a session on the client's address as a credential.
AddressCounts(q) ==
    /\ q.rule # None
    /\ q.rule.ipAuth \/ (q.kind = "raw" /\ q.rule.allowedGroups # {})

\* Some user with a session at the address is in an allowed group, or
\* allowed_groups is not configured: it has no entry that is not blank.
ByAddress(q) ==
    /\ AddressCounts(q)
    /\ \E t \in Token :
        /\ Unexpired(t) /\ sess[t].ip = normalizeIP[q.ip]
        /\ \/ q.rule.allowedGroups \subseteq {Blank}
           \/ \E g \in q.rule.allowedGroups : <<sess[t].user, g>> \in member

\* Where the code departs from that: no entry of allowed_groups is a number,
\* so that the lookup filters by no group and any session will do.
Unfiltered(q) ==
    /\ AddressCounts(q)
    /\ Junk \in q.rule.allowedGroups /\ q.rule.allowedGroups \cap Group = {}
    /\ \E t \in Token : Unexpired(t) /\ sess[t].ip = normalizeIP[q.ip]

ByCookie(q) ==
    /\ q.rule # None
    /\ q.kind = "http" /\ q.rule.persistentLogin /\ q.tok # None
    /\ Unexpired(q.tok)
    /\ \/ q.rule.requireLogin
       \/ \E g \in q.rule.allowedGroups : <<sess[q.tok].user, g>> \in member

\* What holds of a request in one instant.
Facts(q) ==
    IF q.kind \in {"http", "raw"} /\ q.pc # "idle"
    THEN {f \in {"granted", "unfiltered", "noAddress", "noCookie"} :
             \/ f = "granted"   /\ (Free(q) \/ ByAddress(q) \/ ByCookie(q))
             \/ f = "unfiltered" /\ Unfiltered(q)
             \/ f = "noAddress" /\ ~ByAddress(q)
             \/ f = "noCookie"  /\ ~ByCookie(q)}
    ELSE {}

-----------------------------------------------------------------------------
Init ==
    /\ now = 0
    /\ users  = [u \in User  |-> "new"]
    /\ groups = [g \in Group |-> "new"]
    /\ member = {}
    /\ sess = [t \in Token |-> Fresh]
    /\ settings = DefaultSettings
    /\ globalSettings = settings
    /\ req = [w \in Worker |-> Idle]
    /\ seen = [w \in Worker |-> {}]
    /\ renewedAt = [p \in User \X Addr |-> 0]

Become(w, q) == req' = [req EXCEPT ![w] = q]

Finish(w) == Become(w, Idle)

-----------------------------------------------------------------------------
(* Statements on the sessions table                                        *)

\* Fault: foreign keys are not enforced.
CreateSession_Fault(t, u, dur, a) ==
    /\ sess[t].st = "fresh"
    /\ sess' = [sess EXCEPT ![t] = [st |-> "live", user |-> u,
                                    ip |-> normalizeIP[a], exp |-> now + dur]]

\* INSERT INTO sessions: the foreign key rejects a user who is not there.
CreateSession(t, u, dur, a) ==
    /\ sess[t].st = "fresh"
    /\ users[u] = "live"
    /\ sess' = [sess EXCEPT ![t] = [st |-> "live", user |-> u,
                                    ip |-> normalizeIP[a], exp |-> now + dur]]

\* UPDATE ... WHERE token_hash = ? (or id = ?): no test of expires_at.
ExtendSession(t, dur) ==
    sess' = [sess EXCEPT ![t] =
                IF @.st = "live" THEN [@ EXCEPT !.exp = now + dur] ELSE @]

\* Fault: only one row, the one that expires last, is renewed.
RenewMatchedRow_Fault(u, a, dur) ==
    LET rows == {t \in Token : /\ sess[t].user = u /\ sess[t].exp > now
                               /\ sess[t].ip = normalizeIP[a]}
    IN  IF rows = {} THEN UNCHANGED sess
        ELSE \E t \in rows :
                /\ \A o \in rows : sess[o].exp <= sess[t].exp
                /\ sess' = [sess EXCEPT ![t].exp = now + dur]

\* Fault: expired rows are renewed too.
RenewExpired_Fault(u, a, dur) ==
    sess' = [t \in Token |->
                IF sess[t].user = u /\ sess[t].ip = normalizeIP[a]
                THEN [sess[t] EXCEPT !.exp = now + dur]
                ELSE sess[t]]

\* UPDATE ... WHERE user_id = ? AND client_ip = ? AND expires_at > now.
ExtendUserSessionsByIP(u, a, dur) ==
    sess' = [t \in Token |->
                IF /\ sess[t].st = "live"
                   /\ sess[t].user = u
                   /\ sess[t].ip = normalizeIP[a]
                   /\ sess[t].exp > now
                THEN [sess[t] EXCEPT !.exp = now + dur]
                ELSE sess[t]]

\* DELETE FROM sessions WHERE ...
DeleteSessions(S) ==
    sess' = [t \in Token |->
                IF t \in S /\ sess[t].st = "live" THEN Gone ELSE sess[t]]

-----------------------------------------------------------------------------
(* withAuthForKey                                                          *)

\* The part after IP session auth: allowlist, then the two cookie denials.
AfterIPAuth(q) ==
    CASE ipAllows(q.rule, q.ip)               -> [q EXCEPT !.pc = "served"]
      [] /\ ~ipAllows(q.rule, q.ip)
         /\ CookieGate(q.rule)
         /\ q.tok # None                      -> [q EXCEPT !.pc = "cookieLookup"]
      [] OTHER                                -> [q EXCEPT !.pc = "denied"]

\* A grant that renews first, or not.
Granted(q, u, renewPC) ==
    [q EXCEPT !.user = u, !.pc = IF q.gs.renew THEN renewPC ELSE "served"]

\* A client presents no cookie, or a token that was issued once. A route that
\* is not in the cache (r = None) is answered 407.
HttpRequest(w, a, t, r) ==
    /\ req[w].pc = "idle"
    /\ t # None => sess[t].st # "fresh"
    /\ LET q == [Idle EXCEPT !.kind = "http", !.ip = a, !.tok = t,
                             !.rule = r, !.gs = globalSettings]
       IN  Become(w, IF r = None THEN [q EXCEPT !.pc = "denied"]
                     ELSE CASE Public(r)              -> [q EXCEPT !.pc = "served"]
                            [] ~Public(r) /\ r.ipAuth -> [q EXCEPT !.pc = "ipLookup"]
                            [] OTHER                  -> AfterIPAuth(q))
    /\ UNCHANGED <<now, db, globalSettings, renewedAt>>

IPLookup(w) ==
    /\ req[w].pc = "ipLookup"
    /\ LET q == req[w]
           found == ValidateSessionByIPInGroups(q.ip, q.rule)
       IN  \/ /\ found = {}
              /\ Become(w, AfterIPAuth(q))
           \/ \E t \in found : Become(w, Granted(q, sess[t].user, "ipRenew"))
    /\ UNCHANGED <<now, db, globalSettings, renewedAt>>

IPRenew(w) ==
    /\ req[w].pc = "ipRenew"
    /\ LET q == req[w]
       IN  /\ ExtendUserSessionsByIP(q.user, q.ip, SessionDur(q.gs))
           /\ renewedAt' = [renewedAt EXCEPT ![<<q.user, normalizeIP[q.ip]>>] = now]
           /\ Become(w, [q EXCEPT !.pc = "served"])
    /\ UNCHANGED <<now, users, groups, member, settings, globalSettings>>

CookieLookup(w) ==
    /\ req[w].pc = "cookieLookup"
    /\ LET q == req[w]
       IN  IF Active(q.tok) /\ CookieAllows(q.rule, GroupsOf(sess[q.tok].user))
           THEN Become(w, Granted(q, sess[q.tok].user, "cookieRenew"))
           ELSE Become(w, [q EXCEPT !.pc = "denied"])
    /\ UNCHANGED <<now, db, globalSettings, renewedAt>>

CookieRenew(w) ==
    /\ req[w].pc = "cookieRenew"
    /\ ExtendSession(req[w].tok, SessionDur(req[w].gs))
    /\ Become(w, [req[w] EXCEPT !.pc = "served"])
    /\ UNCHANGED <<now, users, groups, member, settings, globalSettings, renewedAt>>

\* next.ServeHTTP or the relay of a raw flow has run, or denyAuth has.
Respond(w) ==
    /\ req[w].pc \in {"served", "denied"}
    /\ Finish(w)
    /\ UNCHANGED <<now, db, globalSettings, renewedAt>>

-----------------------------------------------------------------------------
(* authorizeIP, on a new TCP connection or UDP flow                        *)

RawAfterIPAuth(q) ==
    [q EXCEPT !.pc = IF ipAllows(q.rule, q.ip) THEN "served" ELSE "denied"]

\* A route that is not in the cache (r = None) is public.
RawRequest(w, a, r) ==
    /\ req[w].pc = "idle"
    /\ LET q == [Idle EXCEPT !.kind = "raw", !.ip = a, !.rule = r]
       IN  Become(w, IF r = None THEN [q EXCEPT !.pc = "served"]
                     ELSE CASE RawPublic(r)                  -> [q EXCEPT !.pc = "served"]
                            [] ~RawPublic(r) /\ RawIPAuth(r) -> [q EXCEPT !.pc = "rawLookup"]
                            [] OTHER                         -> RawAfterIPAuth(q))
    /\ UNCHANGED <<now, db, globalSettings, renewedAt>>

RawLookup(w) ==
    /\ req[w].pc = "rawLookup"
    /\ LET q == req[w]
           found == ValidateSessionByIPInGroups(q.ip, q.rule)
       IN  \/ /\ found = {}
              /\ Become(w, RawAfterIPAuth(q))
           \/ \E t \in found :
                Become(w, [q EXCEPT !.user = sess[t].user, !.pc = "rawSettings"])
    /\ UNCHANGED <<now, db, globalSettings, renewedAt>>

\* The settings are loaded after the lookup; the renewal is the HTTP one.
RawSettings(w) ==
    /\ req[w].pc = "rawSettings"
    /\ Become(w, Granted([req[w] EXCEPT !.gs = globalSettings],
                         req[w].user, "ipRenew"))
    /\ UNCHANGED <<now, db, globalSettings, renewedAt>>

-----------------------------------------------------------------------------
(* The session API: login, extension, self-revocation, logout              *)

\* HandleLogin: Authenticate, then GetSettings, then CreateSession.
Login(w, u, a) ==
    /\ req[w].pc = "idle"
    /\ users[u] = "live"
    /\ \E t \in Token : sess[t].st = "fresh"      \* bound: tokens to issue
    /\ Become(w, [Idle EXCEPT !.kind = "login", !.pc = "loginSettings",
                              !.user = u, !.ip = a])
    /\ UNCHANGED <<now, db, globalSettings, renewedAt>>

LoginSettings(w) ==
    /\ req[w].pc = "loginSettings"
    /\ \E s \in GetSettings :
            Become(w, [req[w] EXCEPT !.pc = "loginCreate", !.gs = s])
    /\ UNCHANGED <<now, db, globalSettings, renewedAt>>

\* A rejected INSERT ends the login with an error.
LoginCreate(w) ==
    /\ req[w].pc = "loginCreate"
    /\ \/ \E t \in Token :
            CreateSession(t, req[w].user, SessionDur(req[w].gs), req[w].ip)
       \/ users[req[w].user] # "live" /\ UNCHANGED sess
    /\ Finish(w)
    /\ UNCHANGED <<now, users, groups, member, settings, globalSettings, renewedAt>>

\* sessionFromRequest; the caller is known from here on.
SessionFromRequest(w, t, k, next, g) ==
    /\ req[w].pc = "idle"
    /\ Active(t)
    /\ Become(w, [Idle EXCEPT !.kind = k, !.pc = next, !.tok = t,
                              !.user = sess[t].user, !.target = g])
    /\ UNCHANGED <<now, db, globalSettings, renewedAt>>

\* HandleExtendSession: the route is read from the database.
ExtendBegin(w, t) == SessionFromRequest(w, t, "extend", "extendAccess", None)

ExtendAccess(w, r) ==
    /\ req[w].pc = "extendAccess"
    /\ IF RouteAllows(r, GroupsOf(req[w].user))
       THEN Become(w, [req[w] EXCEPT !.pc = "extendSettings"])
       ELSE Finish(w)
    /\ UNCHANGED <<now, db, globalSettings, renewedAt>>

ExtendSettings(w) ==
    /\ req[w].pc = "extendSettings"
    /\ \E s \in GetSettings :
            Become(w, [req[w] EXCEPT !.pc = "extendWrite", !.gs = s])
    /\ UNCHANGED <<now, db, globalSettings, renewedAt>>

ExtendWrite(w) ==
    /\ req[w].pc = "extendWrite"
    /\ ExtendSession(req[w].tok, SessionDur(req[w].gs))
    /\ Finish(w)
    /\ UNCHANGED <<now, users, groups, member, settings, globalSettings, renewedAt>>

\* HandleUserSessions, DELETE: only a session of the caller's own.
RevokeBegin(w, t, g) == SessionFromRequest(w, t, "revoke", "revokeDelete", g)

DeleteSessionByID(w) ==
    /\ req[w].pc = "revokeDelete"
    /\ DeleteSessions({t \in {req[w].target} : sess[t].user = req[w].user})
    /\ Finish(w)
    /\ UNCHANGED <<now, users, groups, member, settings, globalSettings, renewedAt>>

\* HandleLogout: the holder of a token deletes its row, expired or not.
Logout(t) ==
    /\ sess[t].st = "live"
    /\ DeleteSessions({t})
    /\ UNCHANGED <<now, users, groups, member, settings, globalSettings,
                   req, renewedAt>>

-----------------------------------------------------------------------------
(* A statement fails: the client has gone and r.Context() is cancelled, or *)
(* the database is busy. Nothing is written; the handler goes on as it     *)
(* does on an error.                                                       *)

\* An error of a lookup counts as no session: the gates fall through to
\* their next test, and a cookie that cannot be looked up is refused.
LookupFails(w) ==
    /\ req[w].pc \in {"ipLookup", "rawLookup", "cookieLookup"}
    /\ LET q == req[w]
           e == [q EXCEPT !.failed = @ \cup {IF q.pc = "cookieLookup"
                                             THEN "cookie" ELSE "address"}]
       IN  Become(w, CASE q.pc = "ipLookup"  -> AfterIPAuth(e)
                       [] q.pc = "rawLookup" -> RawAfterIPAuth(e)
                       [] OTHER              -> [e EXCEPT !.pc = "denied"])
    /\ UNCHANGED <<now, db, globalSettings, renewedAt>>

\* The error of a renewal is ignored: the request is served all the same.
RenewFails(w) ==
    /\ req[w].pc \in {"ipRenew", "cookieRenew"}
    /\ Become(w, [req[w] EXCEPT !.pc = "served"])
    /\ UNCHANGED <<now, db, globalSettings, renewedAt>>

\* The session API answers with an error, or ignores it, and is done.
ApiFails(w) ==
    /\ req[w].pc \in {"loginCreate", "extendAccess", "extendWrite", "revokeDelete"}
    /\ Finish(w)
    /\ UNCHANGED <<now, db, globalSettings, renewedAt>>

-----------------------------------------------------------------------------
(* Statements of the administrator's API and of registration. Which caller *)
(* may issue them is left open: any of them may run at any time. Group     *)
(* leaves out the group "admin", which is never deleted.                   *)

CreateUser(u) ==
    /\ users[u] = "new"
    /\ users' = [users EXCEPT ![u] = "live"]
    /\ UNCHANGED <<now, groups, member, sess, settings, globalSettings,
                   req, renewedAt>>

\* ON DELETE CASCADE takes the user's memberships and sessions along.
DeleteUser(u) ==
    /\ users[u] = "live"
    /\ users' = [users EXCEPT ![u] = "deleted"]
    /\ member' = {m \in member : m[1] # u}
    /\ DeleteSessions({t \in Token : sess[t].user = u})
    /\ UNCHANGED <<now, groups, settings, globalSettings, req, renewedAt>>

\* Fault: the id of a deleted group is issued again (no AUTOINCREMENT).
CreateGroup_Fault(g) ==
    /\ groups[g] # "live"
    /\ groups' = [groups EXCEPT ![g] = "live"]
    /\ UNCHANGED <<now, users, member, sess, settings, globalSettings,
                   req, renewedAt>>

CreateGroup(g) ==
    /\ groups[g] = "new"
    /\ groups' = [groups EXCEPT ![g] = "live"]
    /\ UNCHANGED <<now, users, member, sess, settings, globalSettings,
                   req, renewedAt>>

DeleteGroup(g) ==
    /\ groups[g] = "live"
    /\ groups' = [groups EXCEPT ![g] = "deleted"]
    /\ member' = {m \in member : m[2] # g}
    /\ UNCHANGED <<now, users, sess, settings, globalSettings, req, renewedAt>>

\* Both foreign keys of user_groups are checked.
AddUserToGroup(u, g) ==
    /\ users[u] = "live" /\ groups[g] = "live"
    /\ member' = member \cup {<<u, g>>}
    /\ UNCHANGED <<now, users, groups, sess, settings, globalSettings,
                   req, renewedAt>>

RemoveUserFromGroup(u, g) ==
    /\ member' = member \ {<<u, g>>}
    /\ UNCHANGED <<now, users, groups, sess, settings, globalSettings,
                   req, renewedAt>>

AdminDeleteSession(t) ==
    /\ DeleteSessions({t})
    /\ UNCHANGED <<now, users, groups, member, settings, globalSettings,
                   req, renewedAt>>

\* Fault: the submitted hours are stored as they are.
UpdateSettings_Fault(s) ==
    /\ settings' = s
    /\ UNCHANGED <<now, users, groups, member, sess, globalSettings,
                   req, renewedAt>>

UpdateSettings(s) ==
    /\ settings' = [s EXCEPT !.hours = IF @ = 0 THEN DefaultHours ELSE @]
    /\ UNCHANGED <<now, users, groups, member, sess, globalSettings,
                   req, renewedAt>>

\* The settings half of refreshCache, by the handler or by the ticker.
RefreshSettings ==
    /\ globalSettings' \in GetSettings
    /\ UNCHANGED <<now, db, req, renewedAt>>

\* DELETE ... WHERE expires_at < now, every five minutes.
CleanupExpiredSessions ==
    /\ DeleteSessions({t \in Token : sess[t].exp < now})
    /\ UNCHANGED <<now, users, groups, member, settings, globalSettings,
                   req, renewedAt>>

Tick ==
    /\ now < MaxTime
    /\ now' = now + 1
    /\ UNCHANGED <<db, globalSettings, req, renewedAt>>

-----------------------------------------------------------------------------
RequestStep ==
    \E w \in Worker :
        \/ \E a \in Addr, t \in Token \cup {None}, r \in Rules \cup {None} :
                HttpRequest(w, a, t, r)
        \/ IPLookup(w) \/ IPRenew(w) \/ CookieLookup(w) \/ CookieRenew(w)
        \/ \E a \in Addr, r \in Rules \cup {None} : RawRequest(w, a, r)
        \/ RawLookup(w) \/ RawSettings(w) \/ Respond(w)

SessionStep ==
    \/ \E w \in Worker :
        \/ \E u \in User, a \in Addr : Login(w, u, a)
        \/ LoginSettings(w) \/ LoginCreate(w)
        \/ \E t \in Token : ExtendBegin(w, t)
        \/ \E r \in Rules : ExtendAccess(w, r)
        \/ ExtendSettings(w) \/ ExtendWrite(w)
        \/ \E t, g \in Token : RevokeBegin(w, t, g)
        \/ DeleteSessionByID(w)
    \/ \E t \in Token : Logout(t)

FailStep == \E w \in Worker : LookupFails(w) \/ RenewFails(w) \/ ApiFails(w)

AdminStep ==
    \/ \E u \in User : CreateUser(u) \/ DeleteUser(u)
    \/ \E g \in Group : CreateGroup(g) \/ DeleteGroup(g)
    \/ \E u \in User, g \in Group : AddUserToGroup(u, g) \/ RemoveUserFromGroup(u, g)
    \/ \E t \in Token : AdminDeleteSession(t)
    \/ \E s \in SettingsInput : UpdateSettings(s)

\* History: what has held of a request at one instant since it arrived.
Watch == seen' = [w \in Worker |->
            IF req'[w].pc = "idle" THEN {} ELSE seen[w] \cup Facts(req[w])']

Next == /\ \/ RequestStep \/ SessionStep \/ AdminStep \/ FailStep
           \/ RefreshSettings \/ CleanupExpiredSessions \/ Tick
        /\ Watch

Spec == Init /\ [][Next]_vars

-----------------------------------------------------------------------------
(* Properties                                                              *)

\* The state has the types of its declarations.
TypeOK ==
    /\ now \in Nat
    /\ users \in [User -> Status]
    /\ groups \in [Group -> Status]
    /\ member \in SUBSET (User \X Group)
    /\ sess \in [Token -> Row]
    /\ settings \in Setting
    /\ globalSettings \in Setting
    /\ req \in [Worker -> Request]
    /\ seen \in [Worker -> SUBSET {"granted", "unfiltered", "noAddress", "noCookie"}]
    /\ renewedAt \in [User \X Addr -> Nat]

\* No session and no membership outlives its user, no membership its group,
\* whatever login, deletion and group change race: CreateSession may run
\* after DeleteUser removed the user Authenticate found.
NoOrphans ==
    /\ \A t \in Token : sess[t].st = "live" => users[sess[t].user] = "live"
    /\ \A m \in member : users[m[1]] = "live" /\ groups[m[2]] = "live"

\* A request that withAuthForKey or authorizeIP let through was allowed by
\* the rule, the sessions and the memberships of one single instant between
\* its arrival and its answer: one that arrives after a logout, an expiry, a
\* revocation or the loss of a group is never served on their strength. One
\* kind of rule is excepted: where no entry of allowed_groups is a number,
\* the lookup by address has no group filter and any session there will do.
GrantJustified ==
    \A w \in Worker : req[w].pc = "served" =>
        seen[w] \cap {"granted", "unfiltered"} # {}

\* A request is turned away only if the rule did not admit its address, its
\* cookie was refused at some instant and so were all sessions on its address:
\* no session of another user, without the group or gone, can shadow one that
\* would have been accepted throughout (ValidateSessionByIPInGroups). Only an
\* error of a lookup excuses its part. (Over HTTP, a route that is not in the
\* cache yet admits nobody.)
DenialJustified ==
    \A w \in Worker : req[w].pc = "denied" =>
        /\ ~Free(req[w])
        /\ "noAddress" \in seen[w] \/ "address" \in req[w].failed
        /\ "noCookie"  \in seen[w] \/ "cookie"  \in req[w].failed

\* Raw or cookie-less traffic keeps every session its user holds on that
\* address alive, not only the matched row: what ExtendUserSessionsByIP is
\* there for. No active row falls behind the last renewal.
KeepAlive ==
    \A t \in Token : Active(t) =>
        sess[t].exp >= renewedAt[<<sess[t].user, sess[t].ip>>] + MinHours

\* A row that has expired is revived only by a request that carries its
\* token and found it active before it expired; renewal by address never
\* revives one.
RenewalNeedsActive ==
    [][\A t \in Token :
          (sess[t].st = "live" /\ sess'[t].exp > sess[t].exp) =>
             \/ sess[t].exp > now
             \/ \E w \in Worker : /\ req[w].pc \in {"cookieRenew", "extendWrite"}
                                  /\ req[w].tok = t]_vars

\* What was revoked or deleted stays so: a renewal that was in flight when
\* the row was deleted does not bring it back, and no id is issued twice.
RevocationFinal ==
    [][/\ \A t \in Token : sess[t].st = "gone" => sess'[t].st = "gone"
       /\ \A u \in User  : users[u]  = "deleted" => users'[u]  = "deleted"
       /\ \A g \in Group : groups[g] = "deleted" => groups'[g] = "deleted"]_vars
=============================================================================

--------------------------- MODULE SessionsProofs ---------------------------
(***************************************************************************)
(* Proofs about Sessions, for any number of workers, users, groups, tokens *)
(* and addresses, any rules and any settings.                              *)
(*                                                                         *)
(* The induction rests on Stages: what a request carries at each pc. From  *)
(* it follow the types and, with the history of Watch, that a request is   *)
(* served only on an access it had at one instant, and denied only when    *)
(* both lookups refused it or failed. That a renewal is kept (KeepAlive) rests   *)
(* on the least duration any settings ever had.                            *)
(***************************************************************************)
EXTENDS Sessions, WellFoundedInduction, TLAPS

\* The pcs of a request at one of the two gates.
Gated == {"ipLookup", "ipRenew", "cookieLookup", "cookieRenew",
          "rawLookup", "rawSettings", "served", "denied"}

\* The pcs at which the settings have been read.
Equipped == {"ipLookup", "ipRenew", "cookieLookup", "cookieRenew",
             "loginCreate", "extendWrite"}

\* Settings whose duration is the least that anybody was ever given, or more.
Lasting == {s \in Setting : s.hours >= MinHours}

\* What a handler knows of its request when it stands at a pc.
Stage(q) ==
    /\ q.pc \in Gated => q.kind \in {"http", "raw"} /\ q.ip \in Addr
    /\ q.pc \in Gated \ {"served", "denied"} => q.rule \in Rules /\ q.rule # None
    /\ q.pc \in {"ipLookup", "cookieLookup", "cookieRenew"} => q.kind = "http"
    /\ q.pc \in {"rawLookup", "rawSettings"} => q.kind = "raw"
    /\ q.pc \in Equipped => q.gs \in Lasting
    /\ q.pc \in {"cookieLookup", "cookieRenew", "extendAccess", "extendSettings", "extendWrite"}
         => q.tok \in Token
    /\ q.pc \in {"loginSettings", "loginCreate"} => q.ip \in Addr /\ q.user \in User
    /\ q.pc = "ipLookup" => q.rule.ipAuth
    /\ q.pc = "rawLookup" => RawIPAuth(q.rule)
    /\ q.pc = "cookieLookup" => q.tok # None /\ CookieGate(q.rule)

Stages == \A w \in Worker : Stage(req[w])

\* A row that exists names a user and an address.
RowsFilled == \A t \in Token : sess[t].st = "live" => sess[t].user \in User /\ sess[t].ip \in Addr

\* UpdateSettings lets no shorter duration, and no zero, through.
SettingsLast == settings \in Lasting /\ globalSettings \in Lasting

TypeInv == TypeOK /\ Stages /\ RowsFilled /\ SettingsLast

-----------------------------------------------------------------------------
(* The operators that compute the next request.                            *)

\* So do the defaults.
LEMMA SettingsRead ==
    ASSUME SettingsLast, NEW s \in GetSettings
    PROVE  s \in Lasting
<1>1. DefaultSettings \in Setting /\ DefaultSettings.hours >= MinHours
  BY HoursAssumption DEF DefaultSettings, Setting
<1> QED BY <1>1 DEF SettingsLast, GetSettings, Lasting

\* A session is given at least MinHours.
LEMMA DurPos ==
    ASSUME NEW s \in Lasting
    PROVE  SessionDur(s) \in Nat \ {0} /\ SessionDur(s) >= MinHours
  BY HoursAssumption DEF Lasting, Setting, SessionDur

\* A worker without a request.
LEMMA IdleOK == Idle \in Request /\ Stage(Idle)
  BY DEF Idle, Request, Stage, PC, Gated, Equipped

\* An HTTP request that has passed, or skipped, IP session auth.
LEMMA AfterIPAuthOK ==
    ASSUME NEW q \in Request, q.kind = "http", q.ip \in Addr, q.rule \in Rules, q.rule # None,
           q.gs \in Lasting
    PROVE  AfterIPAuth(q) \in Request /\ Stage(AfterIPAuth(q))
  BY DEF AfterIPAuth, Request, Stage, PC, Gated, Equipped

\* A raw connection that has passed, or skipped, the lookup of its address.
LEMMA RawAfterIPAuthOK ==
    ASSUME NEW q \in Request, q.kind = "raw", q.ip \in Addr
    PROVE  RawAfterIPAuth(q) \in Request /\ Stage(RawAfterIPAuth(q))
  BY DEF RawAfterIPAuth, Request, Stage, PC, Gated, Equipped

\* A request that a lookup has let through carries what its renewal needs.
LEMMA GrantedOK ==
    ASSUME NEW q \in Request, q.kind \in {"http", "raw"}, q.ip \in Addr,
           q.rule \in Rules, q.rule # None, q.gs \in Lasting, NEW u \in User \cup {None},
           NEW p \in {"ipRenew", "cookieRenew"},
           p = "cookieRenew" => q.kind = "http" /\ q.tok \in Token
    PROVE  Granted(q, u, p) \in Request /\ Stage(Granted(q, u, p))
<1>1. PICK n : n = Granted(q, u, p)
  OBVIOUS
<1>2. /\ n \in Request /\ n.pc \in {p, "served"} /\ n.kind = q.kind /\ n.ip = q.ip
      /\ n.rule = q.rule /\ n.gs = q.gs /\ n.tok = q.tok
  BY <1>1 DEF Granted, Request, PC
<1>3. Stage(n)
  BY <1>2 DEF Stage, Gated, Equipped
<1> QED BY <1>1, <1>2, <1>3

-----------------------------------------------------------------------------
(* The statements on the sessions table.                                   *)

\* No row changes hands, none comes to life, and none comes back.
RowsKept ==
    \A t \in Token :
        /\ sess'[t].st = "live" => /\ sess[t].st = "live"
                                   /\ sess'[t].user = sess[t].user
                                   /\ sess'[t].ip = sess[t].ip
        /\ sess[t].st = "gone" => sess'[t].st = "gone"

\* A DELETE leaves well-formed rows.
LEMMA DeleteSessionsOK ==
    ASSUME NEW S, TypeOK, DeleteSessions(S)
    PROVE  sess' \in [Token -> Row] /\ RowsKept
  BY DEF TypeOK, DeleteSessions, RowsKept, Row, Gone

\* So does the renewal of one token,
LEMMA ExtendSessionOK ==
    ASSUME NEW t \in Token, NEW d \in Nat, TypeOK, ExtendSession(t, d)
    PROVE  sess' \in [Token -> Row] /\ RowsKept
<1>1. now + d \in Nat
  BY DEF TypeOK
<1>2. sess' = [x \in Token |-> IF x = t /\ sess[x].st = "live"
                               THEN [sess[x] EXCEPT !.exp = now + d] ELSE sess[x]]
  BY DEF TypeOK, ExtendSession
<1>3. ASSUME NEW x \in Token
      PROVE  /\ sess'[x] \in Row /\ sess'[x].st = sess[x].st
             /\ sess'[x].user = sess[x].user /\ sess'[x].ip = sess[x].ip
  BY <1>1, <1>2 DEF TypeOK, Row
<1> QED BY <1>2, <1>3 DEF RowsKept

\* that of all sessions of a user at an address,
LEMMA ExtendByIPOK ==
    ASSUME NEW u, NEW a, NEW d \in Nat, TypeOK, ExtendUserSessionsByIP(u, a, d)
    PROVE  sess' \in [Token -> Row] /\ RowsKept
  BY DEF TypeOK, ExtendUserSessionsByIP, RowsKept, Row

\* and the INSERT of a login.
LEMMA CreateSessionOK ==
    ASSUME NEW t \in Token, NEW u \in User, NEW d \in Nat, NEW a \in Addr,
           TypeOK, RowsFilled, CreateSession(t, u, d, a)
    PROVE  sess' \in [Token -> Row] /\ RowsFilled'
  BY NormalizeAssumption DEF TypeOK, CreateSession, RowsFilled, Row

\* Rows that keep their columns stay filled.
LEMMA RowsKeptFilled == ASSUME RowsFilled, RowsKept PROVE RowsFilled'
  BY DEF RowsFilled, RowsKept

\* A step that leaves the table alone.
LEMMA SameRows == ASSUME sess' = sess PROVE RowsKept
  BY DEF RowsKept

-----------------------------------------------------------------------------
(* One step: what it does to the requests, and to everything else.         *)

\* The requests stay well formed when one of them moves on.
LEMMA BecomeOK ==
    ASSUME TypeOK, Stages, NEW w \in Worker, NEW q \in Request, Stage(q), Become(w, q)
    PROVE  req' \in [Worker -> Request] /\ Stages'
  BY DEF TypeOK, Stages, Become

\* The history keeps its type.
LEMMA WatchOK ==
    ASSUME TypeOK, Watch
    PROVE  seen' \in [Worker -> SUBSET {"granted", "unfiltered", "noAddress", "noCookie"}]
  BY DEF TypeOK, Watch, Facts

\* The steps of requests at the gates.
LEMMA RequestReq ==
    ASSUME TypeInv, RequestStep
    PROVE  req' \in [Worker -> Request] /\ Stages'
<1> USE DEF TypeInv
<1>1. PICK w \in Worker :
        \/ \E a \in Addr, t \in Token \cup {None}, r \in Rules \cup {None} : HttpRequest(w, a, t, r)
        \/ IPLookup(w) \/ IPRenew(w) \/ CookieLookup(w) \/ CookieRenew(w)
        \/ \E a \in Addr, r \in Rules \cup {None} : RawRequest(w, a, r)
        \/ RawLookup(w) \/ RawSettings(w) \/ Respond(w)
  BY DEF RequestStep
<1>q. req[w] \in Request /\ Stage(req[w])
  BY DEF TypeOK, Stages
<1>2. ASSUME NEW a \in Addr, NEW t \in Token \cup {None}, NEW r \in Rules \cup {None},
             HttpRequest(w, a, t, r)
      PROVE  req' \in [Worker -> Request] /\ Stages'
  <2> DEFINE q == [Idle EXCEPT !.kind = "http", !.ip = a, !.tok = t, !.rule = r,
                               !.gs = globalSettings]
  <2>1. q \in Request /\ q.kind = "http" /\ q.ip = a /\ q.rule = r /\ q.gs \in Lasting
    BY DEF TypeOK, SettingsLast, Lasting, Idle, Request, PC
  <2>2. \E n \in Request : Stage(n) /\ Become(w, n)
    <3>0. CASE r = None
      <4> HIDE DEF q
      <4>1. PICK n : n = [q EXCEPT !.pc = "denied"]
        OBVIOUS
      <4>2. n \in Request /\ n.pc = "denied" /\ n.kind = "http" /\ n.ip = a
        BY <2>1, <4>1 DEF Request, PC
      <4>3. Stage(n)
        BY <4>2 DEF Stage, Gated, Equipped
      <4> QED BY <1>2, <3>0, <4>1, <4>2, <4>3 DEF HttpRequest, q
    <3>1. CASE r # None /\ Public(r)
      <4> HIDE DEF q
      <4>1. PICK n : n = [q EXCEPT !.pc = "served"]
        OBVIOUS
      <4>2. /\ n \in Request /\ n.pc = "served" /\ n.kind = "http" /\ n.ip = a
            /\ n.rule = r /\ n.gs \in Lasting
        BY <2>1, <4>1 DEF Request, PC
      <4>3. Stage(n)
        BY <4>2 DEF Stage, Gated, Equipped
      <4> QED BY <1>2, <3>1, <4>1, <4>2, <4>3 DEF HttpRequest, q
    <3>2. CASE r # None /\ ~Public(r) /\ r.ipAuth
      <4> HIDE DEF q
      <4>1. PICK n : n = [q EXCEPT !.pc = "ipLookup"]
        OBVIOUS
      <4>2. /\ n \in Request /\ n.pc = "ipLookup" /\ n.kind = "http" /\ n.ip = a
            /\ n.rule = r /\ n.gs \in Lasting
        BY <2>1, <4>1 DEF Request, PC
      <4>3. Stage(n)
        BY <4>2, <3>2 DEF Stage, Gated, Equipped
      <4> QED BY <1>2, <3>2, <4>1, <4>2, <4>3 DEF HttpRequest, q
    <3>3. CASE r # None /\ ~Public(r) /\ ~r.ipAuth
      BY <1>2, <2>1, <3>3, AfterIPAuthOK DEF HttpRequest
    <3> QED BY <3>0, <3>1, <3>2, <3>3
  <2> QED BY <2>2, BecomeOK
<1>3. CASE IPLookup(w)
  <2>1. req[w].pc = "ipLookup"
    BY <1>3 DEF IPLookup
  <2>2. /\ req[w].kind = "http" /\ req[w].ip \in Addr /\ req[w].rule \in Rules
        /\ req[w].rule # None /\ req[w].gs \in Lasting
    BY <1>q, <2>1 DEF Stage, Gated, Equipped
  <2>3. CASE Become(w, AfterIPAuth(req[w]))
    BY <1>q, <2>2, <2>3, AfterIPAuthOK, BecomeOK
  <2>4. ASSUME NEW t \in Token, Become(w, Granted(req[w], sess[t].user, "ipRenew"))
        PROVE  req' \in [Worker -> Request] /\ Stages'
    <3>1. sess[t].user \in User \cup {None}
      BY DEF TypeOK, Row
    <3> QED BY <1>q, <2>2, <2>4, <3>1, GrantedOK, BecomeOK
  <2> QED BY <1>3, <2>3, <2>4 DEF IPLookup, ValidateSessionByIPInGroups, IPCandidates
<1>4. CASE IPRenew(w)
  <2> DEFINE n == [req[w] EXCEPT !.pc = "served"]
  <2>1. n \in Request /\ Stage(n)
    BY <1>q, <1>4 DEF IPRenew, Request, Stage, PC, Gated, Equipped
  <2> QED BY <1>4, <2>1, BecomeOK DEF IPRenew
<1>5. CASE CookieLookup(w)
  <2>1. req[w].pc = "cookieLookup"
    BY <1>5 DEF CookieLookup
  <2>2. /\ req[w].kind = "http" /\ req[w].ip \in Addr /\ req[w].rule \in Rules
        /\ req[w].rule # None /\ req[w].gs \in Lasting /\ req[w].tok \in Token
    BY <1>q, <2>1 DEF Stage, Gated, Equipped
  <2>3. sess[req[w].tok].user \in User \cup {None}
    BY <2>2 DEF TypeOK, Row
  <2>4. CASE Become(w, Granted(req[w], sess[req[w].tok].user, "cookieRenew"))
    BY <1>q, <2>2, <2>3, <2>4, GrantedOK, BecomeOK
  <2>5. CASE Become(w, [req[w] EXCEPT !.pc = "denied"])
    <3>1. [req[w] EXCEPT !.pc = "denied"] \in Request /\ Stage([req[w] EXCEPT !.pc = "denied"])
      BY <1>q, <2>2 DEF Request, Stage, PC, Gated, Equipped
    <3> QED BY <2>5, <3>1, BecomeOK
  <2> QED BY <1>5, <2>4, <2>5 DEF CookieLookup
<1>6. CASE CookieRenew(w)
  <2> DEFINE n == [req[w] EXCEPT !.pc = "served"]
  <2>1. n \in Request /\ Stage(n)
    BY <1>q, <1>6 DEF CookieRenew, Request, Stage, PC, Gated, Equipped
  <2> QED BY <1>6, <2>1, BecomeOK DEF CookieRenew
<1>7. ASSUME NEW a \in Addr, NEW r \in Rules \cup {None}, RawRequest(w, a, r)
      PROVE  req' \in [Worker -> Request] /\ Stages'
  <2> DEFINE q == [Idle EXCEPT !.kind = "raw", !.ip = a, !.rule = r]
  <2>1. q \in Request /\ q.kind = "raw" /\ q.ip = a /\ q.rule = r
    BY DEF TypeOK, Idle, Request, PC
  <2>2. \E n \in Request : Stage(n) /\ Become(w, n)
    <3>1. CASE r = None \/ RawPublic(r)
      <4> DEFINE n == [q EXCEPT !.pc = "served"]
      <4>1. n \in Request /\ n.pc = "served" /\ n.kind = "raw" /\ n.ip = a
        BY <2>1 DEF Request, PC
      <4>2. Become(w, n)
        BY <1>7, <3>1 DEF RawRequest
      <4> HIDE DEF n
      <4>3. Stage(n)
        BY <4>1 DEF Stage, Gated, Equipped
      <4> QED BY <4>1, <4>2, <4>3
    <3>2. CASE r # None /\ ~RawPublic(r) /\ RawIPAuth(r)
      <4> DEFINE n == [q EXCEPT !.pc = "rawLookup"]
      <4>1. /\ n \in Request /\ n.pc = "rawLookup" /\ n.kind = "raw"
            /\ n.ip = a /\ n.rule = r
        BY <2>1 DEF Request, PC
      <4>2. Become(w, n)
        BY <1>7, <3>2 DEF RawRequest
      <4> HIDE DEF n
      <4>3. Stage(n)
        BY <3>2, <4>1 DEF Stage, Gated, Equipped
      <4> QED BY <4>1, <4>2, <4>3
    <3>3. CASE r # None /\ ~RawPublic(r) /\ ~RawIPAuth(r)
      BY <1>7, <2>1, <3>3, RawAfterIPAuthOK DEF RawRequest
    <3> QED BY <3>1, <3>2, <3>3
  <2> QED BY <2>2, BecomeOK
<1>8. CASE RawLookup(w)
  <2>1. req[w].pc = "rawLookup"
    BY <1>8 DEF RawLookup
  <2>2. /\ req[w].kind = "raw" /\ req[w].ip \in Addr
        /\ req[w].rule \in Rules /\ req[w].rule # None
    BY <1>q, <2>1 DEF Stage, Gated
  <2>3. CASE Become(w, RawAfterIPAuth(req[w]))
    BY <1>q, <2>2, <2>3, RawAfterIPAuthOK, BecomeOK
  <2>4. ASSUME NEW t \in Token,
               Become(w, [req[w] EXCEPT !.user = sess[t].user, !.pc = "rawSettings"])
        PROVE  req' \in [Worker -> Request] /\ Stages'
    <3> DEFINE n == [req[w] EXCEPT !.user = sess[t].user, !.pc = "rawSettings"]
    <3>1. sess[t].user \in User \cup {None}
      BY DEF TypeOK, Row
    <3>2. /\ n \in Request /\ n.pc = "rawSettings" /\ n.kind = "raw"
          /\ n.ip \in Addr /\ n.rule \in Rules /\ n.rule # None
      BY <1>q, <2>2, <3>1 DEF Request, PC
    <3> HIDE DEF n
    <3>3. Stage(n)
      BY <3>2 DEF Stage, Gated, Equipped
    <3> QED BY <2>4, <3>2, <3>3, BecomeOK DEF n
  <2> QED BY <1>8, <2>3, <2>4 DEF RawLookup, ValidateSessionByIPInGroups, IPCandidates
<1>9. CASE RawSettings(w)
  <2>1. req[w].pc = "rawSettings"
    BY <1>9 DEF RawSettings
  <2> DEFINE n == [req[w] EXCEPT !.gs = globalSettings]
  <2>2. /\ n \in Request /\ n.kind = "raw" /\ n.ip \in Addr /\ n.rule \in Rules
        /\ n.rule # None /\ n.gs \in Lasting
    BY <1>q, <2>1 DEF Stage, Gated, TypeOK, Request, SettingsLast, Lasting
  <2>3. req[w].user \in User \cup {None}
    BY <1>q DEF Request
  <2>4. Become(w, Granted(n, req[w].user, "ipRenew"))
    BY <1>9 DEF RawSettings
  <2> HIDE DEF n
  <2>5. Granted(n, req[w].user, "ipRenew") \in Request /\ Stage(Granted(n, req[w].user, "ipRenew"))
    BY <2>2, <2>3, GrantedOK
  <2> QED BY <2>4, <2>5, BecomeOK
<1>10. CASE Respond(w)
  BY <1>10, IdleOK, BecomeOK DEF Respond, Finish
<1> QED BY <1>1, <1>2, <1>3, <1>4, <1>5, <1>6, <1>7, <1>8, <1>9, <1>10

\* The steps of the session API.
LEMMA SessionReq ==
    ASSUME TypeInv, SessionStep
    PROVE  req' \in [Worker -> Request] /\ Stages'
<1> USE DEF TypeInv
<1>1. ASSUME NEW w \in Worker, NEW u \in User, NEW a \in Addr, Login(w, u, a)
      PROVE  req' \in [Worker -> Request] /\ Stages'
  <2> DEFINE n == [Idle EXCEPT !.kind = "login", !.pc = "loginSettings", !.user = u, !.ip = a]
  <2>1. n \in Request /\ Stage(n)
    BY DEF Idle, Request, Stage, PC, Gated, Equipped
  <2> QED BY <1>1, <2>1, BecomeOK DEF Login
<1>2. ASSUME NEW w \in Worker, LoginSettings(w)
      PROVE  req' \in [Worker -> Request] /\ Stages'
  <2>0. PICK s \in GetSettings : Become(w, [req[w] EXCEPT !.pc = "loginCreate", !.gs = s])
    BY <1>2 DEF LoginSettings
  <2> DEFINE n == [req[w] EXCEPT !.pc = "loginCreate", !.gs = s]
  <2>1. s \in Lasting
    BY SettingsRead
  <2>2. req[w] \in Request /\ req[w].ip \in Addr /\ req[w].user \in User
    BY <1>2 DEF LoginSettings, TypeOK, Stages, Stage
  <2>3. /\ n \in Request /\ n.pc = "loginCreate" /\ n.gs \in Lasting
        /\ n.ip \in Addr /\ n.user \in User
    BY <2>1, <2>2 DEF Lasting, Request, PC
  <2> HIDE DEF n
  <2>4. Stage(n)
    BY <2>3 DEF Stage, Gated, Equipped
  <2> QED BY <2>0, <2>3, <2>4, BecomeOK DEF n
<1>3. ASSUME NEW w \in Worker, NEW t \in Token, ExtendBegin(w, t)
      PROVE  req' \in [Worker -> Request] /\ Stages'
  <2> DEFINE n == [Idle EXCEPT !.kind = "extend", !.pc = "extendAccess", !.tok = t,
                               !.user = sess[t].user, !.target = None]
  <2>1. n \in Request /\ Stage(n)
    BY DEF TypeOK, Row, Idle, Request, Stage, PC, Gated, Equipped
  <2> QED BY <1>3, <2>1, BecomeOK DEF ExtendBegin, SessionFromRequest
<1>4. ASSUME NEW w \in Worker, NEW r \in Rules, ExtendAccess(w, r)
      PROVE  req' \in [Worker -> Request] /\ Stages'
  <2> DEFINE n == [req[w] EXCEPT !.pc = "extendSettings"]
  <2>1. req[w] \in Request /\ req[w].tok \in Token
    BY <1>4 DEF ExtendAccess, TypeOK, Stages, Stage
  <2>2. n \in Request /\ n.pc = "extendSettings" /\ n.tok \in Token
    BY <2>1 DEF Request, PC
  <2>3. Become(w, n) \/ Become(w, Idle)
    BY <1>4 DEF ExtendAccess, Finish
  <2> HIDE DEF n
  <2>4. Stage(n)
    BY <2>2 DEF Stage, Gated, Equipped
  <2> QED BY <2>2, <2>3, <2>4, IdleOK, BecomeOK
<1>5. ASSUME NEW w \in Worker, ExtendSettings(w)
      PROVE  req' \in [Worker -> Request] /\ Stages'
  <2>0. PICK s \in GetSettings : Become(w, [req[w] EXCEPT !.pc = "extendWrite", !.gs = s])
    BY <1>5 DEF ExtendSettings
  <2> DEFINE n == [req[w] EXCEPT !.pc = "extendWrite", !.gs = s]
  <2>1. s \in Lasting
    BY SettingsRead
  <2>2. req[w] \in Request /\ req[w].tok \in Token
    BY <1>5 DEF ExtendSettings, TypeOK, Stages, Stage
  <2>3. n \in Request /\ n.pc = "extendWrite" /\ n.gs \in Lasting /\ n.tok \in Token
    BY <2>1, <2>2 DEF Lasting, Request, PC
  <2> HIDE DEF n
  <2>4. Stage(n)
    BY <2>3 DEF Stage, Gated, Equipped
  <2> QED BY <2>0, <2>3, <2>4, BecomeOK DEF n
<1>6. ASSUME NEW w \in Worker, NEW t \in Token, NEW g \in Token, RevokeBegin(w, t, g)
      PROVE  req' \in [Worker -> Request] /\ Stages'
  <2> DEFINE n == [Idle EXCEPT !.kind = "revoke", !.pc = "revokeDelete", !.tok = t,
                               !.user = sess[t].user, !.target = g]
  <2>1. n \in Request /\ Stage(n)
    BY DEF TypeOK, Row, Idle, Request, Stage, PC, Gated, Equipped
  <2> QED BY <1>6, <2>1, BecomeOK DEF RevokeBegin, SessionFromRequest
<1>7. ASSUME NEW w \in Worker, LoginCreate(w) \/ ExtendWrite(w) \/ DeleteSessionByID(w)
      PROVE  req' \in [Worker -> Request] /\ Stages'
  BY <1>7, IdleOK, BecomeOK DEF LoginCreate, ExtendWrite, DeleteSessionByID, Finish
<1>8. ASSUME NEW t \in Token, Logout(t)
      PROVE  req' \in [Worker -> Request] /\ Stages'
  BY <1>8 DEF Logout, TypeOK, Stages
<1> QED BY <1>1, <1>2, <1>3, <1>4, <1>5, <1>6, <1>7, <1>8 DEF SessionStep

\* The steps of statements that fail.
LEMMA FailReq ==
    ASSUME TypeInv, FailStep
    PROVE  /\ req' \in [Worker -> Request] /\ Stages'
           /\ UNCHANGED <<now, db, globalSettings, renewedAt>>
<1> USE DEF TypeInv
<1>1. PICK w \in Worker : LookupFails(w) \/ RenewFails(w) \/ ApiFails(w)
  BY DEF FailStep
<1>q. req[w] \in Request /\ Stage(req[w])
  BY DEF TypeOK, Stages
<1>2. CASE LookupFails(w)
  <2>1. /\ req[w].pc \in {"ipLookup", "rawLookup", "cookieLookup"}
        /\ UNCHANGED <<now, db, globalSettings, renewedAt>>
    BY <1>2 DEF LookupFails
  <2>2. PICK f \in {"address", "cookie"} :
          f = IF req[w].pc = "cookieLookup" THEN "cookie" ELSE "address"
    OBVIOUS
  <2>3. PICK e : e = [req[w] EXCEPT !.failed = @ \cup {f}]
    OBVIOUS
  <2>4. /\ e \in Request /\ e.pc = req[w].pc /\ e.kind = req[w].kind /\ e.ip = req[w].ip
        /\ e.rule = req[w].rule /\ e.gs = req[w].gs /\ e.tok = req[w].tok
    BY <1>q, <2>3 DEF Request
  <2>5. /\ e.kind \in {"http", "raw"} /\ e.ip \in Addr /\ e.rule \in Rules /\ e.rule # None
    BY <1>q, <2>1, <2>4 DEF Stage, Gated
  <2>6. CASE req[w].pc = "ipLookup"
    <3>1. e.kind = "http" /\ e.gs \in Lasting
      BY <1>q, <2>4, <2>6 DEF Stage, Equipped
    <3>2. Become(w, AfterIPAuth(e))
      BY <1>2, <2>2, <2>3, <2>6 DEF LookupFails
    <3> QED BY <2>1, <2>4, <2>5, <3>1, <3>2, AfterIPAuthOK, BecomeOK
  <2>7. CASE req[w].pc = "rawLookup"
    <3>1. e.kind = "raw"
      BY <1>q, <2>4, <2>7 DEF Stage
    <3>2. Become(w, RawAfterIPAuth(e))
      BY <1>2, <2>2, <2>3, <2>7 DEF LookupFails
    <3> QED BY <2>1, <2>4, <2>5, <3>1, <3>2, RawAfterIPAuthOK, BecomeOK
  <2>8. CASE req[w].pc = "cookieLookup"
    <3> DEFINE n == [e EXCEPT !.pc = "denied"]
    <3>1. Become(w, n)
      BY <1>2, <2>2, <2>3, <2>8 DEF LookupFails
    <3>2. /\ n \in Request /\ n.pc = "denied" /\ n.kind \in {"http", "raw"} /\ n.ip \in Addr
      BY <2>4, <2>5 DEF Request, PC
    <3> HIDE DEF n
    <3>3. Stage(n)
      BY <3>2 DEF Stage, Gated, Equipped
    <3> QED BY <2>1, <3>1, <3>2, <3>3, BecomeOK
  <2> QED BY <2>1, <2>6, <2>7, <2>8
<1>3. CASE RenewFails(w)
  <2> DEFINE n == [req[w] EXCEPT !.pc = "served"]
  <2>1. n \in Request /\ Stage(n)
    BY <1>q, <1>3 DEF RenewFails, Request, Stage, PC, Gated, Equipped
  <2> QED BY <1>3, <2>1, BecomeOK DEF RenewFails
<1>4. CASE ApiFails(w)
  BY <1>4, IdleOK, BecomeOK DEF ApiFails, Finish
<1> QED BY <1>1, <1>2, <1>3, <1>4

-----------------------------------------------------------------------------
(* The same steps on the tables.                                           *)

\* The part of TypeInv that is not about requests and their history.
Tables ==
    /\ now \in Nat
    /\ users \in [User -> Status] /\ groups \in [Group -> Status]
    /\ member \in SUBSET (User \X Group)
    /\ sess \in [Token -> Row] /\ RowsFilled
    /\ settings \in Lasting /\ globalSettings \in Lasting
    /\ renewedAt \in [User \X Addr -> Nat]

\* The invariant is that of the tables, of the requests and of the history.
LEMMA TablesSplit ==
    /\ TypeInv => Tables
    /\ (/\ Tables' /\ req' \in [Worker -> Request] /\ Stages'
        /\ seen' \in [Worker -> SUBSET {"granted", "unfiltered", "noAddress", "noCookie"}]) => TypeInv'
  BY DEF TypeInv, TypeOK, Tables, SettingsLast, Lasting

\* A step that touches no table.
LEMMA QuietTables ==
    ASSUME Tables, UNCHANGED <<now, db, globalSettings, renewedAt>>
    PROVE  Tables'
  BY DEF Tables, db, RowsFilled

\* A statement that only changes the sessions table.
LEMMA SessTables ==
    ASSUME Tables, sess' \in [Token -> Row], RowsFilled',
           UNCHANGED <<now, users, groups, member, settings, globalSettings, renewedAt>>
    PROVE  Tables'
  BY DEF Tables

\* The tables under the steps of requests at the gates,
LEMMA RequestTables == ASSUME TypeInv, RequestStep PROVE Tables'
<1> USE DEF TypeInv
<1>0. Tables
  BY TablesSplit
<1>1. ASSUME NEW w \in Worker, IPRenew(w) PROVE Tables'
  <2>1. SessionDur(req[w].gs) \in Nat
    BY <1>1, DurPos DEF IPRenew, Stages, Stage, Equipped
  <2>2. sess' \in [Token -> Row] /\ RowsFilled'
    BY <1>1, <2>1, ExtendByIPOK, RowsKeptFilled DEF IPRenew
  <2>3. renewedAt' \in [User \X Addr -> Nat]
    BY <1>1 DEF IPRenew, TypeOK
  <2> QED BY <1>0, <1>1, <2>2, <2>3 DEF IPRenew, Tables
<1>2. ASSUME NEW w \in Worker, CookieRenew(w) PROVE Tables'
  <2>1. SessionDur(req[w].gs) \in Nat /\ req[w].tok \in Token
    BY <1>2, DurPos DEF CookieRenew, Stages, Stage, Equipped
  <2>2. sess' \in [Token -> Row] /\ RowsFilled'
    BY <1>2, <2>1, ExtendSessionOK, RowsKeptFilled DEF CookieRenew
  <2> QED BY <1>0, <1>2, <2>2, SessTables DEF CookieRenew
<1>3. ASSUME NEW w \in Worker, ~IPRenew(w), ~CookieRenew(w),
             \/ \E a \in Addr, t \in Token \cup {None}, r \in Rules \cup {None} : HttpRequest(w, a, t, r)
             \/ IPLookup(w) \/ CookieLookup(w)
             \/ \E a \in Addr, r \in Rules \cup {None} : RawRequest(w, a, r)
             \/ RawLookup(w) \/ RawSettings(w) \/ Respond(w)
      PROVE  Tables'
  <2>1. UNCHANGED <<now, db, globalSettings, renewedAt>>
    BY <1>3 DEF HttpRequest, IPLookup, CookieLookup, RawRequest, RawLookup, RawSettings, Respond
  <2> QED BY <1>0, <2>1, QuietTables
<1> QED BY <1>1, <1>2, <1>3 DEF RequestStep

\* under those of logins, extensions and revocations,
LEMMA SessionTables == ASSUME TypeInv, SessionStep PROVE Tables'
<1> USE DEF TypeInv
<1>0. Tables
  BY TablesSplit
<1>1. ASSUME NEW w \in Worker,
             \/ \E u \in User, a \in Addr : Login(w, u, a)
             \/ LoginSettings(w)
             \/ \E t \in Token : ExtendBegin(w, t)
             \/ \E r \in Rules : ExtendAccess(w, r)
             \/ ExtendSettings(w)
             \/ \E t, g \in Token : RevokeBegin(w, t, g)
      PROVE  Tables'
  <2>1. UNCHANGED <<now, db, globalSettings, renewedAt>>
    BY <1>1 DEF Login, LoginSettings, ExtendBegin, ExtendAccess, ExtendSettings, RevokeBegin,
                SessionFromRequest
  <2> QED BY <1>0, <2>1, QuietTables
<1>2. ASSUME NEW w \in Worker, LoginCreate(w) PROVE Tables'
  <2>1. SessionDur(req[w].gs) \in Nat /\ req[w].user \in User /\ req[w].ip \in Addr
    BY <1>2, DurPos DEF LoginCreate, Stages, Stage, Equipped
  <2>2. sess' \in [Token -> Row] /\ RowsFilled'
    <3>1. CASE UNCHANGED sess
      BY <3>1, SameRows, RowsKeptFilled DEF TypeOK
    <3>2. CASE \E t \in Token : CreateSession(t, req[w].user, SessionDur(req[w].gs), req[w].ip)
      BY <2>1, <3>2, CreateSessionOK
    <3> QED BY <1>2, <3>1, <3>2 DEF LoginCreate
  <2> QED BY <1>0, <1>2, <2>2, SessTables DEF LoginCreate
<1>3. ASSUME NEW w \in Worker, ExtendWrite(w) PROVE Tables'
  <2>1. SessionDur(req[w].gs) \in Nat /\ req[w].tok \in Token
    BY <1>3, DurPos DEF ExtendWrite, Stages, Stage, Equipped
  <2>2. sess' \in [Token -> Row] /\ RowsFilled'
    BY <1>3, <2>1, ExtendSessionOK, RowsKeptFilled DEF ExtendWrite
  <2> QED BY <1>0, <1>3, <2>2, SessTables DEF ExtendWrite
<1>4. ASSUME NEW w \in Worker, DeleteSessionByID(w) PROVE Tables'
  <2>1. sess' \in [Token -> Row] /\ RowsFilled'
    BY <1>4, DeleteSessionsOK, RowsKeptFilled DEF DeleteSessionByID
  <2> QED BY <1>0, <1>4, <2>1, SessTables DEF DeleteSessionByID
<1>5. ASSUME NEW t \in Token, Logout(t) PROVE Tables'
  <2>1. sess' \in [Token -> Row] /\ RowsFilled'
    BY <1>5, DeleteSessionsOK, RowsKeptFilled DEF Logout
  <2> QED BY <1>0, <1>5, <2>1, SessTables DEF Logout
<1> QED BY <1>1, <1>2, <1>3, <1>4, <1>5 DEF SessionStep

\* and under those of administrators.
LEMMA AdminTables == ASSUME TypeInv, AdminStep PROVE Tables' /\ req' = req
<1> USE DEF TypeInv
<1>0. Tables
  BY TablesSplit
<1>1. ASSUME NEW u \in User, CreateUser(u) PROVE Tables' /\ req' = req
  BY <1>0, <1>1 DEF CreateUser, Tables, Status, RowsFilled
<1>2. ASSUME NEW u \in User, DeleteUser(u) PROVE Tables' /\ req' = req
  <2>1. sess' \in [Token -> Row] /\ RowsFilled'
    BY <1>2, DeleteSessionsOK, RowsKeptFilled DEF DeleteUser
  <2> QED BY <1>0, <1>2, <2>1 DEF DeleteUser, Tables, Status
<1>3. ASSUME NEW g \in Group, CreateGroup(g) PROVE Tables' /\ req' = req
  BY <1>0, <1>3 DEF CreateGroup, Tables, Status, RowsFilled
<1>4. ASSUME NEW g \in Group, DeleteGroup(g) PROVE Tables' /\ req' = req
  BY <1>0, <1>4 DEF DeleteGroup, Tables, Status, RowsFilled
<1>5. ASSUME NEW u \in User, NEW g \in Group, AddUserToGroup(u, g) PROVE Tables' /\ req' = req
  BY <1>0, <1>5 DEF AddUserToGroup, Tables, RowsFilled
<1>6. ASSUME NEW u \in User, NEW g \in Group, RemoveUserFromGroup(u, g)
      PROVE Tables' /\ req' = req
  BY <1>0, <1>6 DEF RemoveUserFromGroup, Tables, RowsFilled
<1>7. ASSUME NEW t \in Token, AdminDeleteSession(t) PROVE Tables' /\ req' = req
  <2>1. sess' \in [Token -> Row] /\ RowsFilled'
    BY <1>7, DeleteSessionsOK, RowsKeptFilled DEF AdminDeleteSession
  <2> QED BY <1>0, <1>7, <2>1, SessTables DEF AdminDeleteSession
<1>8. ASSUME NEW s \in SettingsInput, UpdateSettings(s) PROVE Tables' /\ req' = req
  <2>1. settings' \in Lasting
    BY <1>8, HoursAssumption DEF UpdateSettings, Setting, Lasting
  <2> QED BY <1>0, <1>8, <2>1 DEF UpdateSettings, Tables, RowsFilled
<1> QED BY <1>1, <1>2, <1>3, <1>4, <1>5, <1>6, <1>7, <1>8 DEF AdminStep

\* The ticker's steps, a reload of the settings and the clock.
LEMMA BackgroundTables ==
    ASSUME TypeInv, RefreshSettings \/ CleanupExpiredSessions \/ Tick
    PROVE  Tables' /\ req' = req
<1> USE DEF TypeInv
<1>0. Tables
  BY TablesSplit
<1>1. CASE RefreshSettings
  BY <1>0, <1>1, SettingsRead DEF RefreshSettings, Tables, db, RowsFilled
<1>2. CASE CleanupExpiredSessions
  <2>1. sess' \in [Token -> Row] /\ RowsFilled'
    BY <1>2, DeleteSessionsOK, RowsKeptFilled DEF CleanupExpiredSessions
  <2> QED BY <1>0, <1>2, <2>1, SessTables DEF CleanupExpiredSessions
<1>3. CASE Tick
  BY <1>0, <1>3 DEF Tick, Tables, db, RowsFilled
<1> QED BY <1>1, <1>2, <1>3

\* No step breaks the invariant.
LEMMA TypeInvStep == TypeInv /\ [Next]_vars => TypeInv'
<1> SUFFICES ASSUME TypeInv, [Next]_vars PROVE TypeInv'
  OBVIOUS
<1>1. CASE UNCHANGED vars
  BY <1>1 DEF vars, TypeInv, TypeOK, Stages, RowsFilled, SettingsLast
<1>2. CASE Next
  <2>1. seen' \in [Worker -> SUBSET {"granted", "unfiltered", "noAddress", "noCookie"}]
    BY <1>2, WatchOK DEF Next, TypeInv
  <2>2. Tables' /\ req' \in [Worker -> Request] /\ Stages'
    <3>1. CASE RequestStep
      BY <3>1, RequestReq, RequestTables
    <3>2. CASE SessionStep
      BY <3>2, SessionReq, SessionTables
    <3>3. CASE AdminStep
      BY <3>3, AdminTables DEF TypeInv, TypeOK, Stages
    <3>4. CASE RefreshSettings \/ CleanupExpiredSessions \/ Tick
      BY <3>4, BackgroundTables DEF TypeInv, TypeOK, Stages
    <3>5. CASE FailStep
      BY <3>5, FailReq, TablesSplit, QuietTables
    <3> QED BY <1>2, <3>1, <3>2, <3>3, <3>4, <3>5 DEF Next
  <2> QED BY <2>1, <2>2, TablesSplit
<1> QED BY <1>1, <1>2

\* Types, stages and filled rows hold throughout.
LEMMA TypeInvInvariant == Spec => []TypeInv
<1>1. Init => TypeInv
  BY IdleOK, HoursAssumption
  DEF Init, TypeInv, TypeOK, Stages, RowsFilled, SettingsLast, Lasting, Status, Row, Fresh, Setting,
      DefaultSettings
<1> QED BY <1>1, TypeInvStep, PTL DEF Spec

\* The types of Sessions hold in every reachable state: among others, every
\* expiry is computed from settings that have been read.
THEOREM TypeCorrect == Spec => []TypeOK
  BY TypeInvInvariant, PTL DEF TypeInv

-----------------------------------------------------------------------------
(* Rows, users and groups.                                                 *)

\* Every step keeps the rows, or is the insert of a login.
LEMMA RowsStep ==
    ASSUME TypeInv, [Next]_vars
    PROVE  \/ RowsKept
           \/ \E w \in Worker : LoginCreate(w) /\ sess' # sess
<1> USE DEF TypeInv
<1>1. CASE UNCHANGED vars
  BY <1>1, SameRows DEF vars
<1>2. CASE RequestStep
  <2>1. PICK w \in Worker :
          \/ sess' = sess
          \/ IPRenew(w) \/ CookieRenew(w)
    <3>1. PICK w \in Worker :
            \/ \E x \in Addr, k \in Token \cup {None}, r \in Rules \cup {None} : HttpRequest(w, x, k, r)
            \/ IPLookup(w) \/ IPRenew(w) \/ CookieLookup(w) \/ CookieRenew(w)
            \/ \E x \in Addr, r \in Rules \cup {None} : RawRequest(w, x, r)
            \/ RawLookup(w) \/ RawSettings(w) \/ Respond(w)
      BY <1>2 DEF RequestStep
    <3>2. CASE \E x \in Addr, k \in Token \cup {None}, r \in Rules \cup {None} : HttpRequest(w, x, k, r)
      BY <3>2 DEF HttpRequest, db
    <3>3. CASE IPLookup(w) \/ CookieLookup(w)
      BY <3>3 DEF IPLookup, CookieLookup, db
    <3>4. CASE \E x \in Addr, r \in Rules \cup {None} : RawRequest(w, x, r)
      BY <3>4 DEF RawRequest, db
    <3>5. CASE RawLookup(w) \/ RawSettings(w) \/ Respond(w)
      BY <3>5 DEF RawLookup, RawSettings, Respond, db
    <3> QED BY <3>1, <3>2, <3>3, <3>4, <3>5
  <2>2. CASE IPRenew(w)
    <3>1. SessionDur(req[w].gs) \in Nat
      BY <2>2, DurPos DEF IPRenew, Stages, Stage, Equipped
    <3> QED BY <2>2, <3>1, ExtendByIPOK DEF IPRenew
  <2>3. CASE CookieRenew(w)
    <3>1. SessionDur(req[w].gs) \in Nat /\ req[w].tok \in Token
      BY <2>3, DurPos DEF CookieRenew, Stages, Stage, Equipped
    <3> QED BY <2>3, <3>1, ExtendSessionOK DEF CookieRenew
  <2> QED BY <2>1, <2>2, <2>3, SameRows
<1>3. CASE SessionStep
  <2>1. ASSUME NEW w \in Worker, ExtendWrite(w) PROVE RowsKept
    <3>1. SessionDur(req[w].gs) \in Nat /\ req[w].tok \in Token
      BY <2>1, DurPos DEF ExtendWrite, Stages, Stage, Equipped
    <3> QED BY <2>1, <3>1, ExtendSessionOK DEF ExtendWrite
  <2>2. ASSUME NEW w \in Worker, DeleteSessionByID(w) PROVE RowsKept
    BY <2>2, DeleteSessionsOK DEF DeleteSessionByID
  <2>3. ASSUME NEW t \in Token, Logout(t) PROVE RowsKept
    BY <2>3, DeleteSessionsOK DEF Logout
  <2>4. \/ sess' = sess
        \/ \E w \in Worker : ExtendWrite(w) \/ DeleteSessionByID(w)
        \/ \E w \in Worker : LoginCreate(w) /\ sess' # sess
        \/ \E t \in Token : Logout(t)
    BY <1>3 DEF SessionStep, Login, LoginSettings, ExtendBegin, ExtendAccess, ExtendSettings,
                RevokeBegin, SessionFromRequest, db
  <2> QED BY <2>1, <2>2, <2>3, <2>4, SameRows
<1>4. CASE AdminStep
  <2>1. sess' = sess \/ \E S : DeleteSessions(S)
    BY <1>4 DEF AdminStep, CreateUser, DeleteUser, CreateGroup, DeleteGroup, AddUserToGroup,
                RemoveUserFromGroup, AdminDeleteSession, UpdateSettings
  <2> QED BY <2>1, SameRows, DeleteSessionsOK
<1>5. CASE RefreshSettings \/ CleanupExpiredSessions \/ Tick
  <2>1. sess' = sess \/ \E S : DeleteSessions(S)
    BY <1>5 DEF RefreshSettings, CleanupExpiredSessions, Tick, db
  <2> QED BY <2>1, SameRows, DeleteSessionsOK
<1>6. CASE FailStep
  BY <1>6, FailReq, SameRows DEF db
<1> QED BY <1>1, <1>2, <1>3, <1>4, <1>5, <1>6 DEF Next

\* Only five statements touch users, groups or memberships.
LEMMA AccountsStep ==
    ASSUME TypeInv, [Next]_vars
    PROVE  \/ UNCHANGED <<users, groups, member>>
           \/ \E u \in User : CreateUser(u) \/ DeleteUser(u)
           \/ \E g \in Group : CreateGroup(g) \/ DeleteGroup(g)
           \/ \E u \in User, g \in Group : AddUserToGroup(u, g) \/ RemoveUserFromGroup(u, g)
<1>1. CASE UNCHANGED vars
  BY <1>1 DEF vars
<1>2. CASE RequestStep
  <2>1. PICK w \in Worker :
          \/ \E x \in Addr, k \in Token \cup {None}, r \in Rules \cup {None} : HttpRequest(w, x, k, r)
          \/ IPLookup(w) \/ IPRenew(w) \/ CookieLookup(w) \/ CookieRenew(w)
          \/ \E x \in Addr, r \in Rules \cup {None} : RawRequest(w, x, r)
          \/ RawLookup(w) \/ RawSettings(w) \/ Respond(w)
    BY <1>2 DEF RequestStep
  <2>2. CASE \E x \in Addr, k \in Token \cup {None}, r \in Rules \cup {None} : HttpRequest(w, x, k, r)
    BY <2>2 DEF HttpRequest, db
  <2>3. CASE IPLookup(w) \/ CookieLookup(w)
    BY <2>3 DEF IPLookup, CookieLookup, db
  <2>4. CASE IPRenew(w) \/ CookieRenew(w)
    BY <2>4 DEF IPRenew, CookieRenew
  <2>5. CASE \E x \in Addr, r \in Rules \cup {None} : RawRequest(w, x, r)
    BY <2>5 DEF RawRequest, db
  <2>6. CASE RawLookup(w) \/ RawSettings(w) \/ Respond(w)
    BY <2>6 DEF RawLookup, RawSettings, Respond, db
  <2> QED BY <2>1, <2>2, <2>3, <2>4, <2>5, <2>6
<1>3. CASE SessionStep
  <2>1. CASE \E k \in Token : Logout(k)
    BY <2>1 DEF Logout
  <2>2. CASE \E w \in Worker :
                \/ \E u \in User, x \in Addr : Login(w, u, x)
                \/ LoginSettings(w) \/ LoginCreate(w)
    BY <2>2 DEF Login, LoginSettings, LoginCreate, db
  <2>3. CASE \E w \in Worker :
                \/ \E k \in Token : ExtendBegin(w, k)
                \/ \E r \in Rules : ExtendAccess(w, r)
                \/ ExtendSettings(w) \/ ExtendWrite(w)
    BY <2>3 DEF ExtendBegin, ExtendAccess, ExtendSettings, ExtendWrite, SessionFromRequest, db
  <2>4. CASE \E w \in Worker :
                \/ \E k, g \in Token : RevokeBegin(w, k, g)
                \/ DeleteSessionByID(w)
    BY <2>4 DEF RevokeBegin, DeleteSessionByID, SessionFromRequest, db
  <2> QED BY <1>3, <2>1, <2>2, <2>3, <2>4 DEF SessionStep
<1>4. CASE AdminStep
  BY <1>4 DEF AdminStep, AdminDeleteSession, UpdateSettings
<1>5. CASE RefreshSettings \/ CleanupExpiredSessions \/ Tick
  BY <1>5 DEF RefreshSettings, CleanupExpiredSessions, Tick, db
<1>6. CASE FailStep
  BY <1>6, FailReq DEF db
<1> QED BY <1>1, <1>2, <1>3, <1>4, <1>5, <1>6 DEF Next

\* No session or membership outlives its user, no membership its group: the
\* foreign key catches the login whose user was deleted after Authenticate,
\* and the cascades catch the rest.
THEOREM NoOrphansEver == Spec => []NoOrphans
<1>1. Init => NoOrphans
  BY DEF Init, NoOrphans, Fresh
<1>2. TypeInv /\ NoOrphans /\ [Next]_vars => NoOrphans'
  <2> SUFFICES ASSUME TypeInv, NoOrphans, [Next]_vars PROVE NoOrphans'
    OBVIOUS
  <2> USE DEF TypeInv
  \* A login's insert: the row's user exists.
  <2>1. ASSUME NEW w \in Worker, LoginCreate(w), sess' # sess PROVE NoOrphans'
    BY <2>1 DEF LoginCreate, CreateSession, NoOrphans, TypeOK
  <2>2. CASE RowsKept
    <3>1. CASE UNCHANGED <<users, groups, member>>
      BY <2>2, <3>1 DEF RowsKept, NoOrphans
    <3>2. ASSUME NEW u \in User, CreateUser(u) PROVE NoOrphans'
      BY <2>2, <3>2 DEF CreateUser, RowsKept, NoOrphans, TypeOK, RowsFilled
    <3>3. ASSUME NEW u \in User, DeleteUser(u) PROVE NoOrphans'
      <4>1. ASSUME NEW t \in Token, sess'[t].st = "live" PROVE users'[sess'[t].user] = "live"
        <5>1. sess[t].st = "live" /\ sess'[t].user = sess[t].user /\ sess[t].user \in User
          BY <2>2, <4>1 DEF RowsKept, RowsFilled
        <5>2. sess[t].user # u
          BY <3>3, <4>1, <5>1 DEF DeleteUser, DeleteSessions, Gone
        <5> QED BY <3>3, <5>1, <5>2 DEF DeleteUser, NoOrphans, TypeOK
      <4>2. ASSUME NEW m \in member' PROVE users'[m[1]] = "live" /\ groups'[m[2]] = "live"
        BY <3>3, <4>2 DEF DeleteUser, NoOrphans, TypeOK
      <4> QED BY <4>1, <4>2 DEF NoOrphans
    <3>4. ASSUME NEW g \in Group, CreateGroup(g) PROVE NoOrphans'
      BY <3>4 DEF CreateGroup, NoOrphans, TypeOK
    <3>5. ASSUME NEW g \in Group, DeleteGroup(g) PROVE NoOrphans'
      <4>1. ASSUME NEW m \in member' PROVE users'[m[1]] = "live" /\ groups'[m[2]] = "live"
        BY <3>5, <4>1 DEF DeleteGroup, NoOrphans, TypeOK
      <4> QED BY <3>5, <4>1 DEF DeleteGroup, NoOrphans
    <3>6. ASSUME NEW u \in User, NEW g \in Group, AddUserToGroup(u, g) PROVE NoOrphans'
      BY <3>6 DEF AddUserToGroup, NoOrphans
    <3>7. ASSUME NEW u \in User, NEW g \in Group, RemoveUserFromGroup(u, g) PROVE NoOrphans'
      BY <3>7 DEF RemoveUserFromGroup, NoOrphans
    <3> QED BY <3>1, <3>2, <3>3, <3>4, <3>5, <3>6, <3>7, AccountsStep
  <2> QED BY <2>1, <2>2, RowsStep
<1> QED BY <1>1, <1>2, TypeInvInvariant, PTL DEF Spec

\* A deleted session, user or group stays deleted, whatever renewal was in
\* flight: ExtendSession and ExtendUserSessionsByIP are UPDATEs, and ids are
\* AUTOINCREMENT.
THEOREM RevocationIsFinal == Spec => RevocationFinal
<1>1. TypeInv /\ [Next]_vars =>
        [/\ \A t \in Token : sess[t].st = "gone" => sess'[t].st = "gone"
         /\ \A u \in User  : users[u]  = "deleted" => users'[u]  = "deleted"
         /\ \A g \in Group : groups[g] = "deleted" => groups'[g] = "deleted"]_vars
  <2> SUFFICES ASSUME TypeInv, [Next]_vars
               PROVE  /\ \A t \in Token : sess[t].st = "gone" => sess'[t].st = "gone"
                      /\ \A u \in User  : users[u]  = "deleted" => users'[u]  = "deleted"
                      /\ \A g \in Group : groups[g] = "deleted" => groups'[g] = "deleted"
    OBVIOUS
  <2> USE DEF TypeInv
  <2>1. ASSUME NEW w \in Worker, LoginCreate(w), sess' # sess, NEW t \in Token, sess[t].st = "gone"
        PROVE  sess'[t].st = "gone"
    BY <2>1 DEF LoginCreate, CreateSession, TypeOK
  <2>2. \A t \in Token : sess[t].st = "gone" => sess'[t].st = "gone"
    BY <2>1, RowsStep DEF RowsKept
  <2>3. \A u \in User : users[u] = "deleted" => users'[u] = "deleted"
    BY AccountsStep DEF CreateUser, DeleteUser, CreateGroup, DeleteGroup, AddUserToGroup,
                        RemoveUserFromGroup, TypeOK
  <2>4. \A g \in Group : groups[g] = "deleted" => groups'[g] = "deleted"
    BY AccountsStep DEF CreateUser, DeleteUser, CreateGroup, DeleteGroup, AddUserToGroup,
                        RemoveUserFromGroup, TypeOK
  <2> QED BY <2>2, <2>3, <2>4
<1> QED BY <1>1, TypeInvInvariant, PTL DEF Spec, RevocationFinal

-----------------------------------------------------------------------------
(* Renewal.                                                                *)

\* Rows stay as they are or are deleted.
OnlyDeleted == \A t \in Token : sess'[t] = sess[t] \/ sess'[t] = Gone

\* A DELETE removes rows and writes none.
LEMMA DeletesOnly == ASSUME TypeOK, NEW S, DeleteSessions(S) PROVE OnlyDeleted
  BY DEF TypeOK, DeleteSessions, OnlyDeleted

\* The statements that set an expiry: the insert of a login, the renewal of
\* one row by its token, and the renewal of all rows of a user on an address.
LEMMA ExpiryStep ==
    ASSUME TypeInv, [Next]_vars
    PROVE  \/ OnlyDeleted /\ renewedAt' = renewedAt /\ now' >= now
           \/ /\ UNCHANGED <<renewedAt, now>>
              /\ \E w \in Worker, t \in Token :
                    LoginCreate(w) /\ CreateSession(t, req[w].user, SessionDur(req[w].gs), req[w].ip)
           \/ /\ UNCHANGED <<renewedAt, now>>
              /\ \E w \in Worker : CookieRenew(w) \/ ExtendWrite(w)
           \/ \E w \in Worker : IPRenew(w)
<1> USE DEF TypeInv
<1>0. now \in Nat /\ (now' = now => now' >= now) /\ (sess' = sess => OnlyDeleted)
  BY DEF TypeOK, OnlyDeleted
<1>1. CASE UNCHANGED vars
  BY <1>0, <1>1 DEF vars
<1>2. CASE RequestStep
  <2>1. PICK w \in Worker :
          \/ \E x \in Addr, k \in Token \cup {None}, r \in Rules \cup {None} : HttpRequest(w, x, k, r)
          \/ IPLookup(w) \/ IPRenew(w) \/ CookieLookup(w) \/ CookieRenew(w)
          \/ \E x \in Addr, r \in Rules \cup {None} : RawRequest(w, x, r)
          \/ RawLookup(w) \/ RawSettings(w) \/ Respond(w)
    BY <1>2 DEF RequestStep
  <2>2. CASE \E x \in Addr, k \in Token \cup {None}, r \in Rules \cup {None} : HttpRequest(w, x, k, r)
    BY <1>0, <2>2 DEF HttpRequest, db
  <2>3. CASE IPLookup(w) \/ CookieLookup(w)
    BY <1>0, <2>3 DEF IPLookup, CookieLookup, db
  <2>4. CASE \E x \in Addr, r \in Rules \cup {None} : RawRequest(w, x, r)
    BY <1>0, <2>4 DEF RawRequest, db
  <2>5. CASE RawLookup(w) \/ RawSettings(w) \/ Respond(w)
    BY <1>0, <2>5 DEF RawLookup, RawSettings, Respond, db
  <2>6. CASE CookieRenew(w)
    BY <2>6 DEF CookieRenew
  <2> QED BY <2>1, <2>2, <2>3, <2>4, <2>5, <2>6
<1>3. CASE SessionStep
  <2>1. ASSUME NEW w \in Worker, ExtendWrite(w) PROVE UNCHANGED <<renewedAt, now>>
    BY <2>1 DEF ExtendWrite
  <2>2. ASSUME NEW w \in Worker, LoginCreate(w)
        PROVE  /\ UNCHANGED <<renewedAt, now>>
               /\ \/ sess' = sess
                  \/ \E t \in Token :
                        CreateSession(t, req[w].user, SessionDur(req[w].gs), req[w].ip)
    BY <2>2 DEF LoginCreate
  <2>3. ASSUME NEW w \in Worker, DeleteSessionByID(w)
        PROVE  OnlyDeleted /\ UNCHANGED <<renewedAt, now>>
    BY <2>3, DeletesOnly DEF DeleteSessionByID
  <2>4. ASSUME NEW t \in Token, Logout(t)
        PROVE  OnlyDeleted /\ UNCHANGED <<renewedAt, now>>
    BY <2>4, DeletesOnly DEF Logout
  <2>5. \/ UNCHANGED <<sess, renewedAt, now>>
        \/ \E w \in Worker : ExtendWrite(w) \/ DeleteSessionByID(w) \/ LoginCreate(w)
        \/ \E t \in Token : Logout(t)
    BY <1>3 DEF SessionStep, Login, LoginSettings, ExtendBegin, ExtendAccess, ExtendSettings,
                RevokeBegin, SessionFromRequest, db
  <2> QED BY <1>0, <2>1, <2>2, <2>3, <2>4, <2>5
<1>4. CASE AdminStep
  <2>1. (sess' = sess \/ \E S : DeleteSessions(S)) /\ UNCHANGED <<renewedAt, now>>
    BY <1>4 DEF AdminStep, CreateUser, DeleteUser, CreateGroup, DeleteGroup, AddUserToGroup,
                RemoveUserFromGroup, AdminDeleteSession, UpdateSettings
  <2> QED BY <1>0, <2>1, DeletesOnly
<1>5. CASE RefreshSettings \/ CleanupExpiredSessions
  <2>1. (sess' = sess \/ \E S : DeleteSessions(S)) /\ UNCHANGED <<renewedAt, now>>
    BY <1>5 DEF RefreshSettings, CleanupExpiredSessions, db
  <2> QED BY <1>0, <2>1, DeletesOnly
<1>6. CASE Tick
  BY <1>0, <1>6 DEF Tick, db
<1>7. CASE FailStep
  BY <1>0, <1>7, FailReq DEF db
<1> QED BY <1>1, <1>2, <1>3, <1>4, <1>5, <1>6, <1>7 DEF Next

\* What the two renewals and the insert do to a row.
LEMMA RenewOne ==
    ASSUME TypeInv, NEW w \in Worker, CookieRenew(w) \/ ExtendWrite(w)
    PROVE  \E d \in Nat : /\ d >= MinHours
                          /\ \A t \in Token :
                               \/ sess'[t] = sess[t]
                               \/ t = req[w].tok /\ sess'[t] = [sess[t] EXCEPT !.exp = now + d]
<1>1. req[w].gs \in Lasting
  BY DEF CookieRenew, ExtendWrite, TypeInv, Stages, Stage, Equipped
<1>2. SessionDur(req[w].gs) \in Nat /\ SessionDur(req[w].gs) >= MinHours
  BY <1>1, DurPos
<1>3. ExtendSession(req[w].tok, SessionDur(req[w].gs))
  BY DEF CookieRenew, ExtendWrite
<1>4. \A t \in Token :
        \/ sess'[t] = sess[t]
        \/ t = req[w].tok /\ sess'[t] = [sess[t] EXCEPT !.exp = now + SessionDur(req[w].gs)]
  BY <1>3 DEF ExtendSession, TypeInv, TypeOK
<1> QED BY <1>2, <1>4

\* The renewal of a request let in by its address prolongs every session there.
LEMMA RenewAddress ==
    ASSUME TypeInv, NEW w \in Worker, IPRenew(w)
    PROVE  /\ now' = now
           /\ renewedAt' = [renewedAt EXCEPT ![<<req[w].user, normalizeIP[req[w].ip]>>] = now]
           /\ \E d \in Nat : /\ d >= MinHours
                             /\ \A t \in Token :
                                  IF /\ Unexpired(t) /\ sess[t].user = req[w].user
                                     /\ sess[t].ip = normalizeIP[req[w].ip]
                                  THEN sess'[t] = [sess[t] EXCEPT !.exp = now + d]
                                  ELSE sess'[t] = sess[t]
<1>1. req[w].gs \in Lasting
  BY DEF IPRenew, TypeInv, Stages, Stage, Equipped
<1>2. SessionDur(req[w].gs) \in Nat /\ SessionDur(req[w].gs) >= MinHours
  BY <1>1, DurPos
<1>3. ExtendUserSessionsByIP(req[w].user, req[w].ip, SessionDur(req[w].gs))
  BY DEF IPRenew
<1>4. \A t \in Token : sess[t].exp > now <=> now < sess[t].exp
  BY DEF TypeInv, TypeOK, Row
<1>5. \A t \in Token :
        IF /\ Unexpired(t) /\ sess[t].user = req[w].user
           /\ sess[t].ip = normalizeIP[req[w].ip]
        THEN sess'[t] = [sess[t] EXCEPT !.exp = now + SessionDur(req[w].gs)]
        ELSE sess'[t] = sess[t]
  BY <1>3, <1>4 DEF ExtendUserSessionsByIP, Unexpired
<1> QED BY <1>2, <1>5 DEF IPRenew

\* A renewal is never dated in the future, and no row that has not expired
\* falls behind the last renewal of its user's sessions on its address.
KeptAlive ==
    /\ \A p \in User \X Addr : renewedAt[p] <= now
    /\ \A t \in Token : Unexpired(t) =>
         sess[t].exp >= renewedAt[<<sess[t].user, sess[t].ip>>] + MinHours

\* No step lets a renewed session end before its time.
LEMMA KeptAliveStep == TypeInv /\ KeptAlive /\ [Next]_vars => KeptAlive'
<1> SUFFICES ASSUME TypeInv, KeptAlive, [Next]_vars PROVE KeptAlive'
  OBVIOUS
<1>0. /\ now \in Nat /\ MinHours \in Nat
      /\ \A t \in Token : sess[t] \in Row
      /\ \A p \in User \X Addr : renewedAt[p] \in Nat
  BY HoursAssumption DEF TypeInv, TypeOK
<1>f. \A t \in Token : sess[t].st = "live" => sess[t].user \in User /\ sess[t].ip \in Addr
  BY DEF TypeInv, RowsFilled
<1>n. now' \in Nat
  BY TypeInvStep DEF TypeInv, TypeOK
<1>1. CASE OnlyDeleted /\ renewedAt' = renewedAt /\ now' >= now
  <2>1. \A t \in Token : Unexpired(t)' => Unexpired(t) /\ sess'[t] = sess[t]
    BY <1>0, <1>1, <1>n DEF OnlyDeleted, Unexpired, Gone, Row
  <2>2. \A p \in User \X Addr : renewedAt'[p] <= now'
    BY <1>0, <1>1, <1>n DEF KeptAlive
  <2> QED BY <1>1, <2>1, <2>2 DEF KeptAlive
<1>2. ASSUME UNCHANGED <<renewedAt, now>>, NEW w \in Worker, NEW k \in Token, LoginCreate(w),
             CreateSession(k, req[w].user, SessionDur(req[w].gs), req[w].ip)
      PROVE  KeptAlive'
  <2>1. req[w].gs \in Lasting /\ req[w].user \in User /\ req[w].ip \in Addr
    BY <1>2 DEF LoginCreate, TypeInv, Stages, Stage, Equipped
  <2>2. PICK d \in Nat : d >= MinHours /\ d = SessionDur(req[w].gs)
    BY <2>1, DurPos
  <2>3. PICK b \in Addr : b = normalizeIP[req[w].ip]
    BY <2>1, NormalizeAssumption
  <2>4. sess' = [sess EXCEPT ![k] = [st |-> "live", user |-> req[w].user, ip |-> b,
                                     exp |-> now + d]]
    BY <1>2, <2>2, <2>3 DEF CreateSession
  <2>5. ASSUME NEW t \in Token, Unexpired(t)'
        PROVE  sess'[t].exp >= renewedAt'[<<sess'[t].user, sess'[t].ip>>] + MinHours
    <3>1. CASE t = k
      <4>1. sess'[t].user = req[w].user /\ sess'[t].ip = b /\ sess'[t].exp = now + d
        BY <2>4, <3>1 DEF TypeInv, TypeOK
      <4>2. renewedAt[<<req[w].user, b>>] <= now /\ renewedAt[<<req[w].user, b>>] \in Nat
        BY <1>0, <2>1 DEF KeptAlive
      <4> QED BY <1>0, <1>2, <2>2, <4>1, <4>2
    <3>2. CASE t # k
      <4>1. sess'[t] = sess[t] /\ Unexpired(t)
        BY <1>2, <2>4, <2>5, <3>2 DEF TypeInv, TypeOK, Unexpired
      <4> QED BY <1>2, <4>1 DEF KeptAlive
    <3> QED BY <3>1, <3>2
  <2> QED BY <1>2, <2>5 DEF KeptAlive
<1>3. ASSUME UNCHANGED <<renewedAt, now>>, NEW w \in Worker, CookieRenew(w) \/ ExtendWrite(w)
      PROVE  KeptAlive'
  <2>1. PICK d \in Nat : /\ d >= MinHours
                         /\ \A t \in Token :
                              \/ sess'[t] = sess[t]
                              \/ t = req[w].tok /\ sess'[t] = [sess[t] EXCEPT !.exp = now + d]
    BY <1>3, RenewOne
  <2>2. ASSUME NEW t \in Token, Unexpired(t)'
        PROVE  sess'[t].exp >= renewedAt'[<<sess'[t].user, sess'[t].ip>>] + MinHours
    <3>1. CASE sess'[t] = sess[t]
      BY <1>3, <2>2, <3>1 DEF KeptAlive, Unexpired
    <3>2. CASE sess'[t] = [sess[t] EXCEPT !.exp = now + d]
      <4>1. /\ sess'[t].user = sess[t].user /\ sess'[t].ip = sess[t].ip
            /\ sess'[t].exp = now + d /\ sess[t].st = "live"
        BY <1>0, <2>2, <3>2 DEF Row, Unexpired
      <4>2. <<sess[t].user, sess[t].ip>> \in User \X Addr
        BY <1>f, <4>1
      <4>3. /\ renewedAt[<<sess[t].user, sess[t].ip>>] <= now
            /\ renewedAt[<<sess[t].user, sess[t].ip>>] \in Nat
        BY <1>0, <4>2 DEF KeptAlive
      <4> QED BY <1>0, <1>3, <2>1, <4>1, <4>3
    <3> QED BY <2>1, <3>1, <3>2
  <2> QED BY <1>3, <2>2 DEF KeptAlive
<1>4. ASSUME NEW w \in Worker, IPRenew(w) PROVE KeptAlive'
  <2> DEFINE p == <<req[w].user, normalizeIP[req[w].ip]>>
  <2>1. now' = now /\ renewedAt' = [renewedAt EXCEPT ![p] = now]
    BY <1>4, RenewAddress
  <2>2. PICK d \in Nat : /\ d >= MinHours
                         /\ \A t \in Token :
                              IF /\ Unexpired(t) /\ sess[t].user = req[w].user
                                 /\ sess[t].ip = normalizeIP[req[w].ip]
                              THEN sess'[t] = [sess[t] EXCEPT !.exp = now + d]
                              ELSE sess'[t] = sess[t]
    BY <1>4, RenewAddress
  <2>3. ASSUME NEW t \in Token, Unexpired(t)'
        PROVE  sess'[t].exp >= renewedAt'[<<sess'[t].user, sess'[t].ip>>] + MinHours
    <3>1. CASE /\ Unexpired(t) /\ sess[t].user = req[w].user
               /\ sess[t].ip = normalizeIP[req[w].ip]
      <4>1. sess'[t] = [sess[t] EXCEPT !.exp = now + d]
        BY <2>2, <3>1
      <4>2. sess'[t].user = sess[t].user /\ sess'[t].ip = sess[t].ip /\ sess'[t].exp = now + d
        BY <1>0, <4>1 DEF Row
      <4>3. p \in User \X Addr /\ <<sess'[t].user, sess'[t].ip>> = p
        BY <1>f, <3>1, <4>2 DEF Unexpired
      <4>4. renewedAt'[p] = now
        BY <2>1, <4>3 DEF TypeInv, TypeOK
      <4> QED BY <1>0, <2>2, <4>2, <4>3, <4>4
    <3>2. CASE ~(/\ Unexpired(t) /\ sess[t].user = req[w].user
                 /\ sess[t].ip = normalizeIP[req[w].ip])
      <4>1. sess'[t] = sess[t]
        BY <2>2, <3>2
      <4>2. Unexpired(t) /\ <<sess[t].user, sess[t].ip>> # p
        BY <2>1, <2>3, <3>2, <4>1 DEF Unexpired
      <4>3. <<sess[t].user, sess[t].ip>> \in User \X Addr
        BY <1>f, <4>2 DEF Unexpired
      <4>4. renewedAt'[<<sess[t].user, sess[t].ip>>] = renewedAt[<<sess[t].user, sess[t].ip>>]
        BY <2>1, <4>2, <4>3 DEF TypeInv, TypeOK
      <4> QED BY <4>1, <4>2, <4>4 DEF KeptAlive
    <3> QED BY <3>1, <3>2
  <2>4. \A x \in User \X Addr : renewedAt'[x] <= now'
    BY <1>0, <2>1 DEF KeptAlive, TypeInv, TypeOK
  <2> QED BY <2>3, <2>4 DEF KeptAlive
<1> QED BY <1>1, <1>2, <1>3, <1>4, ExpiryStep

\* Traffic by address keeps every session of its user on that address alive,
\* however logins, renewals by cookie and changes of the settings interleave.
THEOREM SessionsKeptAlive == Spec => []KeepAlive
<1>1. Init => KeptAlive
  BY DEF Init, KeptAlive, Unexpired, Fresh
<1>2. TypeInv /\ KeptAlive => KeepAlive
  BY DEF TypeInv, TypeOK, Row, KeptAlive, KeepAlive, Active, Unexpired
<1> QED BY <1>1, <1>2, KeptAliveStep, TypeInvInvariant, PTL DEF Spec

\* A row that has expired comes back only by a request that carries its token
\* and had found it active: never by traffic from its address.
THEOREM RenewalIsOfActive == Spec => RenewalNeedsActive
<1>1. TypeInv /\ [Next]_vars =>
        [\A t \in Token :
            (sess[t].st = "live" /\ sess'[t].exp > sess[t].exp) =>
               \/ sess[t].exp > now
               \/ \E w \in Worker : /\ req[w].pc \in {"cookieRenew", "extendWrite"}
                                    /\ req[w].tok = t]_vars
  <2> SUFFICES ASSUME TypeInv, [Next]_vars, NEW t \in Token,
                      sess[t].st = "live", sess'[t].exp > sess[t].exp
               PROVE  \/ sess[t].exp > now
                      \/ \E w \in Worker : /\ req[w].pc \in {"cookieRenew", "extendWrite"}
                                           /\ req[w].tok = t
    OBVIOUS
  <2>0. sess[t] \in Row /\ now \in Nat
    BY DEF TypeInv, TypeOK
  <2>1. ~OnlyDeleted
    BY <2>0 DEF OnlyDeleted, Gone, Row
  <2>2. ASSUME NEW w \in Worker, NEW k \in Token, LoginCreate(w),
               CreateSession(k, req[w].user, SessionDur(req[w].gs), req[w].ip)
        PROVE  FALSE
    <3>1. sess'[t] = sess[t]
      BY <2>2 DEF CreateSession, TypeInv, TypeOK
    <3> QED BY <2>0, <3>1 DEF Row
  <2>3. ASSUME NEW w \in Worker, CookieRenew(w) \/ ExtendWrite(w)
        PROVE  req[w].pc \in {"cookieRenew", "extendWrite"} /\ req[w].tok = t
    <3>1. sess'[t] # sess[t]
      BY <2>0 DEF Row
    <3>2. req[w].tok = t
      BY <2>3, <3>1, RenewOne
    <3> QED BY <2>3, <3>2 DEF CookieRenew, ExtendWrite
  <2>4. ASSUME NEW w \in Worker, IPRenew(w) PROVE sess[t].exp > now
    <3>1. sess'[t] # sess[t]
      BY <2>0 DEF Row
    <3>2. Unexpired(t)
      BY <2>4, <3>1, RenewAddress
    <3> QED BY <2>0, <3>2 DEF Unexpired, Row
  <2> QED BY <2>1, <2>2, <2>3, <2>4, ExpiryStep
<1> QED BY <1>1, TypeInvInvariant, PTL DEF Spec, RenewalNeedsActive
-----------------------------------------------------------------------------
(* Grants: nobody is let through who had no access. GrantJustified is not  *)
(* inductive: a request is cleared by a lookup and only served after the   *)
(* renewal. Cleared extends it to those pcs.                               *)

\* The pcs of a request that the gate has decided to let through.
ClearedPC == {"ipRenew", "cookieRenew", "rawSettings", "served"}

Cleared ==
    \A w \in Worker : req[w].pc \in ClearedPC => seen[w] \cap {"granted", "unfiltered"} # {}

\* What the documentation promises, or a rule without numbers, in one instant.
Access(q) == Free(q) \/ ByAddress(q) \/ ByCookie(q) \/ Unfiltered(q)

-----------------------------------------------------------------------------
(* The lookups imply the reference.                                        *)

\* A row that ValidateSessionByIPInGroups returns gives access by address.
LEMMA FoundByAddress ==
    ASSUME TypeOK, NEW q, NEW t \in ValidateSessionByIPInGroups(q.ip, q.rule),
           q.rule \in Rules, AddressCounts(q)
    PROVE  ByAddress(q) \/ Unfiltered(q)
<1>1. t \in Token /\ Active(t) /\ sess[t].ip = normalizeIP[q.ip]
  BY DEF ValidateSessionByIPInGroups, IPCandidates
<1>2. InGroups(q.rule, GroupsOf(sess[t].user))
  BY DEF ValidateSessionByIPInGroups, IPCandidates
<1>3. Unexpired(t)
  BY <1>1 DEF Active, Unexpired, TypeOK, Row
<1>4. \/ q.rule.allowedGroups \cap Group = {}
      \/ \E g \in q.rule.allowedGroups : <<sess[t].user, g>> \in member
  BY <1>2 DEF InGroups, groupIDs, GroupsOf
<1>5. q.rule.allowedGroups \subseteq Group \cup {Junk, Blank}
  BY RulesAssumption DEF Rule
<1>6. CASE q.rule.allowedGroups \cap Group = {} /\ Junk \in q.rule.allowedGroups
  BY <1>1, <1>3, <1>6 DEF Unfiltered
<1>7. CASE q.rule.allowedGroups \cap Group = {} /\ Junk \notin q.rule.allowedGroups
  <2>1. q.rule.allowedGroups \subseteq {Blank}
    BY <1>5, <1>7
  <2> QED BY <1>1, <1>3, <2>1 DEF ByAddress
<1>8. CASE \E g \in q.rule.allowedGroups : <<sess[t].user, g>> \in member
  BY <1>1, <1>3, <1>8 DEF ByAddress
<1> QED BY <1>4, <1>6, <1>7, <1>8

\* A cookie that CookieLookup accepts gives access by cookie.
LEMMA FoundByCookie ==
    ASSUME TypeOK, NEW q, q.rule # None, q.kind = "http", q.tok \in Token, q.tok # None,
           CookieGate(q.rule), Active(q.tok),
           CookieAllows(q.rule, GroupsOf(sess[q.tok].user))
    PROVE  ByCookie(q)
<1>1. Unexpired(q.tok)
  BY DEF Active, Unexpired, TypeOK, Row
<1>2. \/ q.rule.requireLogin
      \/ \E g \in q.rule.allowedGroups : <<sess[q.tok].user, g>> \in member
  BY DEF CookieAllows, groupsAllow, groupSet, GroupsOf
<1> QED BY <1>1, <1>2 DEF ByCookie, CookieGate

\* Access survives a step that changes nothing it depends on.
LEMMA SameAccess ==
    ASSUME NEW w \in Worker, UNCHANGED <<now, db>>,
           req'[w].kind = req[w].kind, req'[w].ip = req[w].ip,
           req'[w].tok = req[w].tok, req'[w].rule = req[w].rule,
           ByAddress(req[w]) \/ ByCookie(req[w]) \/ Unfiltered(req[w])
    PROVE  Access(req[w])'
  BY DEF db, Access, Free, AddressCounts, ByAddress, ByCookie, Unfiltered, Unexpired

\* An address on the list, or a rule without restriction.
LEMMA FreeAccess ==
    ASSUME NEW w \in Worker, Free(req'[w]) PROVE Access(req[w])'
  BY DEF Access, Free

-----------------------------------------------------------------------------
(* The steps that clear a request.                                         *)

\* The rule and the client of a request at the gate do not change.
LEMMA AfterIPAuthKeeps ==
    ASSUME NEW q \in Request
    PROVE  /\ AfterIPAuth(q).kind = q.kind /\ AfterIPAuth(q).ip = q.ip
           /\ AfterIPAuth(q).tok = q.tok /\ AfterIPAuth(q).rule = q.rule
           /\ AfterIPAuth(q).failed = q.failed
           /\ AfterIPAuth(q).pc \in {"served", "cookieLookup", "denied"}
           /\ AfterIPAuth(q).pc = "served" => ipAllows(q.rule, q.ip)
  BY DEF AfterIPAuth, Request

\* Neither do those of a raw connection.
LEMMA RawAfterIPAuthKeeps ==
    ASSUME NEW q \in Request
    PROVE  /\ RawAfterIPAuth(q).kind = q.kind /\ RawAfterIPAuth(q).ip = q.ip
           /\ RawAfterIPAuth(q).tok = q.tok /\ RawAfterIPAuth(q).rule = q.rule
           /\ RawAfterIPAuth(q).failed = q.failed
           /\ RawAfterIPAuth(q).pc \in {"served", "denied"}
           /\ RawAfterIPAuth(q).pc = "served" => ipAllows(q.rule, q.ip)
  BY DEF RawAfterIPAuth, Request

\* Being let through changes nothing of who asks for what.
LEMMA GrantedKeeps ==
    ASSUME NEW q \in Request, NEW u, NEW p
    PROVE  /\ Granted(q, u, p).kind = q.kind /\ Granted(q, u, p).ip = q.ip
           /\ Granted(q, u, p).tok = q.tok /\ Granted(q, u, p).rule = q.rule
  BY DEF Granted, Request

\* The steps of a worker that leave the others' requests alone.
LEMMA HttpRequestClears ==
    ASSUME TypeInv, NEW w \in Worker, NEW a \in Addr, NEW t \in Token \cup {None},
           NEW r \in Rules \cup {None}, HttpRequest(w, a, t, r), req'[w].pc \in ClearedPC
    PROVE  Access(req[w])'
<1> DEFINE q == [Idle EXCEPT !.kind = "http", !.ip = a, !.tok = t, !.rule = r,
                             !.gs = globalSettings]
<1>1. q \in Request /\ q.kind = "http" /\ q.ip = a /\ q.rule = r
  BY DEF TypeInv, TypeOK, Idle, Request, PC
<1>0. CASE r = None
  <2>1. req'[w] = [q EXCEPT !.pc = "denied"]
    BY <1>0 DEF HttpRequest, Become, TypeInv, TypeOK
  <2>2. req'[w].pc = "denied"
    BY <1>1, <2>1 DEF Request
  <2> QED BY <2>2 DEF ClearedPC
<1>2. CASE r # None /\ Public(r)
  <2>1. req'[w] = [q EXCEPT !.pc = "served"]
    BY <1>2 DEF HttpRequest, Become, TypeInv, TypeOK
  <2>2. req'[w].kind = "http" /\ req'[w].rule = r
    BY <1>1, <2>1 DEF Request
  <2> QED BY <1>2, <2>2, FreeAccess DEF Free
<1>3. CASE r # None /\ ~Public(r) /\ r.ipAuth
  <2>1. req'[w] = [q EXCEPT !.pc = "ipLookup"]
    BY <1>3 DEF HttpRequest, Become, TypeInv, TypeOK
  <2>2. req'[w].pc = "ipLookup"
    BY <1>1, <2>1 DEF Request
  <2> QED BY <2>2 DEF ClearedPC
<1>4. CASE r # None /\ ~Public(r) /\ ~r.ipAuth
  <2>1. req'[w] = AfterIPAuth(q)
    BY <1>4 DEF HttpRequest, Become, TypeInv, TypeOK
  <2> HIDE DEF q
  <2>2. ipAllows(req'[w].rule, req'[w].ip) /\ req'[w].rule # None
    BY <1>1, <1>4, <2>1, AfterIPAuthKeeps DEF ClearedPC
  <2> QED BY <2>2, FreeAccess DEF Free
<1> QED BY <1>0, <1>2, <1>3, <1>4

\* The lookup of the address clears only a request that has access.
LEMMA IPLookupClears ==
    ASSUME TypeInv, NEW w \in Worker, IPLookup(w), req'[w].pc \in ClearedPC
    PROVE  Access(req[w])'
<1>1. req[w] \in Request /\ Stage(req[w]) /\ req[w].pc = "ipLookup"
  BY DEF IPLookup, TypeInv, TypeOK, Stages
<1>2. req[w].rule \in Rules /\ req[w].rule # None /\ AddressCounts(req[w])
  BY <1>1 DEF Stage, Gated, AddressCounts
<1>3. CASE Become(w, AfterIPAuth(req[w]))
  <2>1. req'[w] = AfterIPAuth(req[w])
    BY <1>3 DEF Become, TypeInv, TypeOK
  <2>2. ipAllows(req'[w].rule, req'[w].ip) /\ req'[w].rule # None
    BY <1>1, <1>2, <2>1, AfterIPAuthKeeps DEF ClearedPC
  <2> QED BY <2>2, FreeAccess DEF Free
<1>4. ASSUME NEW t \in ValidateSessionByIPInGroups(req[w].ip, req[w].rule),
             Become(w, Granted(req[w], sess[t].user, "ipRenew"))
      PROVE  Access(req[w])'
  <2>1. ByAddress(req[w]) \/ Unfiltered(req[w])
    BY <1>2, FoundByAddress DEF TypeInv
  <2>2. req'[w] = Granted(req[w], sess[t].user, "ipRenew")
    BY <1>4 DEF Become, TypeInv, TypeOK
  <2>3. /\ req'[w].kind = req[w].kind /\ req'[w].ip = req[w].ip
        /\ req'[w].tok = req[w].tok /\ req'[w].rule = req[w].rule
    BY <1>1, <2>2, GrantedKeeps
  <2> QED BY <2>1, <2>3, SameAccess DEF IPLookup
<1> QED BY <1>3, <1>4 DEF IPLookup

\* So does that of the cookie,
LEMMA CookieLookupClears ==
    ASSUME TypeInv, NEW w \in Worker, CookieLookup(w), req'[w].pc \in ClearedPC
    PROVE  Access(req[w])'
<1>1. req[w] \in Request /\ Stage(req[w]) /\ req[w].pc = "cookieLookup"
  BY DEF CookieLookup, TypeInv, TypeOK, Stages
<1>2. /\ req[w].kind = "http" /\ req[w].tok \in Token /\ req[w].tok # None
      /\ req[w].rule # None /\ CookieGate(req[w].rule)
  BY <1>1 DEF Stage, Gated
<1>3. CASE /\ Active(req[w].tok)
           /\ CookieAllows(req[w].rule, GroupsOf(sess[req[w].tok].user))
  <2>1. ByCookie(req[w])
    BY <1>2, <1>3, FoundByCookie DEF TypeInv
  <2>2. req'[w] = Granted(req[w], sess[req[w].tok].user, "cookieRenew")
    BY <1>3 DEF CookieLookup, Become, TypeInv, TypeOK
  <2>3. /\ req'[w].kind = req[w].kind /\ req'[w].ip = req[w].ip
        /\ req'[w].tok = req[w].tok /\ req'[w].rule = req[w].rule
    BY <1>1, <2>2, GrantedKeeps
  <2> QED BY <2>1, <2>3, SameAccess DEF CookieLookup
<1>4. CASE ~(/\ Active(req[w].tok)
             /\ CookieAllows(req[w].rule, GroupsOf(sess[req[w].tok].user)))
  <2>1. req'[w] = [req[w] EXCEPT !.pc = "denied"]
    BY <1>4 DEF CookieLookup, Become, TypeInv, TypeOK
  <2>2. req'[w].pc = "denied"
    BY <1>1, <2>1 DEF Request
  <2> QED BY <2>2 DEF ClearedPC
<1> QED BY <1>3, <1>4

\* the first decision on a raw connection,
LEMMA RawRequestClears ==
    ASSUME TypeInv, NEW w \in Worker, NEW a \in Addr, NEW r \in Rules \cup {None},
           RawRequest(w, a, r), req'[w].pc \in ClearedPC
    PROVE  Access(req[w])'
<1> DEFINE q == [Idle EXCEPT !.kind = "raw", !.ip = a, !.rule = r]
<1>1. q \in Request /\ q.kind = "raw" /\ q.ip = a /\ q.rule = r
  BY DEF TypeInv, TypeOK, Idle, Request, PC
<1>2. CASE r = None \/ RawPublic(r)
  <2>1. req'[w] = [q EXCEPT !.pc = "served"]
    BY <1>2 DEF RawRequest, Become, TypeInv, TypeOK
  <2>2. req'[w].kind = "raw" /\ req'[w].rule = r
    BY <1>1, <2>1 DEF Request
  <2> QED BY <1>2, <2>2, FreeAccess DEF Free
<1>3. CASE r # None /\ ~RawPublic(r) /\ RawIPAuth(r)
  <2>1. req'[w] = [q EXCEPT !.pc = "rawLookup"]
    BY <1>3 DEF RawRequest, Become, TypeInv, TypeOK
  <2>2. req'[w].pc = "rawLookup"
    BY <1>1, <2>1 DEF Request
  <2> QED BY <2>2 DEF ClearedPC
<1>4. CASE r # None /\ ~RawPublic(r) /\ ~RawIPAuth(r)
  <2>1. req'[w] = RawAfterIPAuth(q)
    BY <1>4 DEF RawRequest, Become, TypeInv, TypeOK
  <2> HIDE DEF q
  <2>2. ipAllows(req'[w].rule, req'[w].ip) /\ req'[w].rule # None
    BY <1>1, <1>4, <2>1, RawAfterIPAuthKeeps DEF ClearedPC
  <2> QED BY <2>2, FreeAccess DEF Free
<1> QED BY <1>2, <1>3, <1>4

\* and the lookup of its address.
LEMMA RawLookupClears ==
    ASSUME TypeInv, NEW w \in Worker, RawLookup(w), req'[w].pc \in ClearedPC
    PROVE  Access(req[w])'
<1>1. req[w] \in Request /\ Stage(req[w]) /\ req[w].pc = "rawLookup"
  BY DEF RawLookup, TypeInv, TypeOK, Stages
<1>2. req[w].rule \in Rules /\ req[w].rule # None /\ AddressCounts(req[w])
  BY <1>1 DEF Stage, Gated, AddressCounts, RawIPAuth
<1>3. CASE Become(w, RawAfterIPAuth(req[w]))
  <2>1. req'[w] = RawAfterIPAuth(req[w])
    BY <1>3 DEF Become, TypeInv, TypeOK
  <2>2. ipAllows(req'[w].rule, req'[w].ip) /\ req'[w].rule # None
    BY <1>1, <1>2, <2>1, RawAfterIPAuthKeeps DEF ClearedPC
  <2> QED BY <2>2, FreeAccess DEF Free
<1>4. ASSUME NEW t \in ValidateSessionByIPInGroups(req[w].ip, req[w].rule),
             Become(w, [req[w] EXCEPT !.user = sess[t].user, !.pc = "rawSettings"])
      PROVE  Access(req[w])'
  <2>1. ByAddress(req[w]) \/ Unfiltered(req[w])
    BY <1>2, FoundByAddress DEF TypeInv
  <2>2. req'[w] = [req[w] EXCEPT !.user = sess[t].user, !.pc = "rawSettings"]
    BY <1>4 DEF Become, TypeInv, TypeOK
  <2>3. /\ req'[w].kind = req[w].kind /\ req'[w].ip = req[w].ip
        /\ req'[w].tok = req[w].tok /\ req'[w].rule = req[w].rule
    BY <1>1, <2>2 DEF Request
  <2> QED BY <2>1, <2>3, SameAccess DEF RawLookup
<1> QED BY <1>3, <1>4 DEF RawLookup

\* A lookup that fails clears only a request whose address is on the list.
LEMMA LookupFailsClears ==
    ASSUME TypeInv, NEW w \in Worker, LookupFails(w), req'[w].pc \in ClearedPC
    PROVE  Access(req[w])'
<1>1. req[w] \in Request /\ Stage(req[w]) /\ req[w].pc \in {"ipLookup", "rawLookup", "cookieLookup"}
  BY DEF LookupFails, TypeInv, TypeOK, Stages
<1>2. req[w].rule # None
  BY <1>1 DEF Stage, Gated
<1>3. PICK f \in {"address", "cookie"} :
        f = IF req[w].pc = "cookieLookup" THEN "cookie" ELSE "address"
  OBVIOUS
<1>4. PICK e : e = [req[w] EXCEPT !.failed = @ \cup {f}]
  OBVIOUS
<1>5. e \in Request /\ e.rule = req[w].rule
  BY <1>1, <1>4 DEF Request
<1>6. \/ req'[w] = AfterIPAuth(e) \/ req'[w] = RawAfterIPAuth(e)
      \/ req'[w] = [e EXCEPT !.pc = "denied"]
  BY <1>3, <1>4 DEF LookupFails, Become, TypeInv, TypeOK
<1>7. [e EXCEPT !.pc = "denied"].pc \notin ClearedPC
  BY <1>5 DEF ClearedPC, Request
<1>8. CASE req'[w] = AfterIPAuth(e)
  <2>1. ipAllows(req'[w].rule, req'[w].ip) /\ req'[w].rule # None
    BY <1>2, <1>5, <1>8, AfterIPAuthKeeps DEF ClearedPC
  <2> QED BY <2>1, FreeAccess DEF Free
<1>9. CASE req'[w] = RawAfterIPAuth(e)
  <2>1. ipAllows(req'[w].rule, req'[w].ip) /\ req'[w].rule # None
    BY <1>2, <1>5, <1>9, RawAfterIPAuthKeeps DEF ClearedPC
  <2> QED BY <2>1, FreeAccess DEF Free
<1> QED BY <1>6, <1>7, <1>8, <1>9

-----------------------------------------------------------------------------
\* A request becomes cleared only with access at that instant.
LEMMA ClearedWithAccess ==
    ASSUME TypeInv, Next, NEW w \in Worker,
           req[w].pc \notin ClearedPC, req'[w].pc \in ClearedPC
    PROVE  Access(req[w])'
<1>0. req[w] \in Request
  BY DEF TypeInv, TypeOK
<1>1. ASSUME NEW v \in Worker, NEW q, Become(v, q) PROVE v = w \/ req'[w] = req[w]
  BY <1>1 DEF Become, TypeInv, TypeOK
<1>2. CASE RequestStep
  <2>1. PICK v \in Worker :
          \/ \E a \in Addr, t \in Token \cup {None}, r \in Rules \cup {None} : HttpRequest(v, a, t, r)
          \/ IPLookup(v) \/ IPRenew(v) \/ CookieLookup(v) \/ CookieRenew(v)
          \/ \E a \in Addr, r \in Rules \cup {None} : RawRequest(v, a, r)
          \/ RawLookup(v) \/ RawSettings(v) \/ Respond(v)
    BY <1>2 DEF RequestStep
  <2>2. \E q : Become(v, q)
    BY <2>1 DEF HttpRequest, IPLookup, IPRenew, CookieLookup, CookieRenew, RawRequest, RawLookup,
                RawSettings, Respond, Finish
  <2>3. v = w
    BY <1>1, <2>2
  <2>4. ~IPRenew(w) /\ ~CookieRenew(w) /\ ~RawSettings(w)
    BY DEF IPRenew, CookieRenew, RawSettings, ClearedPC
  <2>5. ~Respond(w)
    BY DEF Respond, Finish, Become, Idle, ClearedPC, TypeInv, TypeOK
  <2> QED BY <2>1, <2>3, <2>4, <2>5, HttpRequestClears, IPLookupClears, CookieLookupClears,
             RawRequestClears, RawLookupClears
<1>3. CASE SessionStep
  <2>1. ASSUME NEW v \in Worker, NEW q, q.pc \notin ClearedPC, Become(v, q) PROVE FALSE
    BY <2>1 DEF Become, TypeInv, TypeOK
  <2>2. ASSUME NEW v \in Worker, Finish(v) PROVE FALSE
    BY <2>1, <2>2 DEF Finish, Idle, ClearedPC
  <2>3. ASSUME NEW v \in Worker, NEW u \in User, NEW a \in Addr, Login(v, u, a) PROVE FALSE
    BY <2>1, <2>3 DEF Login, Idle, ClearedPC
  <2>4. ASSUME NEW v \in Worker, LoginSettings(v) PROVE FALSE
    BY <2>1, <2>4 DEF LoginSettings, ClearedPC, TypeInv, TypeOK, Request
  <2>5. ASSUME NEW v \in Worker, NEW t \in Token, ExtendBegin(v, t) PROVE FALSE
    BY <2>1, <2>5 DEF ExtendBegin, SessionFromRequest, Idle, ClearedPC
  <2>6. ASSUME NEW v \in Worker, NEW r \in Rules, ExtendAccess(v, r) PROVE FALSE
    BY <2>1, <2>2, <2>6 DEF ExtendAccess, ClearedPC, TypeInv, TypeOK, Request
  <2>7. ASSUME NEW v \in Worker, ExtendSettings(v) PROVE FALSE
    BY <2>1, <2>7 DEF ExtendSettings, ClearedPC, TypeInv, TypeOK, Request
  <2>8. ASSUME NEW v \in Worker, NEW t \in Token, NEW g \in Token, RevokeBegin(v, t, g) PROVE FALSE
    BY <2>1, <2>8 DEF RevokeBegin, SessionFromRequest, Idle, ClearedPC
  <2>9. ASSUME NEW v \in Worker, LoginCreate(v) \/ ExtendWrite(v) \/ DeleteSessionByID(v)
        PROVE  FALSE
    BY <2>2, <2>9 DEF LoginCreate, ExtendWrite, DeleteSessionByID
  <2>10. ASSUME NEW t \in Token, Logout(t) PROVE FALSE
    BY <2>10 DEF Logout
  <2> QED BY <1>3, <2>3, <2>4, <2>5, <2>6, <2>7, <2>8, <2>9, <2>10 DEF SessionStep
<1>4. CASE AdminStep
  BY <1>4, AdminTables
<1>5. CASE RefreshSettings \/ CleanupExpiredSessions \/ Tick
  BY <1>5, BackgroundTables
<1>6. CASE FailStep
  <2>1. PICK v \in Worker : LookupFails(v) \/ RenewFails(v) \/ ApiFails(v)
    BY <1>6 DEF FailStep
  <2>2. \E q : Become(v, q)
    BY <2>1 DEF LookupFails, RenewFails, ApiFails, Finish
  <2>3. v = w
    BY <1>1, <2>2
  <2>4. ~RenewFails(w)
    BY DEF RenewFails, ClearedPC
  <2>5. ~ApiFails(w)
    BY DEF ApiFails, Finish, Become, Idle, ClearedPC, TypeInv, TypeOK
  <2> QED BY <2>1, <2>3, <2>4, <2>5, LookupFailsClears
<1> QED BY <1>2, <1>3, <1>4, <1>5, <1>6 DEF Next

\* What Watch records.
LEMMA WatchRecords ==
    ASSUME TypeInv, Watch, NEW w \in Worker, req'[w].pc # "idle"
    PROVE  /\ seen[w] \subseteq seen'[w]
           /\ (req'[w].kind \in {"http", "raw"} /\ Access(req[w])')
                => seen'[w] \cap {"granted", "unfiltered"} # {}
<1>1. seen'[w] = seen[w] \cup Facts(req[w])'
  BY DEF Watch
<1>2. ASSUME req'[w].kind \in {"http", "raw"}, Access(req[w])'
      PROVE  "granted" \in Facts(req[w])' \/ "unfiltered" \in Facts(req[w])'
  BY <1>2 DEF Facts, Access
<1> QED BY <1>1, <1>2

\* Every request that is served had access at one instant since it arrived,
\* whatever logouts, expiries, revocations, deletions and edits of groups and
\* settings run between its statements and whichever of them fail; where no
\* allowed group is a number, a session on its address is all it had.
THEOREM GrantsAreJustified == Spec => []GrantJustified
<1>1. Init => Cleared
  BY DEF Init, Cleared, ClearedPC, Idle
<1>2. TypeInv /\ TypeInv' /\ Cleared /\ [Next]_vars => Cleared'
  <2> SUFFICES ASSUME TypeInv, TypeInv', Cleared, [Next]_vars,
                      NEW w \in Worker, req'[w].pc \in ClearedPC
               PROVE  seen'[w] \cap {"granted", "unfiltered"} # {}
    BY DEF Cleared
  <2>1. CASE UNCHANGED vars
    BY <2>1 DEF vars, Cleared
  <2>2. CASE Next
    <3>1. req'[w].pc # "idle" /\ Watch
      BY <2>2 DEF ClearedPC, Next
    <3>2. CASE req[w].pc \in ClearedPC
      BY <3>1, <3>2, WatchRecords DEF Cleared
    <3>3. CASE req[w].pc \notin ClearedPC
      <4>1. req'[w].kind \in {"http", "raw"}
        BY DEF TypeInv, Stages, Stage, Gated, ClearedPC
      <4> QED BY <2>2, <3>1, <3>3, <4>1, ClearedWithAccess, WatchRecords
    <3> QED BY <3>2, <3>3
  <2> QED BY <2>1, <2>2
<1>3. Cleared => GrantJustified
  BY DEF Cleared, ClearedPC, GrantJustified
<1> QED BY <1>1, <1>2, <1>3, TypeInvInvariant, PTL DEF Spec

-----------------------------------------------------------------------------
(* Denials: nobody is turned away who had access throughout.               *)

\* Expiries are bounded: each is computed from a duration that was set.
Bounded == \E b \in Nat : \A t \in Token : sess[t].exp <= b

\* Every set of naturals that is not empty has a least element.
LEMMA LeastNatural ==
    ASSUME NEW S \in SUBSET Nat, S # {}
    PROVE  \E x \in S : \A y \in S : x <= y
<1> DEFINE R == {p \in Nat \X Nat : p[1] < p[2]}
<1>1. IsWellFoundedOn(R, Nat)
  BY NatLessThanWellFounded, Zenon DEF OpToRel
<1>2. PICK x \in S : \A y \in S : ~(<<y, x>> \in R)
  <2> HIDE DEF R
  <2> QED BY <1>1, WFMin
<1>3. ASSUME NEW y \in S PROVE x <= y
  <2>1. x \in Nat /\ y \in Nat /\ ~(<<y, x>> \in R)
    BY <1>2
  <2>2. y < x => <<y, x>> \in R
    BY <2>1
  <2> HIDE DEF R
  <2> QED BY <2>1, <2>2
<1> QED BY <1>3

\* ORDER BY expires_at DESC LIMIT 1 returns a row if there is one.
LEMMA LookupFinds ==
    ASSUME TypeInv, Bounded, NEW a, NEW r, ValidateSessionByIPInGroups(a, r) = {}
    PROVE  IPCandidates(a, r) = {}
<1> SUFFICES ASSUME IPCandidates(a, r) # {} PROVE FALSE
  OBVIOUS
<1> DEFINE C == IPCandidates(a, r)
<1>1. PICK b \in Nat : \A t \in Token : sess[t].exp <= b
  BY DEF Bounded
<1>2. \A t \in Token : sess[t].exp \in Nat
  BY DEF TypeInv, TypeOK, Row
<1>3. C \subseteq Token /\ C # {}
  BY DEF IPCandidates
<1>4. ~\E t \in C : \A o \in C : sess[o].exp <= sess[t].exp
  BY DEF ValidateSessionByIPInGroups
<1> HIDE DEF C
<1> DEFINE S == {n \in Nat : \E t \in C : n = b - sess[t].exp}
<1>5. \A t \in C : b - sess[t].exp \in S
  BY <1>1, <1>2, <1>3
<1>6. PICK x \in S : \A y \in S : x <= y
  <2>1. S \in SUBSET Nat /\ S # {}
    BY <1>3, <1>5
  <2> HIDE DEF S
  <2> QED BY <2>1, LeastNatural
<1>7. PICK t \in C : x = b - sess[t].exp
  BY <1>6
<1>8. \A o \in C : sess[o].exp <= sess[t].exp
  BY <1>2, <1>3, <1>5, <1>6, <1>7
<1> QED BY <1>4, <1>8

\* A step sets at most one new expiry, on one row or on several.
LEMMA BoundedStep == TypeInv /\ Bounded /\ [Next]_vars => Bounded'
<1> SUFFICES ASSUME TypeInv, Bounded, [Next]_vars PROVE Bounded'
  OBVIOUS
<1>1. PICK b \in Nat : \A t \in Token : sess[t].exp <= b
  BY DEF Bounded
<1>2. now \in Nat /\ \A t \in Token : sess[t] \in Row /\ sess[t].exp \in Nat
  BY DEF TypeInv, TypeOK, Row
<1>3. ASSUME NEW d \in Nat, \A t \in Token : sess'[t].exp \in {sess[t].exp, 0, now + d}
      PROVE  Bounded'
  <2>1. b + now + d \in Nat /\ \A t \in Token : sess'[t].exp <= b + now + d
    BY <1>1, <1>2, <1>3
  <2> QED BY <2>1 DEF Bounded
<1>4. CASE OnlyDeleted
  <2>1. \A t \in Token : sess'[t].exp \in {sess[t].exp, 0, now + 0}
    BY <1>4 DEF OnlyDeleted, Gone
  <2> QED BY <1>3, <2>1
<1>5. ASSUME NEW w \in Worker, NEW k \in Token, LoginCreate(w),
             CreateSession(k, req[w].user, SessionDur(req[w].gs), req[w].ip)
      PROVE  Bounded'
  <2>1. req[w].gs \in Lasting
    BY <1>5 DEF LoginCreate, TypeInv, Stages, Stage, Equipped
  <2>2. PICK d \in Nat : d = SessionDur(req[w].gs)
    BY <2>1, DurPos
  <2>3. \A t \in Token : sess'[t].exp \in {sess[t].exp, 0, now + d}
    BY <1>5, <2>2 DEF CreateSession, TypeInv, TypeOK
  <2> QED BY <1>3, <2>3
<1>6. ASSUME NEW w \in Worker, CookieRenew(w) \/ ExtendWrite(w) PROVE Bounded'
  <2>1. PICK d \in Nat : \A t \in Token :
          \/ sess'[t] = sess[t]
          \/ t = req[w].tok /\ sess'[t] = [sess[t] EXCEPT !.exp = now + d]
    BY <1>6, RenewOne
  <2>2. \A t \in Token : sess'[t].exp \in {sess[t].exp, 0, now + d}
    BY <1>2, <2>1 DEF Row
  <2> QED BY <1>3, <2>2
<1>7. ASSUME NEW w \in Worker, IPRenew(w) PROVE Bounded'
  <2>1. PICK d \in Nat : \A t \in Token :
          IF Unexpired(t) /\ sess[t].user = req[w].user /\ sess[t].ip = normalizeIP[req[w].ip]
          THEN sess'[t] = [sess[t] EXCEPT !.exp = now + d]
          ELSE sess'[t] = sess[t]
    BY <1>7, RenewAddress
  <2>2. \A t \in Token : sess'[t].exp \in {sess[t].exp, 0, now + d}
    BY <1>2, <2>1 DEF Row
  <2> QED BY <1>3, <2>2
<1> QED BY <1>4, <1>5, <1>6, <1>7, ExpiryStep

\* A lookup by address that finds nothing: no session there would do.
LEMMA NoneByAddress ==
    ASSUME TypeInv, NoOrphans, Bounded, NEW q,
           ValidateSessionByIPInGroups(q.ip, q.rule) = {}
    PROVE  ~ByAddress(q)
<1> SUFFICES ASSUME NEW t \in Token, Unexpired(t), sess[t].ip = normalizeIP[q.ip],
                    \/ q.rule.allowedGroups \subseteq {Blank}
                    \/ \E g \in q.rule.allowedGroups : <<sess[t].user, g>> \in member
             PROVE  FALSE
  BY DEF ByAddress
<1>1. Active(t)
  BY DEF Active, Unexpired, NoOrphans, TypeInv, TypeOK, Row
<1>2. InGroups(q.rule, GroupsOf(sess[t].user))
  <2>1. \A g : <<sess[t].user, g>> \in member => g \in Group
    BY DEF TypeInv, TypeOK
  <2> QED BY <2>1, EntryAssumption DEF InGroups, groupIDs, GroupsOf
<1>3. t \in IPCandidates(q.ip, q.rule)
  BY <1>1, <1>2 DEF IPCandidates
<1> QED BY <1>3, LookupFinds

\* A cookie that CookieLookup refuses gives no access.
LEMMA NoneByCookie ==
    ASSUME TypeInv, NoOrphans, NEW q, q.tok \in Token,
           ~(Active(q.tok) /\ CookieAllows(q.rule, GroupsOf(sess[q.tok].user)))
    PROVE  ~ByCookie(q)
<1> SUFFICES ASSUME Unexpired(q.tok),
                    \/ q.rule.requireLogin
                    \/ \E g \in q.rule.allowedGroups : <<sess[q.tok].user, g>> \in member
             PROVE  FALSE
  BY DEF ByCookie
<1>1. Active(q.tok)
  BY DEF Active, Unexpired, NoOrphans, TypeInv, TypeOK, Row
<1>2. \A g : <<sess[q.tok].user, g>> \in member => g \in Group /\ g # Blank
  BY EntryAssumption DEF TypeInv, TypeOK
<1>3. CookieAllows(q.rule, GroupsOf(sess[q.tok].user))
  BY <1>2 DEF CookieAllows, groupsAllow, groupSet, GroupsOf
<1> QED BY <1>1, <1>3

\* The early denials before the cookie is read: it would not have helped.
LEMMA NoCookieGate ==
    ASSUME TypeInv, NEW q, ~(CookieGate(q.rule) /\ q.tok # None)
    PROVE  ~ByCookie(q)
<1>1. \A u, g : <<u, g>> \in member => g # Blank
  BY EntryAssumption DEF TypeInv, TypeOK
<1> QED BY <1>1 DEF ByCookie, CookieGate, groupSet

\* The facts about a request are those of its kind, client and rule, and a
\* step that only reads the tables leaves them as they are.
LEMMA SameFacts ==
    ASSUME NEW w \in Worker, UNCHANGED <<now, db>>, NEW q,
           req'[w].kind = q.kind, req'[w].ip = q.ip, req'[w].tok = q.tok, req'[w].rule = q.rule
    PROVE  /\ Free(req[w])' <=> Free(q)
           /\ ByAddress(req[w])' <=> ByAddress(q)
           /\ ByCookie(req[w])' <=> ByCookie(q)
  BY DEF db, Free, AddressCounts, ByAddress, ByCookie, Unexpired

\* What is known of a request on the way to a denial.
Refused ==
    \A w \in Worker :
        /\ req[w].pc \in {"cookieLookup", "denied"} =>
              ~Free(req[w]) /\ ("noAddress" \in seen[w] \/ "address" \in req[w].failed)
        /\ req[w].pc = "denied" => "noCookie" \in seen[w] \/ "cookie" \in req[w].failed

\* The same, for a request q at pc p and in one instant.
Turned(q, p) ==
    /\ p \in {"cookieLookup", "denied"} =>
          ~Free(q) /\ (~ByAddress(q) \/ "address" \in q.failed)
    /\ p = "denied" => ~ByCookie(q) \/ "cookie" \in q.failed

\* Without a session at its address a request goes on to what is left to try,
LEMMA AfterIPAuthTurns ==
    ASSUME TypeInv, NEW q \in Request, q.kind = "http", ~Public(q.rule),
           ~ByAddress(q) \/ "address" \in q.failed
    PROVE  Turned(q, AfterIPAuth(q).pc)
<1>1. CASE ipAllows(q.rule, q.ip)
  <2>1. AfterIPAuth(q).pc = "served"
    BY <1>1 DEF AfterIPAuth, Request
  <2> QED BY <2>1 DEF Turned
<1>2. CASE ~ipAllows(q.rule, q.ip)
  <2>1. ~Free(q)
    BY <1>2 DEF Free
  <2>2. CASE CookieGate(q.rule) /\ q.tok # None
    <3>1. AfterIPAuth(q).pc = "cookieLookup"
      BY <1>2, <2>2 DEF AfterIPAuth, Request
    <3> QED BY <2>1, <3>1 DEF Turned
  <2>3. CASE ~(CookieGate(q.rule) /\ q.tok # None)
    BY <2>1, <2>3, NoCookieGate DEF Turned
  <2> QED BY <2>2, <2>3
<1> QED BY <1>1, <1>2

\* and so does a raw connection.
LEMMA RawAfterIPAuthTurns ==
    ASSUME NEW q \in Request, q.kind = "raw", q.rule # None, ~RawPublic(q.rule),
           ~ByAddress(q) \/ "address" \in q.failed
    PROVE  Turned(q, RawAfterIPAuth(q).pc)
<1>1. ~ByCookie(q)
  BY DEF ByCookie
<1>2. RawAfterIPAuth(q).pc = IF ipAllows(q.rule, q.ip) THEN "served" ELSE "denied"
  BY DEF RawAfterIPAuth, Request
<1> QED BY <1>1, <1>2 DEF Turned, Free

\* A request carries its facts to its next pc.
LEMMA TurnedNext ==
    ASSUME NEW w \in Worker, UNCHANGED <<now, db>>, NEW q, Turned(q, req'[w].pc),
           req'[w].kind = q.kind, req'[w].ip = q.ip, req'[w].tok = q.tok, req'[w].rule = q.rule,
           req'[w].failed = q.failed
    PROVE  Turned(req[w], req[w].pc)'
<1>1. /\ Free(req[w])' <=> Free(q)
      /\ ByAddress(req[w])' <=> ByAddress(q)
      /\ ByCookie(req[w])' <=> ByCookie(q)
  BY SameFacts
<1> QED BY <1>1 DEF Turned

\* An HTTP request arrives.
LEMMA HttpRequestTurns ==
    ASSUME TypeInv, NEW w \in Worker, NEW a \in Addr, NEW t \in Token \cup {None},
           NEW r \in Rules \cup {None}, HttpRequest(w, a, t, r)
    PROVE  Turned(req[w], req[w].pc)'
<1> DEFINE q == [Idle EXCEPT !.kind = "http", !.ip = a, !.tok = t, !.rule = r,
                             !.gs = globalSettings]
<1>1. q \in Request /\ q.kind = "http" /\ q.ip = a /\ q.rule = r /\ q.tok = t
  BY DEF TypeInv, TypeOK, Idle, Request, PC
<1>0. CASE r = None
  <2>1. req'[w] = [q EXCEPT !.pc = "denied"]
    BY <1>0 DEF HttpRequest, Become, TypeInv, TypeOK
  <2>2. req'[w].kind = "http" /\ req'[w].rule = None
    BY <1>0, <1>1, <2>1 DEF Request
  <2> QED BY <2>2 DEF Turned, Free, AddressCounts, ByAddress, ByCookie
<1>2. CASE r # None /\ (Public(r) \/ r.ipAuth)
  <2>1. req'[w] \in {[q EXCEPT !.pc = "served"], [q EXCEPT !.pc = "ipLookup"]}
    BY <1>2 DEF HttpRequest, Become, TypeInv, TypeOK
  <2>2. req'[w].pc \in {"served", "ipLookup"}
    BY <1>1, <2>1 DEF Request
  <2> QED BY <2>2 DEF Turned
<1>3. CASE r # None /\ ~Public(r) /\ ~r.ipAuth
  <2>1. req'[w] = AfterIPAuth(q)
    BY <1>3 DEF HttpRequest, Become, TypeInv, TypeOK
  <2> HIDE DEF q
  <2>2. ~ByAddress(q)
    BY <1>1, <1>3 DEF ByAddress, AddressCounts
  <2>3. Turned(q, req'[w].pc)
    BY <1>1, <1>3, <2>1, <2>2, AfterIPAuthTurns
  <2>4. /\ req'[w].kind = q.kind /\ req'[w].ip = q.ip
        /\ req'[w].tok = q.tok /\ req'[w].rule = q.rule
        /\ req'[w].failed = q.failed
    BY <1>1, <2>1, AfterIPAuthKeeps
  <2> QED BY <2>3, <2>4, TurnedNext DEF HttpRequest
<1> QED BY <1>0, <1>2, <1>3

\* The lookup by address finds nothing.
LEMMA IPLookupTurns ==
    ASSUME TypeInv, NoOrphans, Bounded, NEW w \in Worker, IPLookup(w)
    PROVE  Turned(req[w], req[w].pc)'
<1>1. req[w] \in Request /\ Stage(req[w]) /\ req[w].pc = "ipLookup"
  BY DEF IPLookup, TypeInv, TypeOK, Stages
<1>2. req[w].kind = "http" /\ ~Public(req[w].rule)
  BY <1>1 DEF Stage, Public
<1>3. CASE /\ ValidateSessionByIPInGroups(req[w].ip, req[w].rule) = {}
           /\ Become(w, AfterIPAuth(req[w]))
  <2>1. req'[w] = AfterIPAuth(req[w])
    BY <1>3 DEF Become, TypeInv, TypeOK
  <2>2. ~ByAddress(req[w])
    BY <1>3, NoneByAddress
  <2>3. Turned(req[w], req'[w].pc)
    BY <1>1, <1>2, <2>1, <2>2, AfterIPAuthTurns
  <2>4. /\ req'[w].kind = req[w].kind /\ req'[w].ip = req[w].ip
        /\ req'[w].tok = req[w].tok /\ req'[w].rule = req[w].rule
        /\ req'[w].failed = req[w].failed
    BY <1>1, <2>1, AfterIPAuthKeeps
  <2> QED BY <2>3, <2>4, TurnedNext DEF IPLookup
<1>4. ASSUME NEW t \in Token, Become(w, Granted(req[w], sess[t].user, "ipRenew"))
      PROVE  Turned(req[w], req[w].pc)'
  <2>1. req'[w] = Granted(req[w], sess[t].user, "ipRenew")
    BY <1>4 DEF Become, TypeInv, TypeOK
  <2>2. req'[w].pc \in {"ipRenew", "served"}
    BY <1>1, <2>1 DEF Granted, Request
  <2> QED BY <2>2 DEF Turned
<1> QED BY <1>3, <1>4 DEF IPLookup, ValidateSessionByIPInGroups, IPCandidates

\* A raw connection arrives.
LEMMA RawRequestTurns ==
    ASSUME TypeInv, NEW w \in Worker, NEW a \in Addr, NEW r \in Rules \cup {None}, RawRequest(w, a, r)
    PROVE  Turned(req[w], req[w].pc)'
<1> DEFINE q == [Idle EXCEPT !.kind = "raw", !.ip = a, !.rule = r]
<1>1. q \in Request /\ q.kind = "raw" /\ q.ip = a /\ q.rule = r
  BY DEF TypeInv, TypeOK, Idle, Request, PC
<1>2. CASE r = None \/ RawPublic(r) \/ RawIPAuth(r)
  <2>1. req'[w] \in {[q EXCEPT !.pc = "served"], [q EXCEPT !.pc = "rawLookup"]}
    BY <1>2 DEF RawRequest, Become, TypeInv, TypeOK
  <2>2. req'[w].pc \in {"served", "rawLookup"}
    BY <1>1, <2>1 DEF Request
  <2> QED BY <2>2 DEF Turned
<1>3. CASE r # None /\ ~RawPublic(r) /\ ~RawIPAuth(r)
  <2>1. req'[w] = RawAfterIPAuth(q)
    BY <1>3 DEF RawRequest, Become, TypeInv, TypeOK
  <2> HIDE DEF q
  <2>2. ~ByAddress(q)
    BY <1>1, <1>3 DEF ByAddress, AddressCounts, RawIPAuth
  <2>3. Turned(q, req'[w].pc)
    BY <1>1, <1>3, <2>1, <2>2, RawAfterIPAuthTurns
  <2>4. /\ req'[w].kind = q.kind /\ req'[w].ip = q.ip
        /\ req'[w].tok = q.tok /\ req'[w].rule = q.rule
        /\ req'[w].failed = q.failed
    BY <1>1, <2>1, RawAfterIPAuthKeeps
  <2> QED BY <2>3, <2>4, TurnedNext DEF RawRequest
<1> QED BY <1>2, <1>3

\* Its lookup finds nothing.
LEMMA RawLookupTurns ==
    ASSUME TypeInv, NoOrphans, Bounded, NEW w \in Worker, RawLookup(w)
    PROVE  Turned(req[w], req[w].pc)'
<1>1. req[w] \in Request /\ Stage(req[w]) /\ req[w].pc = "rawLookup"
  BY DEF RawLookup, TypeInv, TypeOK, Stages
<1>2. req[w].kind = "raw" /\ req[w].rule # None /\ ~RawPublic(req[w].rule)
  BY <1>1 DEF Stage, Gated, RawPublic, RawIPAuth
<1>3. CASE /\ ValidateSessionByIPInGroups(req[w].ip, req[w].rule) = {}
           /\ Become(w, RawAfterIPAuth(req[w]))
  <2>1. req'[w] = RawAfterIPAuth(req[w])
    BY <1>3 DEF Become, TypeInv, TypeOK
  <2>2. ~ByAddress(req[w])
    BY <1>3, NoneByAddress
  <2>3. Turned(req[w], req'[w].pc)
    BY <1>1, <1>2, <2>1, <2>2, RawAfterIPAuthTurns
  <2>4. /\ req'[w].kind = req[w].kind /\ req'[w].ip = req[w].ip
        /\ req'[w].tok = req[w].tok /\ req'[w].rule = req[w].rule
        /\ req'[w].failed = req[w].failed
    BY <1>1, <2>1, RawAfterIPAuthKeeps
  <2> QED BY <2>3, <2>4, TurnedNext DEF RawLookup
<1>4. ASSUME NEW t \in Token,
             Become(w, [req[w] EXCEPT !.user = sess[t].user, !.pc = "rawSettings"])
      PROVE  Turned(req[w], req[w].pc)'
  <2>1. req'[w] = [req[w] EXCEPT !.user = sess[t].user, !.pc = "rawSettings"]
    BY <1>4 DEF Become, TypeInv, TypeOK
  <2>2. req'[w].pc = "rawSettings"
    BY <1>1, <2>1 DEF Request
  <2> QED BY <2>2 DEF Turned
<1> QED BY <1>3, <1>4 DEF RawLookup, ValidateSessionByIPInGroups, IPCandidates

\* The cookie is refused: the address was at an earlier instant.
LEMMA CookieLookupTurns ==
    ASSUME TypeInv, NoOrphans, NEW w \in Worker, CookieLookup(w), req'[w].pc = "denied"
    PROVE  /\ Free(req[w])' <=> Free(req[w])
           /\ req'[w].failed = req[w].failed /\ ~ByCookie(req[w])'
<1>1. req[w] \in Request /\ Stage(req[w]) /\ req[w].pc = "cookieLookup"
  BY DEF CookieLookup, TypeInv, TypeOK, Stages
<1>2. req[w].tok \in Token
  BY <1>1 DEF Stage
<1>3. CASE Active(req[w].tok) /\ CookieAllows(req[w].rule, GroupsOf(sess[req[w].tok].user))
  <2>1. req'[w] = Granted(req[w], sess[req[w].tok].user, "cookieRenew")
    BY <1>3 DEF CookieLookup, Become, TypeInv, TypeOK
  <2>2. req'[w].pc # "denied"
    BY <1>1, <2>1 DEF Granted, Request
  <2> QED BY <2>2
<1>4. CASE ~(Active(req[w].tok) /\ CookieAllows(req[w].rule, GroupsOf(sess[req[w].tok].user)))
  <2>1. ~ByCookie(req[w])
    BY <1>2, <1>4, NoneByCookie
  <2>2. req'[w] = [req[w] EXCEPT !.pc = "denied"]
    BY <1>4 DEF CookieLookup, Become, TypeInv, TypeOK
  <2>3. /\ req'[w].kind = req[w].kind /\ req'[w].ip = req[w].ip
        /\ req'[w].tok = req[w].tok /\ req'[w].rule = req[w].rule
        /\ req'[w].failed = req[w].failed
    BY <1>1, <2>2 DEF Request
  <2> QED BY <2>1, <2>3, SameFacts DEF CookieLookup
<1> QED BY <1>3, <1>4

\* A lookup that fails excuses what is denied on its account.
LEMMA LookupFailsTurns ==
    ASSUME TypeInv, NEW w \in Worker, LookupFails(w)
    PROVE  \/ Turned(req[w], req[w].pc)'
           \/ /\ req[w].pc = "cookieLookup" /\ req'[w].pc = "denied"
              /\ Free(req[w])' <=> Free(req[w])
              /\ req[w].failed \subseteq req'[w].failed /\ "cookie" \in req'[w].failed
<1>1. /\ req[w] \in Request /\ Stage(req[w]) /\ UNCHANGED <<now, db>>
      /\ req[w].pc \in {"ipLookup", "rawLookup", "cookieLookup"}
  BY DEF LookupFails, TypeInv, TypeOK, Stages
<1>2. req[w].rule # None
  BY <1>1 DEF Stage, Gated
<1>3. PICK f \in {"address", "cookie"} :
        f = IF req[w].pc = "cookieLookup" THEN "cookie" ELSE "address"
  OBVIOUS
<1>4. PICK e : e = [req[w] EXCEPT !.failed = @ \cup {f}]
  OBVIOUS
<1>5. /\ e \in Request /\ e.rule = req[w].rule /\ e.kind = req[w].kind /\ e.ip = req[w].ip
      /\ e.tok = req[w].tok /\ e.failed = req[w].failed \cup {f}
  BY <1>1, <1>4 DEF Request
<1>6. CASE req[w].pc = "ipLookup"
  <2>1. e.kind = "http" /\ ~Public(e.rule) /\ "address" \in e.failed
    BY <1>1, <1>3, <1>5, <1>6 DEF Stage, Public
  <2>2. req'[w] = AfterIPAuth(e)
    BY <1>3, <1>4, <1>6 DEF LookupFails, Become, TypeInv, TypeOK
  <2>3. Turned(e, req'[w].pc)
    BY <1>5, <2>1, <2>2, AfterIPAuthTurns
  <2>4. /\ req'[w].kind = e.kind /\ req'[w].ip = e.ip /\ req'[w].tok = e.tok
        /\ req'[w].rule = e.rule /\ req'[w].failed = e.failed
    BY <1>5, <2>2, AfterIPAuthKeeps
  <2> QED BY <1>1, <2>3, <2>4, TurnedNext
<1>7. CASE req[w].pc = "rawLookup"
  <2>1. e.kind = "raw" /\ e.rule # None /\ ~RawPublic(e.rule) /\ "address" \in e.failed
    BY <1>1, <1>2, <1>3, <1>5, <1>7 DEF Stage, RawPublic, RawIPAuth
  <2>2. req'[w] = RawAfterIPAuth(e)
    BY <1>3, <1>4, <1>7 DEF LookupFails, Become, TypeInv, TypeOK
  <2>3. Turned(e, req'[w].pc)
    BY <1>5, <2>1, <2>2, RawAfterIPAuthTurns
  <2>4. /\ req'[w].kind = e.kind /\ req'[w].ip = e.ip /\ req'[w].tok = e.tok
        /\ req'[w].rule = e.rule /\ req'[w].failed = e.failed
    BY <1>5, <2>2, RawAfterIPAuthKeeps
  <2> QED BY <1>1, <2>3, <2>4, TurnedNext
<1>8. CASE req[w].pc = "cookieLookup"
  <2>1. req'[w] = [e EXCEPT !.pc = "denied"]
    BY <1>3, <1>4, <1>8 DEF LookupFails, Become, TypeInv, TypeOK
  <2>2. /\ req'[w].pc = "denied" /\ req'[w].failed = e.failed /\ req'[w].kind = req[w].kind
        /\ req'[w].ip = req[w].ip /\ req'[w].tok = req[w].tok /\ req'[w].rule = req[w].rule
    BY <1>5, <2>1 DEF Request
  <2> QED BY <1>1, <1>3, <1>5, <1>8, <2>2, SameFacts
<1> QED BY <1>1, <1>6, <1>7, <1>8

\* A request comes to a denial, or to the cookie, only by one of these steps.
LEMMA TurnedStep ==
    ASSUME TypeInv, NoOrphans, Bounded, Next, NEW w \in Worker,
           req'[w].pc \in {"cookieLookup", "denied"}
    PROVE  \/ req'[w] = req[w]
           \/ Turned(req[w], req[w].pc)'
           \/ /\ req[w].pc = "cookieLookup" /\ req'[w].pc = "denied"
              /\ Free(req[w])' <=> Free(req[w])
              /\ req[w].failed \subseteq req'[w].failed
              /\ ~ByCookie(req[w])' \/ "cookie" \in req'[w].failed
<1>1. ASSUME NEW v \in Worker, NEW q, Become(v, q) PROVE v = w \/ req'[w] = req[w]
  BY <1>1 DEF Become, TypeInv, TypeOK
<1>2. CASE RequestStep
  <2>1. PICK v \in Worker :
          \/ \E a \in Addr, t \in Token \cup {None}, r \in Rules \cup {None} : HttpRequest(v, a, t, r)
          \/ IPLookup(v) \/ IPRenew(v) \/ CookieLookup(v) \/ CookieRenew(v)
          \/ \E a \in Addr, r \in Rules \cup {None} : RawRequest(v, a, r)
          \/ RawLookup(v) \/ RawSettings(v) \/ Respond(v)
    BY <1>2 DEF RequestStep
  <2>2. \E q : Become(v, q)
    BY <2>1 DEF HttpRequest, IPLookup, IPRenew, CookieLookup, CookieRenew, RawRequest, RawLookup,
                RawSettings, Respond, Finish
  <2>3. CASE v = w
    <3>1. req[w] \in Request
      BY DEF TypeInv, TypeOK
    <3>2. ~IPRenew(w) /\ ~CookieRenew(w)
      BY <3>1 DEF IPRenew, CookieRenew, Become, Request, TypeInv, TypeOK
    <3>3. ~RawSettings(w)
      <4>1. [req[w] EXCEPT !.gs = globalSettings] \in Request
        BY <3>1 DEF Request, TypeInv, TypeOK
      <4>2. ASSUME NEW q \in Request, NEW u, Become(w, Granted(q, u, "ipRenew")) PROVE FALSE
        BY <4>2 DEF Become, Granted, Request, TypeInv, TypeOK
      <4> QED BY <4>1, <4>2 DEF RawSettings
    <3>4. ~Respond(w)
      BY DEF Respond, Finish, Become, Idle, TypeInv, TypeOK
    <3>5. CASE CookieLookup(w)
      <4>1. req[w].pc = "cookieLookup"
        BY <3>5 DEF CookieLookup
      <4>2. PICK q : /\ Become(w, q)
                     /\ \/ q = [req[w] EXCEPT !.pc = "denied"]
                        \/ q = Granted(req[w], sess[req[w].tok].user, "cookieRenew")
        BY <3>5 DEF CookieLookup
      <4>3. req'[w] = q
        BY <4>2 DEF Become, TypeInv, TypeOK
      <4>4. req'[w].pc # "cookieLookup"
        BY <3>1, <4>2, <4>3 DEF Granted, Request
      <4> QED BY <3>5, <4>1, <4>4, CookieLookupTurns
    <3> QED BY <2>1, <2>3, <3>2, <3>3, <3>4, <3>5, HttpRequestTurns, IPLookupTurns,
               RawRequestTurns, RawLookupTurns
  <2> QED BY <1>1, <2>2, <2>3
<1>3. CASE SessionStep
  <2>1. ASSUME NEW v \in Worker, NEW q, q.pc \notin {"cookieLookup", "denied"}, Become(v, q)
        PROVE  req'[w] = req[w]
    BY <2>1 DEF Become, TypeInv, TypeOK
  <2>2. ASSUME NEW v \in Worker, Finish(v) PROVE req'[w] = req[w]
    BY <2>1, <2>2 DEF Finish, Idle
  <2>3. ASSUME NEW v \in Worker, NEW u \in User, NEW a \in Addr, Login(v, u, a)
        PROVE  req'[w] = req[w]
    BY <2>1, <2>3 DEF Login, Idle
  <2>4. ASSUME NEW v \in Worker, LoginSettings(v) PROVE req'[w] = req[w]
    BY <2>1, <2>4 DEF LoginSettings, TypeInv, TypeOK, Request
  <2>5. ASSUME NEW v \in Worker, NEW t \in Token, ExtendBegin(v, t) PROVE req'[w] = req[w]
    BY <2>1, <2>5 DEF ExtendBegin, SessionFromRequest, Idle
  <2>6. ASSUME NEW v \in Worker, NEW r \in Rules, ExtendAccess(v, r) PROVE req'[w] = req[w]
    BY <2>1, <2>2, <2>6 DEF ExtendAccess, TypeInv, TypeOK, Request
  <2>7. ASSUME NEW v \in Worker, ExtendSettings(v) PROVE req'[w] = req[w]
    BY <2>1, <2>7 DEF ExtendSettings, TypeInv, TypeOK, Request
  <2>8. ASSUME NEW v \in Worker, NEW t \in Token, NEW g \in Token, RevokeBegin(v, t, g)
        PROVE  req'[w] = req[w]
    BY <2>1, <2>8 DEF RevokeBegin, SessionFromRequest, Idle
  <2>9. ASSUME NEW v \in Worker, LoginCreate(v) \/ ExtendWrite(v) \/ DeleteSessionByID(v)
        PROVE  req'[w] = req[w]
    BY <2>2, <2>9 DEF LoginCreate, ExtendWrite, DeleteSessionByID
  <2>10. ASSUME NEW t \in Token, Logout(t) PROVE req'[w] = req[w]
    BY <2>10 DEF Logout
  <2> QED BY <1>3, <2>3, <2>4, <2>5, <2>6, <2>7, <2>8, <2>9, <2>10 DEF SessionStep
<1>4. CASE AdminStep
  BY <1>4, AdminTables
<1>5. CASE RefreshSettings \/ CleanupExpiredSessions \/ Tick
  BY <1>5, BackgroundTables
<1>6. CASE FailStep
  <2>1. PICK v \in Worker : LookupFails(v) \/ RenewFails(v) \/ ApiFails(v)
    BY <1>6 DEF FailStep
  <2>2. \E q : Become(v, q)
    BY <2>1 DEF LookupFails, RenewFails, ApiFails, Finish
  <2>3. CASE v = w
    <3>1. ~RenewFails(w)
      BY DEF RenewFails, Become, Request, TypeInv, TypeOK
    <3>2. ~ApiFails(w)
      BY DEF ApiFails, Finish, Become, Idle, TypeInv, TypeOK
    <3> QED BY <2>1, <2>3, <3>1, <3>2, LookupFailsTurns
  <2> QED BY <1>1, <2>2, <2>3
<1> QED BY <1>2, <1>3, <1>4, <1>5, <1>6 DEF Next

\* What Watch records of a request that is not admitted.
LEMMA WatchRefusal ==
    ASSUME TypeInv, Watch, NEW w \in Worker, req'[w].pc # "idle",
           req'[w].kind \in {"http", "raw"}
    PROVE  /\ seen[w] \subseteq seen'[w]
           /\ ~ByAddress(req[w])' => "noAddress" \in seen'[w]
           /\ ~ByCookie(req[w])' => "noCookie" \in seen'[w]
  BY DEF Watch, Facts

\* Nobody is turned away who was admitted throughout, unless a lookup failed:
\* neither a session of another user on the address, nor the order in which
\* the gate asks, nor what is revoked or added meanwhile hides an access that
\* stands.
THEOREM DenialsAreJustified == Spec => []DenialJustified
<1>1. Init => Refused /\ Bounded
  BY DEF Init, Refused, Bounded, Idle, Fresh
<1>2. TypeInv /\ TypeInv' /\ NoOrphans /\ Bounded /\ Refused /\ [Next]_vars => Refused'
  <2> SUFFICES ASSUME TypeInv, TypeInv', NoOrphans, Bounded, Refused, [Next]_vars,
                      NEW w \in Worker, req'[w].pc \in {"cookieLookup", "denied"}
               PROVE  /\ ~Free(req'[w])
                      /\ "noAddress" \in seen'[w] \/ "address" \in req'[w].failed
                      /\ req'[w].pc = "denied" =>
                           "noCookie" \in seen'[w] \/ "cookie" \in req'[w].failed
    BY DEF Refused, Free
  <2>1. CASE UNCHANGED vars
    BY <2>1 DEF vars, Refused
  <2>2. CASE Next
    <3>1. Watch /\ req'[w].pc # "idle" /\ req'[w].kind \in {"http", "raw"}
      BY <2>2 DEF Next, TypeInv, Stages, Stage, Gated
    <3>2. /\ seen[w] \subseteq seen'[w]
          /\ ~ByAddress(req[w])' => "noAddress" \in seen'[w]
          /\ ~ByCookie(req[w])' => "noCookie" \in seen'[w]
      BY <3>1, WatchRefusal
    <3>3. CASE req'[w] = req[w]
      BY <3>2, <3>3 DEF Refused
    <3>4. CASE Turned(req[w], req[w].pc)'
      BY <3>2, <3>4 DEF Turned, Free
    <3>5. CASE /\ req[w].pc = "cookieLookup" /\ req'[w].pc = "denied"
               /\ Free(req[w])' <=> Free(req[w])
               /\ req[w].failed \subseteq req'[w].failed
               /\ ~ByCookie(req[w])' \/ "cookie" \in req'[w].failed
      BY <3>2, <3>5 DEF Refused, Free
    <3> QED BY <2>2, <3>3, <3>4, <3>5, TurnedStep
  <2> QED BY <2>1, <2>2
<1>3. Refused => DenialJustified
  BY DEF Refused, DenialJustified
<1> QED BY <1>1, <1>2, <1>3, BoundedStep, TypeInvInvariant, NoOrphansEver, PTL DEF Spec
=============================================================================

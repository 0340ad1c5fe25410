--------------------------- MODULE AccountsProofs ---------------------------
(***************************************************************************)
(* Proofs about Accounts, for any number of users, invite codes and        *)
(* concurrent requests, and any number of crashes and failures.            *)
(***************************************************************************)
EXTENDS Accounts, TLAPS

Invite == [st : {"none", "open", "used", "deleted"}, exp : Nat]

Request == [pc : {"idle", "mark", "create", "group", "act"}, user : User \cup {None},
            code : Code \cup {None}, name : Name \cup {None}]

\* The types that the proofs need.
Typed ==
    /\ now \in Nat
    /\ name \in [User -> Name \cup {None}]
    /\ invite \in [Code -> Invite]
    /\ req \in [Worker -> Request]
    /\ made \in [Code -> Nat]
    /\ warrant \in [Worker -> {"none", "session", "admin"}]

\* A registration carries a code and a name, an admin request its caller.
Stage(q) ==
    /\ q.pc \in {"mark", "create"} <=> q.code # None
    /\ q.pc \in {"mark", "create"} => q.name \in Name
    /\ q.pc \in {"group", "act"} <=> q.user # None

Stages == \A w \in Worker : Stage(req[w])

\* A code that was not shared is with one registration at most; once that one
\* has marked it, nobody can look it up again.
Spent ==
    \A c \in Code \ shared :
        /\ \A v, w \in Worker : req[v].code = c /\ req[w].code = c => v = w
        /\ \A w \in Worker : req[w].code = c =>
              /\ made[c] = 0
              /\ req[w].pc = "create" => invite[c].st \in {"used", "deleted"}
        /\ made[c] <= 1
        /\ made[c] = 1 => invite[c].st \in {"used", "deleted"}

\* The caller of a request past the first query of requireAdmin was logged
\* in, and past the second was an administrator.
Warranted ==
    \A w \in Worker :
        /\ req[w].user = None => warrant[w] = "none"
        /\ req[w].user # None => warrant[w] \in {"session", "admin"}
        /\ req[w].pc = "act" => warrant[w] = "admin"

Inv == Typed /\ Stages /\ Spent /\ Warranted

-----------------------------------------------------------------------------
(* Lemmas about single statements                                          *)

\* A worker without a request.
LEMMA NoReqOK == /\ NoReq \in Request /\ Stage(NoReq)
                 /\ NoReq.pc = "idle" /\ NoReq.code = None /\ NoReq.user = None
  BY DEF NoReq, Request, Stage

\* What Watch makes of one request.
LEMMA WatchStep ==
    ASSUME Typed, Watch, NEW w \in Worker
    PROVE  /\ warrant'[w] \in {"none", "session", "admin"}
           /\ req'[w].user = None => warrant'[w] = "none"
           /\ req'[w].user # None =>
                /\ (warrant[w] # "none" \/ req'[w].user \in session')
                     => warrant'[w] \in {"session", "admin"}
                /\ (warrant[w] = "admin" \/ (warrant[w] = "session" /\ req'[w].user \in admins'))
                     => warrant'[w] = "admin"
<1> DEFINE u == req'[w].user
           w0 == IF warrant[w] = "none" /\ u \in session' THEN "session" ELSE warrant[w]
<1>1. warrant[w] \in {"none", "session", "admin"}
  BY DEF Typed
<1>2. warrant'[w] = CASE u = None -> "none"
                      [] u # None /\ w0 = "session" /\ u \in admins' -> "admin"
                      [] OTHER -> w0
  BY DEF Watch
<1> QED BY <1>1, <1>2

\* The history keeps its type.
LEMMA WatchTyped ==
    ASSUME Typed, Watch PROVE warrant' \in [Worker -> {"none", "session", "admin"}]
<1>1. \A w \in Worker : warrant'[w] \in {"none", "session", "admin"}
  BY WatchStep
<1>2. warrant' = [w \in Worker |-> warrant'[w]]
  BY DEF Watch
<1> QED BY <1>1, <1>2

\* The requests stay well formed when one of them moves on.
LEMMA MoveOK ==
    ASSUME Typed, Stages, NEW w \in Worker, NEW q \in Request, Stage(q), Move(w, q)
    PROVE  req' \in [Worker -> Request] /\ Stages' /\ req'[w] = q
  BY DEF Typed, Stages, Move

\* A new user has a name.
LEMMA CreateUserOK ==
    ASSUME Typed, NEW n \in Name, CreateUser(n)
    PROVE  /\ name' \in [User -> Name \cup {None}]
           /\ \A u \in User : name[u] # None => name'[u] # None
<1>1. n # None
  BY AccountsAssumption
<1> QED BY <1>1 DEF Typed, CreateUser

\* Everything but the warrants, with the state of one code after the other.
LEMMA SpentSame ==
    ASSUME Spent, UNCHANGED <<made, shared>>,
           \A w \in Worker : req'[w] = req[w] \/ req'[w] = NoReq,
           \A c \in Code : invite[c].st \in {"used", "deleted"}
                             => invite'[c].st \in {"used", "deleted"}
    PROVE  Spent'
<1> SUFFICES ASSUME NEW c \in Code \ shared
             PROVE  /\ \A v, w \in Worker : req'[v].code = c /\ req'[w].code = c => v = w
                    /\ \A w \in Worker : req'[w].code = c =>
                          /\ made[c] = 0
                          /\ req'[w].pc = "create" => invite'[c].st \in {"used", "deleted"}
                    /\ made[c] <= 1
                    /\ made[c] = 1 => invite'[c].st \in {"used", "deleted"}
  BY DEF Spent
<1>1. c # None
  BY AccountsAssumption
<1>2. \A w \in Worker : req'[w].code = c => req'[w] = req[w]
  BY <1>1, NoReqOK
<1> QED BY <1>2 DEF Spent

\* A request that stays, or ends, keeps what it needs.
LEMMA WarrantSame ==
    ASSUME Inv, Watch, \A w \in Worker : req'[w] = req[w] \/ req'[w] = NoReq
    PROVE  Warranted'
<1> SUFFICES ASSUME NEW w \in Worker
             PROVE  /\ req'[w].user = None => warrant'[w] = "none"
                    /\ req'[w].user # None => warrant'[w] \in {"session", "admin"}
                    /\ req'[w].pc = "act" => warrant'[w] = "admin"
  BY DEF Warranted
<1>1. CASE req'[w] = req[w]
  BY <1>1, WatchStep DEF Inv, Warranted, Stages, Stage
<1>2. CASE req'[w] = NoReq
  BY <1>2, WatchStep, NoReqOK DEF Inv
<1> QED BY <1>1, <1>2

\* The steps that begin or advance no request.
LEMMA CalmStep ==
    ASSUME Inv, Watch, UNCHANGED <<made, shared>>, now' \in Nat,
           name' \in [User -> Name \cup {None}], invite' \in [Code -> Invite],
           req' = [w \in Worker |-> req'[w]],
           \A w \in Worker : req'[w] = req[w] \/ req'[w] = NoReq,
           \A c \in Code : invite[c].st \in {"used", "deleted"}
                             => invite'[c].st \in {"used", "deleted"}
    PROVE  Inv'
<1>1. Warranted' /\ Spent'
  BY WarrantSame, SpentSame DEF Inv
<1>2. \A w \in Worker : req'[w] \in Request /\ Stage(req'[w])
  BY NoReqOK DEF Inv, Typed, Stages
<1>3. req' \in [Worker -> Request] /\ Stages'
  BY <1>2 DEF Stages
<1>4. Typed'
  BY <1>3, WatchTyped DEF Inv, Typed
<1> QED BY <1>1, <1>3, <1>4 DEF Inv

\* Steps that leave requests and invites alone.
LEMMA AsideStep ==
    ASSUME Inv, Watch, UNCHANGED <<made, shared, req, invite>>, now' \in Nat,
           name' \in [User -> Name \cup {None}]
    PROVE  Inv'
<1>1. /\ req' = [w \in Worker |-> req'[w]]
      /\ invite' \in [Code -> Invite]
  BY DEF Inv, Typed
<1> QED BY <1>1, CalmStep

\* A request that ends leaves the others alone.
LEMMA MoveSame ==
    ASSUME Typed, NEW w \in Worker, Move(w, NoReq)
    PROVE  /\ req' = [v \in Worker |-> req'[v]]
           /\ \A v \in Worker : req'[v] = req[v] \/ req'[v] = NoReq
  BY DEF Typed, Move

-----------------------------------------------------------------------------
(* The steps                                                               *)

\* Seeding, crashes, logins and logouts, the ticker, the clock.
LEMMA OtherKeeps ==
    ASSUME Inv, Watch,
           \/ SeedUser \/ SeedGroup \/ SeedMember \/ SeedFails \/ Crash
           \/ \E w \in Worker : Unauthenticated(w)
           \/ \E u \in User : Login(u) \/ Logout(u)
           \/ CleanupExpiredInvites \/ Tick
    PROVE  Inv'
<1>0. now \in Nat /\ name \in [User -> Name \cup {None}] /\ invite \in [Code -> Invite]
  BY DEF Inv, Typed
<1>1. CASE SeedUser
  <2>1. name' \in [User -> Name \cup {None}]
    BY <1>0, <1>1, CreateUserOK, AccountsAssumption DEF SeedUser, Inv
  <2> QED BY <1>0, <1>1, <2>1, AsideStep DEF SeedUser
<1>2. CASE SeedGroup
  BY <1>0, <1>2, AsideStep DEF SeedGroup
<1>3. CASE SeedMember
  BY <1>0, <1>3, AsideStep DEF SeedMember
<1>4. CASE SeedFails
  BY <1>0, <1>4, AsideStep DEF SeedFails, rows
<1>5. CASE Crash
  <2>1. req' = [w \in Worker |-> NoReq] /\ UNCHANGED <<made, shared, now, name, invite>>
    BY <1>5 DEF Crash, rows
  <2>2. \A w \in Worker : req'[w] = NoReq
    BY <2>1
  <2>3. req' = [w \in Worker |-> req'[w]]
    BY <2>1
  <2> QED BY <1>0, <2>1, <2>2, <2>3, CalmStep
<1>6. CASE \E w \in Worker : Unauthenticated(w)
  BY <1>0, <1>6, AsideStep DEF Unauthenticated, rows
<1>7. CASE \E u \in User : Login(u) \/ Logout(u)
  BY <1>0, <1>7, AsideStep DEF Login, Logout
<1>8. CASE CleanupExpiredInvites
  <2>1. invite' = [c \in Code |-> IF invite[c].st = "open" /\ invite[c].exp < now
                                  THEN [invite[c] EXCEPT !.st = "deleted"] ELSE invite[c]]
    BY <1>8 DEF CleanupExpiredInvites
  <2>2. /\ invite' \in [Code -> Invite]
        /\ \A c \in Code : invite[c].st \in {"used", "deleted"} => invite'[c] = invite[c]
    BY <1>0, <2>1 DEF Invite
  <2>3. UNCHANGED <<made, shared, now, name, req>>
    BY <1>8 DEF CleanupExpiredInvites
  <2>4. req' = [w \in Worker |-> req'[w]]
    BY <2>3 DEF Inv, Typed
  <2> QED BY <1>0, <2>2, <2>3, <2>4, CalmStep
<1>9. CASE Tick
  BY <1>0, <1>9, AsideStep DEF Tick, rows
<1> QED BY <1>1, <1>2, <1>3, <1>4, <1>5, <1>6, <1>7, <1>8, <1>9

\* The statement of an admin handler.
LEMMA ActKeeps ==
    ASSUME Inv, Watch, NEW w \in Worker, Act(w)
    PROVE  Inv'
<1>0. now \in Nat /\ name \in [User -> Name \cup {None}] /\ invite \in [Code -> Invite]
  BY DEF Inv, Typed
<1>1. UNCHANGED <<made, shared, now>> /\ Move(w, NoReq)
  BY DEF Act
<1>2. /\ req' = [v \in Worker |-> req'[v]]
      /\ \A v \in Worker : req'[v] = req[v] \/ req'[v] = NoReq
  BY <1>1, MoveSame DEF Inv
<1>3. /\ name' \in [User -> Name \cup {None}] /\ invite' \in [Code -> Invite]
      /\ \A c \in Code : invite[c].st \in {"used", "deleted"}
                           => invite'[c].st \in {"used", "deleted"}
  <2>1. ASSUME NEW u \in Users, \/ DeleteUser(u) \/ AddUserToGroup(u)
                                \/ RemoveUserFromGroup(u) \/ AdminDeleteSession(u)
        PROVE  name' \in [User -> Name \cup {None}] /\ invite' = invite
    BY <1>0, <2>1 DEF Users, DeleteUser, AddUserToGroup, RemoveUserFromGroup, AdminDeleteSession
  <2>2. ASSUME NEW c \in Code, CreateInvite(c)
        PROVE  /\ name' = name /\ invite' \in [Code -> Invite]
               /\ \A d \in Code : invite[d].st \in {"used", "deleted"} => invite'[d] = invite[d]
    <3>1. now + Lifetime \in Nat
      BY <1>0, AccountsAssumption
    <3> QED BY <1>0, <2>2, <3>1 DEF CreateInvite, Invite
  <2>3. ASSUME NEW c \in Code, DeleteInvite(c)
        PROVE  /\ name' = name /\ invite' \in [Code -> Invite]
               /\ \A d \in Code : invite[d].st \in {"used", "deleted"}
                                    => invite'[d].st \in {"used", "deleted"}
    <3>1. [invite[c] EXCEPT !.st = "deleted"] \in Invite
      BY <1>0 DEF Invite
    <3>2. invite' = [invite EXCEPT ![c] = [invite[c] EXCEPT !.st = "deleted"]]
      BY <1>0, <2>3 DEF DeleteInvite
    <3>3. [invite[c] EXCEPT !.st = "deleted"].st = "deleted"
      BY <1>0 DEF Invite
    <3> QED BY <1>0, <2>3, <3>1, <3>2, <3>3 DEF DeleteInvite
  <2>4. ASSUME UNCHANGED rows PROVE name' = name /\ invite' = invite
    BY <2>4 DEF rows
  <2> QED BY <1>0, <2>1, <2>2, <2>3, <2>4 DEF Act
<1> QED BY <1>0, <1>1, <1>2, <1>3, CalmStep

\* A request that moves on with its caller, or without one, keeps the warrants
\* of the others; its own is left to show.
LEMMA WarrantMove ==
    ASSUME Inv, Watch, NEW w \in Worker, NEW q \in Request, Move(w, q),
           q.user # None => warrant'[w] \in {"session", "admin"},
           q.pc = "act" => warrant'[w] = "admin"
    PROVE  Warranted'
<1> SUFFICES ASSUME NEW v \in Worker
             PROVE  /\ req'[v].user = None => warrant'[v] = "none"
                    /\ req'[v].user # None => warrant'[v] \in {"session", "admin"}
                    /\ req'[v].pc = "act" => warrant'[v] = "admin"
  BY DEF Warranted
<1>1. CASE v = w
  <2>1. req'[v] = q
    BY <1>1 DEF Move, Inv, Typed
  <2> QED BY <1>1, <2>1, WatchStep DEF Inv
<1>2. CASE v # w
  <2>1. req'[v] = req[v]
    BY <1>2 DEF Move, Inv, Typed
  <2> QED BY <2>1, WatchStep DEF Inv, Warranted, Stages, Stage
<1> QED BY <1>1, <1>2

\* UseInvite, first half: a code that is open has made no account yet.
LEMMA UseInviteKeeps ==
    ASSUME Inv, Watch, NEW w \in Worker, NEW c \in Code, NEW n \in Name, UseInvite(w, c, n)
    PROVE  Inv'
<1>0. PICK q : q = [NoReq EXCEPT !.pc = "mark", !.code = c, !.name = n]
  OBVIOUS
<1>1. q \in Request /\ q.pc = "mark" /\ q.code = c /\ q.name = n /\ q.user = None
  BY <1>0 DEF NoReq, Request
<1>2. Stage(q)
  BY <1>1, AccountsAssumption DEF Stage
<1>3. /\ Move(w, q) /\ invite[c].st = "open"
      /\ shared' = IF \E v \in Worker : req[v].code = c THEN shared \cup {c} ELSE shared
      /\ UNCHANGED <<now, name, invite, made>>
  BY <1>0 DEF UseInvite, rows
<1>4. req' \in [Worker -> Request] /\ Stages' /\ req'[w] = q
  BY <1>1, <1>2, <1>3, MoveOK DEF Inv
<1>5. Warranted'
  BY <1>1, <1>3, WarrantMove
<1>6. \A v \in Worker : v # w => req'[v] = req[v]
  BY <1>3 DEF Move, Inv, Typed
<1>7. Spent'
  <2> SUFFICES ASSUME NEW d \in Code \ shared'
               PROVE  /\ \A v, u \in Worker : req'[v].code = d /\ req'[u].code = d => v = u
                      /\ \A v \in Worker : req'[v].code = d =>
                            /\ made[d] = 0
                            /\ req'[v].pc = "create" => invite[d].st \in {"used", "deleted"}
                      /\ made[d] <= 1
                      /\ made[d] = 1 => invite[d].st \in {"used", "deleted"}
    BY <1>3 DEF Spent
  <2>1. d \in Code \ shared
    BY <1>3
  <2>2. CASE d # c
    BY <1>1, <1>4, <1>6, <2>1, <2>2 DEF Inv, Spent
  <2>3. CASE d = c
    <3>1. \A v \in Worker : req[v].code # c
      BY <1>3, <2>3
    <3>2. \A v \in Worker : req'[v].code = c => v = w
      BY <1>6, <3>1
    <3>3. made[c] = 0
      BY <1>3, <2>1, <2>3 DEF Spent, Inv, Typed
    <3> QED BY <1>1, <1>4, <2>3, <3>2, <3>3
  <2> QED BY <2>2, <2>3
<1>8. Typed'
  BY <1>3, <1>4, WatchTyped DEF Inv, Typed
<1> QED BY <1>4, <1>5, <1>7, <1>8 DEF Inv

\* Second half: the code is used from here on, or already gone.
LEMMA MarkUsedKeeps ==
    ASSUME Inv, Watch, NEW w \in Worker, MarkUsed(w)
    PROVE  Inv'
<1>0. req[w] \in Request /\ Stage(req[w]) /\ req[w].pc = "mark"
  BY DEF Inv, Typed, Stages, MarkUsed
<1>1. PICK c \in Code : c = req[w].code
  BY <1>0 DEF Stage, Request
<1>2. PICK q : q = [req[w] EXCEPT !.pc = "create"]
  OBVIOUS
<1>3. /\ q \in Request /\ q.pc = "create" /\ q.code = c /\ q.name = req[w].name
      /\ q.user = req[w].user
  BY <1>0, <1>1, <1>2 DEF Request
<1>4. Stage(q)
  BY <1>0, <1>1, <1>3 DEF Stage
<1>5. Move(w, q) /\ UNCHANGED <<now, name, made, shared>>
  BY <1>2 DEF MarkUsed
<1>6. /\ invite' \in [Code -> Invite]
      /\ invite'[c].st \in {"used", "deleted"}
      /\ \A d \in Code : d # c => invite'[d] = invite[d]
  BY <1>1 DEF MarkUsed, Inv, Typed, Invite
<1>7. req' \in [Worker -> Request] /\ Stages' /\ req'[w] = q
  BY <1>3, <1>4, <1>5, MoveOK DEF Inv
<1>8. Warranted'
  BY <1>0, <1>3, <1>5, WarrantMove DEF Stage
<1>9. \A v \in Worker : v # w => req'[v] = req[v]
  BY <1>5 DEF Move, Inv, Typed
<1>10. Spent'
  <2> SUFFICES ASSUME NEW d \in Code \ shared
               PROVE  /\ \A v, u \in Worker : req'[v].code = d /\ req'[u].code = d => v = u
                      /\ \A v \in Worker : req'[v].code = d =>
                            /\ made[d] = 0
                            /\ req'[v].pc = "create" => invite'[d].st \in {"used", "deleted"}
                      /\ made[d] <= 1
                      /\ made[d] = 1 => invite'[d].st \in {"used", "deleted"}
    BY <1>5 DEF Spent
  <2>1. \A v \in Worker : req'[v].code = req[v].code
    BY <1>1, <1>3, <1>7, <1>9
  <2>2. CASE d = c
    BY <1>6, <2>1, <2>2 DEF Inv, Spent
  <2>3. CASE d # c
    <3>1. invite'[d] = invite[d]
      BY <1>6, <2>3
    <3>2. \A v \in Worker : req'[v].code = d => req'[v] = req[v]
      BY <1>3, <1>7, <1>9, <2>3
    <3> QED BY <2>1, <3>1, <3>2 DEF Inv, Spent
  <2> QED BY <2>2, <2>3
<1>11. Typed'
  BY <1>5, <1>6, <1>7, WatchTyped DEF Inv, Typed
<1> QED BY <1>7, <1>8, <1>10, <1>11 DEF Inv

\* The account is made, and nobody holds the code any more.
LEMMA RegisterKeeps ==
    ASSUME Inv, Watch, NEW w \in Worker, Register(w)
    PROVE  Inv'
<1>0. req[w] \in Request /\ Stage(req[w]) /\ req[w].pc = "create"
  BY DEF Inv, Typed, Stages, Register
<1>1. PICK c \in Code : c = req[w].code
  BY <1>0 DEF Stage, Request
<1>2. req[w].name \in Name
  BY <1>0 DEF Stage
<1>3. Move(w, NoReq) /\ UNCHANGED <<now, invite, shared>>
  BY DEF Register
<1>4. /\ name' \in [User -> Name \cup {None}]
      /\ made' \in [Code -> Nat]
      /\ \A d \in Code : d # c => made'[d] = made[d]
      /\ made'[c] \in {made[c], made[c] + 1}
  <2>1. CASE CreateUser(req[w].name) /\ made' = [made EXCEPT ![req[w].code] = @ + 1]
    BY <1>1, <1>2, <2>1, CreateUserOK DEF Inv, Typed
  <2>2. CASE UNCHANGED <<name, issued, made>>
    BY <2>2 DEF Inv, Typed
  <2> QED BY <2>1, <2>2 DEF Register
<1>5. req' \in [Worker -> Request] /\ Stages' /\ req'[w] = NoReq
  BY <1>3, NoReqOK, MoveOK DEF Inv
<1>6. Warranted'
  BY <1>3, MoveSame, WarrantSame DEF Inv
<1>7. \A v \in Worker : v # w => req'[v] = req[v]
  BY <1>3 DEF Move, Inv, Typed
<1>8. Spent'
  <2> SUFFICES ASSUME NEW d \in Code \ shared
               PROVE  /\ \A v, u \in Worker : req'[v].code = d /\ req'[u].code = d => v = u
                      /\ \A v \in Worker : req'[v].code = d =>
                            /\ made'[d] = 0
                            /\ req'[v].pc = "create" => invite[d].st \in {"used", "deleted"}
                      /\ made'[d] <= 1
                      /\ made'[d] = 1 => invite[d].st \in {"used", "deleted"}
    BY <1>3 DEF Spent
  <2>0. d # None
    BY AccountsAssumption
  <2>1. \A v \in Worker : req'[v].code = d => v # w /\ req'[v] = req[v]
    BY <1>5, <1>7, <2>0, NoReqOK
  <2>2. CASE d = c
    <3>1. \A v \in Worker : req'[v].code # c
      BY <1>1, <2>1, <2>2 DEF Inv, Spent
    <3>2. made[c] = 0 /\ invite[c].st \in {"used", "deleted"}
      BY <1>0, <1>1, <2>2 DEF Inv, Spent
    <3> QED BY <1>4, <2>2, <3>1, <3>2
  <2>3. CASE d # c
    BY <1>4, <2>1, <2>3 DEF Inv, Spent
  <2> QED BY <2>2, <2>3
<1>9. Typed'
  BY <1>3, <1>4, <1>5, WatchTyped DEF Inv, Typed
<1> QED BY <1>5, <1>6, <1>8, <1>9 DEF Inv

\* A step of a request of the admin API leaves registrations alone.
LEMMA AdminMove ==
    ASSUME Inv, Watch, NEW w \in Worker, NEW q \in Request, Stage(q), Move(w, q),
           q.code = None, UNCHANGED <<now, name, invite, made, shared>>,
           q.user # None => warrant'[w] \in {"session", "admin"},
           q.pc = "act" => warrant'[w] = "admin"
    PROVE  Inv'
<1>1. req' \in [Worker -> Request] /\ Stages' /\ req'[w] = q
  BY MoveOK DEF Inv
<1>2. Warranted'
  BY WarrantMove
<1>3. \A c \in Code, v \in Worker : req'[v].code = c => req'[v] = req[v]
  BY <1>1, AccountsAssumption DEF Move, Inv, Typed
<1>4. Spent'
  BY <1>3 DEF Inv, Spent
<1>5. Typed'
  BY <1>1, WatchTyped DEF Inv, Typed
<1> QED BY <1>1, <1>2, <1>4, <1>5 DEF Inv

\* requireAdmin, first half.
LEMMA AdminRequestKeeps ==
    ASSUME Inv, Watch, NEW w \in Worker, NEW u \in User, AdminRequest(w, u)
    PROVE  Inv'
<1>0. PICK q : q = [NoReq EXCEPT !.pc = "group", !.user = u]
  OBVIOUS
<1>1. q \in Request /\ q.pc = "group" /\ q.code = None /\ q.user = u
  BY <1>0 DEF NoReq, Request
<1>2. Stage(q) /\ u # None
  BY <1>1, AccountsAssumption DEF Stage
<1>3. Move(w, q) /\ UNCHANGED <<now, name, invite, made, shared>> /\ u \in session'
  BY <1>0 DEF AdminRequest, rows
<1>4. req'[w] = q
  BY <1>3 DEF Move, Inv, Typed
<1>5. warrant'[w] \in {"session", "admin"}
  BY <1>1, <1>2, <1>3, <1>4, WatchStep DEF Inv
<1> QED BY <1>1, <1>2, <1>3, <1>5, AdminMove

\* Second half: the caller, once logged in, is an administrator now.
LEMMA UserInGroupKeeps ==
    ASSUME Inv, Watch, NEW w \in Worker, UserInGroup(w)
    PROVE  Inv'
<1>0. req[w] \in Request /\ Stage(req[w]) /\ req[w].pc = "group"
  BY DEF Inv, Typed, Stages, UserInGroup
<1>1. UNCHANGED <<now, name, invite, made, shared, admins>>
  BY DEF UserInGroup, rows
<1>2. CASE adminGroup /\ req[w].user \in admins
  <2>1. PICK q : q = [req[w] EXCEPT !.pc = "act"]
    OBVIOUS
  <2>2. q \in Request /\ q.pc = "act" /\ q.code = req[w].code /\ q.user = req[w].user
    BY <1>0, <2>1 DEF Request
  <2>3. q.code = None /\ q.user # None /\ Stage(q)
    BY <1>0, <2>2 DEF Stage
  <2>4. Move(w, q)
    BY <1>2, <2>1 DEF UserInGroup
  <2>5. req'[w] = q
    BY <2>4 DEF Move, Inv, Typed
  <2>6. warrant[w] \in {"session", "admin"}
    BY <2>2, <2>3 DEF Inv, Warranted
  <2>7. warrant'[w] = "admin"
    BY <1>1, <1>2, <2>2, <2>3, <2>5, <2>6, WatchStep DEF Inv
  <2> QED BY <1>1, <2>2, <2>3, <2>4, <2>7, AdminMove
<1>3. CASE ~(adminGroup /\ req[w].user \in admins)
  <2>1. Move(w, NoReq)
    BY <1>3 DEF UserInGroup
  <2> QED BY <1>1, <2>1, NoReqOK, AdminMove
<1> QED BY <1>2, <1>3

-----------------------------------------------------------------------------
(* The theorems                                                            *)

\* The inductive invariant holds throughout.
LEMMA InvInvariant == Spec => []Inv
<1>1. Init => Inv
  <2> SUFFICES ASSUME Init PROVE Inv
    OBVIOUS
  <2>1. Typed
    BY NoReqOK DEF Init, Typed, Invite
  <2>2. Stages /\ Warranted
    BY NoReqOK DEF Init, Stages, Warranted
  <2>3. Spent
    BY NoReqOK, AccountsAssumption DEF Init, Spent
  <2> QED BY <2>1, <2>2, <2>3 DEF Inv
<1>2. Inv /\ [Next]_vars => Inv'
  <2> SUFFICES ASSUME Inv, [Next]_vars PROVE Inv'
    OBVIOUS
  <2>1. CASE UNCHANGED vars
    BY <2>1 DEF vars, Inv, Typed, Stages, Spent, Warranted
  <2>2. CASE Next
    BY <2>2, OtherKeeps, UseInviteKeeps, MarkUsedKeeps, RegisterKeeps, AdminRequestKeeps,
       UserInGroupKeeps, ActKeeps DEF Next
  <2> QED BY <2>1, <2>2
<1> QED BY <1>1, <1>2, PTL DEF Spec

\* A code that no two registrations used at a time makes one account at most,
\* whatever crashes, taken names, deletions and cleanups come in between.
THEOREM InvitesMakeOne == Spec => []InviteOnceAlone
<1>1. Inv => InviteOnceAlone
  BY DEF Inv, Spent, InviteOnceAlone
<1> QED BY <1>1, InvInvariant, PTL

\* Only the seeding and requests of a caller who was logged in and, then or
\* later, an administrator make administrators, issue invites or delete users.
THEOREM OnlyAdminsAct == Spec => Privileged
<1>1. Inv /\ [Next]_vars =>
        [(\/ admins' \ admins # {}
          \/ \E u \in User : name[u] # None /\ name'[u] = None
          \/ \E c \in Code : invite[c].st = "none" /\ invite'[c].st = "open")
         => \/ boot = "seedMember"
            \/ \E w \in Worker : req[w].pc = "act" /\ warrant[w] = "admin"]_vars
  <2> DEFINE Quiet == /\ admins' \ admins = {}
                      /\ \A u \in User : name[u] # None => name'[u] # None
                      /\ \A c \in Code : invite[c].st = "none" => invite'[c].st # "open"
  <2> SUFFICES ASSUME Inv, [Next]_vars
               PROVE  \/ Quiet \/ boot = "seedMember"
                      \/ \E w \in Worker : req[w].pc = "act" /\ warrant[w] = "admin"
    OBVIOUS
  <2>0. /\ UNCHANGED <<name, admins, invite>> => Quiet
        /\ (UNCHANGED <<name, invite>> /\ admins' \subseteq admins) => Quiet
    OBVIOUS
  <2>1. CASE SeedUser
    <3>1. \A u \in User : name[u] # None => name'[u] # None
      BY <2>1, CreateUserOK, AccountsAssumption DEF SeedUser, Inv
    <3> QED BY <2>1, <3>1 DEF SeedUser
  <2>2. CASE SeedMember
    BY <2>2 DEF SeedMember
  <2>3. ASSUME NEW w \in Worker, Register(w) PROVE Quiet
    <3>1. req[w].name \in Name
      BY <2>3 DEF Register, Inv, Stages, Stage
    <3>2. \A u \in User : name[u] # None => name'[u] # None
      BY <2>3, <3>1, CreateUserOK DEF Register, Inv
    <3> QED BY <2>3, <3>2 DEF Register
  <2>4. ASSUME NEW w \in Worker, MarkUsed(w) PROVE Quiet
    <3>1. req[w].code \in Code
      BY <2>4 DEF MarkUsed, Inv, Typed, Stages, Stage, Request
    <3>2. \A c \in Code : invite[c].st = "none" => invite'[c].st # "open"
      BY <2>4, <3>1 DEF MarkUsed, Inv, Typed, Invite
    <3> QED BY <2>4, <3>2 DEF MarkUsed
  <2>5. ASSUME NEW w \in Worker, Act(w) PROVE req[w].pc = "act" /\ warrant[w] = "admin"
    BY <2>5 DEF Act, Inv, Warranted
  <2>6. CASE CleanupExpiredInvites
    <3>1. \A c \in Code : invite[c].st = "none" => invite'[c] = invite[c]
      BY <2>6 DEF CleanupExpiredInvites
    <3> QED BY <2>6, <3>1 DEF CleanupExpiredInvites
  <2>7. CASE SeedGroup \/ SeedFails \/ Crash \/ Tick
    BY <2>0, <2>7 DEF SeedGroup, SeedFails, Crash, Tick, rows
  <2>8. ASSUME NEW w \in Worker,
               \/ \E c \in Code, n \in Name : UseInvite(w, c, n)
               \/ \E u \in User : AdminRequest(w, u)
               \/ Unauthenticated(w) \/ UserInGroup(w)
        PROVE  Quiet
    BY <2>0, <2>8 DEF UseInvite, AdminRequest, Unauthenticated, UserInGroup, rows
  <2>9. ASSUME NEW u \in User, Login(u) \/ Logout(u) PROVE Quiet
    BY <2>0, <2>9 DEF Login, Logout
  <2>10. CASE UNCHANGED vars
    BY <2>0, <2>10 DEF vars
  <2> HIDE DEF Quiet
  <2> QED BY <2>1, <2>2, <2>3, <2>4, <2>5, <2>6, <2>7, <2>8, <2>9, <2>10 DEF Next
<1> QED BY <1>1, InvInvariant, PTL DEF Spec, Privileged
=============================================================================

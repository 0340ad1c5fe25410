------------------------------ MODULE Accounts ------------------------------
(***************************************************************************)
(* Who gets an account and who may administer: the first start (seedAdmin),*)
(* registration with an invite code, and the requests of the admin API,    *)
(* each of them several statements without a transaction. requireAdmin     *)
(* validates the session, then looks up the group, then the handler runs   *)
(* its statement; UseInvite looks the code up, then marks it, then the     *)
(* handler creates the user. Requests and a crash may come in between.     *)
(*                                                                         *)
(* Users are ids, never issued twice; a session is reduced to whether the  *)
(* user holds an active one (see Sessions).                                *)
(***************************************************************************)
EXTENDS Naturals, FiniteSets

CONSTANTS
    User,        \* ids
    Name, AdminName,
    Code,        \* invite codes
    Worker,
    None,
    Lifetime,    \* of an invite
    MaxTime, MaxCrashes, MaxFaults   \* bounds

ASSUME AccountsAssumption ==
    /\ AdminName \in Name
    /\ None \notin User \cup Name \cup Code
    /\ Lifetime \in Nat \ {0} /\ {MaxTime, MaxCrashes, MaxFaults} \subseteq Nat

VARIABLES
    now,
    boot,       \* where storage.New stands, "up" once the server runs
    crashes, faults,   \* counters for the bounds
    name,       \* id -> username, or None
    issued,     \* the ids that have been given to a user
    adminGroup, \* whether the group "admin" is in the table
    admins,     \* its members
    session,    \* the users with an active session
    invite,     \* code -> its row
    req,        \* worker -> the request it serves
    made,       \* history: code -> accounts it was used for
    shared,     \* history: codes two registrations have used at a time
    warrant     \* history: what has held of the caller of a request

rows == <<name, issued, adminGroup, admins, session, invite>>
vars == <<now, boot, crashes, faults, name, issued, adminGroup, admins, session, invite,
          req, made, shared, warrant>>

Users == {u \in User : name[u] # None}
NoReq == [pc |-> "idle", user |-> None, code |-> None, name |-> None]

Init ==
    /\ now = 0 /\ boot = "seed" /\ crashes = 0 /\ faults = 0
    /\ name = [u \in User |-> None]
    /\ issued = {}
    /\ adminGroup = FALSE /\ admins = {} /\ session = {}
    /\ invite = [c \in Code |-> [st |-> "none", exp |-> 0]]
    /\ req = [w \in Worker |-> NoReq]
    /\ made = [c \in Code |-> 0]
    /\ shared = {}
    /\ warrant = [w \in Worker |-> "none"]

-----------------------------------------------------------------------------
(* Statements                                                              *)

\* INSERT INTO users: a new id; the name must be free.
CreateUser(n) ==
    /\ \A u \in User : name[u] # n
    /\ \E u \in User \ issued :
        /\ issued' = issued \cup {u}
        /\ name' = [name EXCEPT ![u] = n]

\* DELETE FROM users: memberships and sessions go with it.
DeleteUser(u) ==
    /\ name' = [name EXCEPT ![u] = None]
    /\ admins' = admins \ {u}
    /\ session' = session \ {u}
    /\ UNCHANGED <<issued, adminGroup, invite>>

\* INSERT OR IGNORE INTO user_groups, for the group "admin".
AddUserToGroup(u) ==
    /\ u \in Users /\ adminGroup
    /\ admins' = admins \cup {u}
    /\ UNCHANGED <<name, issued, adminGroup, session, invite>>

RemoveUserFromGroup(u) ==
    /\ admins' = admins \ {u}
    /\ UNCHANGED <<name, issued, adminGroup, session, invite>>

CreateInvite(c) ==
    /\ invite[c].st = "none"
    /\ invite' = [invite EXCEPT ![c] = [st |-> "open", exp |-> now + Lifetime]]
    /\ UNCHANGED <<name, issued, adminGroup, admins, session>>

DeleteInvite(c) ==
    /\ invite[c].st \in {"open", "used"}
    /\ invite' = [invite EXCEPT ![c].st = "deleted"]
    /\ UNCHANGED <<name, issued, adminGroup, admins, session>>

AdminDeleteSession(u) ==
    /\ session' = session \ {u}
    /\ UNCHANGED <<name, issued, adminGroup, admins, invite>>

-----------------------------------------------------------------------------
(* storage.New: seedAdmin                                                  *)

\* The users are counted; nothing is seeded if there are any.
SeedUser ==
    /\ boot = "seed"
    /\ IF Users = {} THEN CreateUser(AdminName) /\ boot' = "seedGroup"
                     ELSE UNCHANGED <<name, issued>> /\ boot' = "up"
    /\ UNCHANGED <<now, crashes, faults, adminGroup, admins, session, invite, req, made, shared>>

\* A group left from before makes CreateGroup fail and ends the seeding.
SeedGroup ==
    /\ boot = "seedGroup"
    /\ boot' = IF adminGroup THEN "up" ELSE "seedMember"
    /\ adminGroup' = TRUE
    /\ UNCHANGED <<now, crashes, faults, name, issued, admins, session, invite, req, made, shared>>

\* The server is not up yet: the only user is the one just created.
SeedMember ==
    /\ boot = "seedMember"
    /\ admins' = Users
    /\ boot' = "up"
    /\ UNCHANGED <<now, crashes, faults, name, issued, adminGroup, session, invite, req, made, shared>>

\* One of the three statements fails: the error is logged and the rest of the
\* seeding is skipped.
SeedFails ==
    /\ \/ boot \in {"seedGroup", "seedMember"}
       \/ boot = "seed" /\ Users = {}
    /\ faults < MaxFaults
    /\ faults' = faults + 1
    /\ boot' = "up"
    /\ UNCHANGED <<now, crashes, rows, req, made, shared>>

\* The process stops, at any point, and starts again.
Crash ==
    /\ crashes < MaxCrashes
    /\ crashes' = crashes + 1
    /\ boot' = "seed"
    /\ req' = [w \in Worker |-> NoReq]
    /\ UNCHANGED <<now, faults, rows, made, shared>>

-----------------------------------------------------------------------------
(* HandleRegister                                                          *)

Move(w, q) == req' = [req EXCEPT ![w] = q]

\* Bound: an id is left for this registration, for those in progress, and
\* for a seeding after every crash to come.
IdsLeft ==
    Cardinality(User \ issued) >
        (MaxCrashes - crashes) + Cardinality({w \in Worker : req[w].code # None})

\* UseInvite, first half: the code is unused and has not expired.
UseInvite(w, c, n) ==
    /\ boot = "up" /\ req[w].pc = "idle" /\ IdsLeft
    /\ invite[c].st = "open" /\ invite[c].exp > now
    /\ Move(w, [NoReq EXCEPT !.pc = "mark", !.code = c, !.name = n])
    /\ shared' = IF \E v \in Worker : req[v].code = c THEN shared \cup {c} ELSE shared
    /\ UNCHANGED <<now, boot, crashes, faults, rows, made>>

\* Fault: the code is only looked up.
MarkUsed_Fault(w) ==
    /\ req[w].pc = "mark"
    /\ Move(w, [req[w] EXCEPT !.pc = "create"])
    /\ UNCHANGED <<now, boot, crashes, faults, rows, made, shared>>

\* Second half: UPDATE by id. It succeeds whatever the row is by now.
MarkUsed(w) ==
    /\ req[w].pc = "mark"
    /\ invite' = [invite EXCEPT ![req[w].code].st = IF @ = "deleted" THEN @ ELSE "used"]
    /\ Move(w, [req[w] EXCEPT !.pc = "create"])
    /\ UNCHANGED <<now, boot, crashes, faults, name, issued, adminGroup, admins, session, made, shared>>

\* The user is created, or the name is taken: then the code is spent.
Register(w) ==
    /\ req[w].pc = "create"
    /\ \/ /\ CreateUser(req[w].name)
          /\ made' = [made EXCEPT ![req[w].code] = @ + 1]
       \/ /\ \E u \in User : name[u] = req[w].name
          /\ UNCHANGED <<name, issued, made>>
    /\ Move(w, NoReq)
    /\ UNCHANGED <<now, boot, crashes, faults, adminGroup, admins, session, invite, shared>>

-----------------------------------------------------------------------------
(* The admin API                                                           *)

\* requireAdmin, first half: sessionFromRequest.
AdminRequest(w, u) ==
    /\ boot = "up" /\ req[w].pc = "idle"
    /\ u \in session
    /\ Move(w, [NoReq EXCEPT !.pc = "group", !.user = u])
    /\ UNCHANGED <<now, boot, crashes, faults, rows, made, shared>>

\* Requests without an active session are answered with an error.
Unauthenticated(w) ==
    /\ boot = "up" /\ req[w].pc = "idle"
    /\ UNCHANGED <<now, boot, crashes, faults, rows, req, made, shared>>

\* Fault: any session will do.
UserInGroup_Fault(w) ==
    /\ req[w].pc = "group"
    /\ Move(w, [req[w] EXCEPT !.pc = "act"])
    /\ UNCHANGED <<now, boot, crashes, faults, rows, made, shared>>

\* Second half: UserInGroup.
UserInGroup(w) ==
    /\ req[w].pc = "group"
    /\ IF adminGroup /\ req[w].user \in admins
       THEN Move(w, [req[w] EXCEPT !.pc = "act"])
       ELSE Move(w, NoReq)
    /\ UNCHANGED <<now, boot, crashes, faults, rows, made, shared>>

\* The handler's statement, or none: a GET, or a row that is not there. (The
\* statements on other tables are in the modules of those tables; the group
\* "admin" itself is never deleted.)
Act(w) ==
    /\ req[w].pc = "act"
    /\ \/ \E u \in Users : \/ DeleteUser(u) \/ AddUserToGroup(u)
                           \/ RemoveUserFromGroup(u) \/ AdminDeleteSession(u)
       \/ \E c \in Code : CreateInvite(c) \/ DeleteInvite(c)
       \/ UNCHANGED rows
    /\ Move(w, NoReq)
    /\ UNCHANGED <<now, boot, crashes, faults, made, shared>>

-----------------------------------------------------------------------------
\* HandleLogin; logout or expiry; the ticker; the clock.
Login(u) ==
    /\ boot = "up" /\ u \in Users
    /\ session' = session \cup {u}
    /\ UNCHANGED <<now, boot, crashes, faults, name, issued, adminGroup, admins, invite, req, made, shared>>

Logout(u) ==
    /\ boot = "up" /\ u \in session
    /\ session' = session \ {u}
    /\ UNCHANGED <<now, boot, crashes, faults, name, issued, adminGroup, admins, invite, req, made, shared>>

\* DELETE ... WHERE expires_at < now AND used = FALSE.
CleanupExpiredInvites ==
    /\ boot = "up"
    /\ \E c \in Code : invite[c].st = "open" /\ invite[c].exp < now
    /\ invite' = [c \in Code |-> IF invite[c].st = "open" /\ invite[c].exp < now
                                 THEN [invite[c] EXCEPT !.st = "deleted"] ELSE invite[c]]
    /\ UNCHANGED <<now, boot, crashes, faults, name, issued, adminGroup, admins, session, req, made, shared>>

Tick ==
    /\ now < MaxTime
    /\ now' = now + 1
    /\ UNCHANGED <<boot, crashes, faults, rows, req, made, shared>>

\* History: a caller was logged in, and from then on was an admin once.
Watch == warrant' = [w \in Worker |->
    LET u == req'[w].user
        w0 == IF warrant[w] = "none" /\ u \in session' THEN "session" ELSE warrant[w]
    IN  CASE u = None                          -> "none"
          [] u # None /\ w0 = "session" /\ u \in admins' -> "admin"
          [] OTHER                             -> w0]

Next ==
    /\ \/ SeedUser \/ SeedGroup \/ SeedMember \/ SeedFails \/ Crash
       \/ \E w \in Worker :
            \/ \E c \in Code, n \in Name : UseInvite(w, c, n)
            \/ MarkUsed(w) \/ Register(w)
            \/ (\E u \in User : AdminRequest(w, u)) \/ Unauthenticated(w)
            \/ UserInGroup(w) \/ Act(w)
       \/ \E u \in User : Login(u) \/ Logout(u)
       \/ CleanupExpiredInvites \/ Tick
    /\ Watch

Spec == Init /\ [][Next]_vars

-----------------------------------------------------------------------------
(* Properties                                                              *)

\* An invite makes at most one account, unless two registrations with its
\* code ran at a time: neither a crash between the statements of
\* HandleRegister, nor a taken name, nor a retry makes a second one.
InviteOnceAlone == \A c \in Code \ shared : made[c] <= 1

\* The documentation, without that condition: invite codes are single-use.
InviteSingleUse == \A c \in Code : made[c] <= 1

\* Nobody becomes an administrator, no invite is issued and no user removed,
\* except while the database is seeded or by a request whose caller was
\* logged in and, then or later, an administrator: the two queries of
\* requireAdmin and the statement see three different states.
Privileged ==
    [][(\/ admins' \ admins # {}
        \/ \E u \in User : name[u] # None /\ name'[u] = None
        \/ \E c \in Code : invite[c].st = "none" /\ invite'[c].st = "open")
       => \/ boot = "seedMember"
          \/ \E w \in Worker : req[w].pc = "act" /\ warrant[w] = "admin"]_vars
=============================================================================

----------------------------- MODULE Migrations -----------------------------
(***************************************************************************)
(* storage.New: opening the database brings its schema up to date, as      *)
(* runMigrations of storage/storage.go does with the files of              *)
(* storage/migrations. A file is run statement by statement and recorded   *)
(* afterwards, with no transaction around them, and the process may end    *)
(* between any two statements. Databases older than schema_migrations are  *)
(* recognised by their columns (bootstrapMigrations).                      *)
(*                                                                         *)
(* A statement (what splitSQL returns) is kept as what it needs of the     *)
(* schema and what it changes: a table t is an item <<t, "table">>, and a  *)
(* column that a migration adds or drops is <<t, c>>. Triggers, indexes    *)
(* and changes of rows need their table, can be repeated and leave the     *)
(* schema as it is.                                                        *)
(***************************************************************************)
EXTENDS Naturals, Sequences

CONSTANT MaxCrashes   \* bound on crashes and failing statements before a migration is complete

ASSUME MigrationsAssumption == MaxCrashes \in Nat

VARIABLES
    schema,     \* the tables and columns of the database
    versions,   \* schema_migrations
    boot,       \* where storage.New is
    crashes,    \* counter for the bound
    torn        \* history: a step that cannot be repeated was cut off, and no start since
                \* has brought the schema up to date

-----------------------------------------------------------------------------
(* The migration files                                                     *)

Stmt(op, t, c) == [op |-> op, item |-> <<t, c>>]
Ensure(t)  == Stmt("ensure", t, "table")   \* CREATE TABLE IF NOT EXISTS
Create(t)  == Stmt("create", t, "table")   \* CREATE TABLE
Add(t, c)  == Stmt("add", t, c)            \* ALTER TABLE ADD COLUMN
Drop(t, c) == Stmt("drop", t, c)           \* ALTER TABLE DROP COLUMN
On(t)      == Stmt("on", t, "table")       \* index, trigger, rows

InitialSchema ==
    <<Ensure("proxy_routes"), On("proxy_routes"), On("proxy_routes"), On("proxy_routes"),
      Ensure("users"), Ensure("groups"), Ensure("user_groups"), Ensure("invites"),
      Ensure("sessions"), On("sessions")>>
AccessControl ==
    <<Add("proxy_routes", "allowed_groups"), Add("proxy_routes", "cookie_policy"),
      Add("proxy_routes", "renew_on_access")>>
AllowedIps         == <<Add("proxy_routes", "allowed_ips")>>
IpSessionAuth      == <<Add("proxy_routes", "ip_auth"), Add("sessions", "client_ip"), On("sessions")>>
SessionDuration    == <<Add("proxy_routes", "session_duration")>>
Metrics            == <<Create("auth_failures"), On("auth_failures")>>
InviteDescription  == <<Add("invites", "description")>>
AccessLog          == <<Create("access_log"), On("access_log")>>
Settings           == <<Ensure("settings"), On("settings")>>
NormalizeClientIp  == <<On("sessions")>>
CleanupOrphans     == <<On("sessions")>>
CookieSettings ==
    <<Drop("proxy_routes", "cookie_policy"), Add("proxy_routes", "persistent_login")>>
DropRouteSessionFields ==
    <<Drop("proxy_routes", "renew_on_access"), Drop("proxy_routes", "session_duration")>>
RouteRangeGroup    == <<Add("proxy_routes", "range_group")>>
ThrottleBansRequireLogin ==
    <<Add("proxy_routes", "require_login"), Ensure("throttle_policies"), Ensure("banned_ips"),
      On("banned_ips"), On("throttle_policies"), On("throttle_policies")>>

Script == <<InitialSchema, AccessControl, AllowedIps, IpSessionAuth, SessionDuration, Metrics,
            InviteDescription, AccessLog, Settings, NormalizeClientIp, CleanupOrphans,
            CookieSettings, DropRouteSessionFields, RouteRangeGroup, ThrottleBansRequireLogin>>

Version == 1 .. Len(Script)

Table(item) == <<item[1], "table">>

\* What SQLite accepts, and what it then does to the schema.
Accepts(s, st) ==
    CASE st.op = "ensure" -> TRUE
      [] st.op = "create" -> st.item \notin s
      [] st.op = "add"    -> Table(st.item) \in s /\ st.item \notin s
      [] st.op = "drop"   -> st.item \in s
      [] st.op = "on"     -> st.item \in s

After(s, st) == IF st.op = "drop" THEN s \ {st.item} ELSE s \cup {st.item}

\* The schema the first k files lead to.
SchemaOf(k) ==
    LET done == UNION {{Script[v][i] : i \in DOMAIN Script[v]} : v \in 1 .. k}
    IN  {st.item : st \in done} \ {st.item : st \in {d \in done : d.op = "drop"}}

-----------------------------------------------------------------------------
Off == [at |-> "off", todo |-> {}, v |-> 0, i |-> 0]

\* A new database, one that an earlier release has migrated, or one from
\* before the migrations were recorded, whose columns came in the same order.
MigInit ==
    /\ \/ \E k \in 0 .. Len(Script) : schema = SchemaOf(k) /\ versions = 1 .. k
       \/ \E k \in 1 .. 5 : schema = SchemaOf(k) /\ versions = {}
    /\ boot = Off
    /\ crashes = 0 /\ torn = FALSE

columnExists(t, c) == <<t, c>> \in schema

\* Fault: the last of the old columns is not looked for.
Inferred_Fault ==
    {1} \cup {v \in 2 .. 4 :
        columnExists("proxy_routes", <<"table", "allowed_groups", "allowed_ips", "ip_auth">>[v])}

\* The versions bootstrapMigrations takes for applied: that proxy_routes is
\* there stands for the whole of the first file, a column for each of the
\* next four.
Inferred ==
    {1} \cup {v \in 2 .. 5 :
        columnExists("proxy_routes",
            <<"table", "allowed_groups", "allowed_ips", "ip_auth", "session_duration">>[v])}

\* storage.New opens the database, creates schema_migrations if need be and
\* decides what to mark.
OpenDatabase ==
    /\ boot.at = "off"
    /\ boot' = [Off EXCEPT !.at = "mark",
                           !.todo = IF versions = {} /\ <<"proxy_routes", "table">> \in schema
                                    THEN Inferred ELSE {}]
    /\ UNCHANGED <<schema, versions, crashes, torn>>

First(set) == CHOOSE v \in set : \A w \in set : v <= w

\* One INSERT of bootstrapMigrations, in version order.
MarkApplied ==
    /\ boot.at = "mark" /\ boot.todo # {}
    /\ versions' = versions \cup {First(boot.todo)}
    /\ boot' = [boot EXCEPT !.todo = @ \ {First(@)}]
    /\ UNCHANGED <<schema, crashes, torn>>

\* The next file that is not recorded, or none.
NextFile ==
    /\ \/ boot.at = "mark" /\ boot.todo = {}
       \/ boot.at = "next"
    /\ LET left == Version \ versions
       IN  \/ /\ left = {}
              /\ boot' = [Off EXCEPT !.at = "migrated"] /\ crashes' = 0 /\ torn' = FALSE
           \/ /\ left # {}
              /\ boot' = [Off EXCEPT !.at = "exec", !.v = First(left), !.i = 1]
              /\ UNCHANGED <<crashes, torn>>
    /\ UNCHANGED <<schema, versions>>

\* One statement; New returns the error of one that the schema does not allow.
ExecStatement ==
    /\ boot.at = "exec" /\ boot.i <= Len(Script[boot.v])
    /\ LET st == Script[boot.v][boot.i]
       IN  IF Accepts(schema, st)
             THEN schema' = After(schema, st) /\ boot' = [boot EXCEPT !.i = @ + 1]
             ELSE boot' = [Off EXCEPT !.at = "failed"] /\ UNCHANGED schema
    /\ UNCHANGED <<versions, crashes, torn>>

\* Fault: a file is recorded before its last statement is run.
RecordVersion_Fault ==
    /\ boot.at = "exec" /\ boot.i >= Len(Script[boot.v])
    /\ versions' = versions \cup {boot.v}
    /\ boot' = IF boot.i > Len(Script[boot.v]) THEN [Off EXCEPT !.at = "next"] ELSE boot
    /\ UNCHANGED <<schema, crashes, torn>>

RecordVersion ==
    /\ boot.at = "exec" /\ boot.i > Len(Script[boot.v])
    /\ versions' = versions \cup {boot.v}
    /\ boot' = [Off EXCEPT !.at = "next"]
    /\ UNCHANGED <<schema, crashes, torn>>

Migrate == OpenDatabase \/ MarkApplied \/ NextFile \/ ExecStatement \/ RecordVersion

\* Whether a start that repeats the statements done so far would be refused,
\* or would take them for more than they are: a statement that is not
\* idempotent has been run, the first file has begun to create tables, or the
\* marks of an old database are incomplete.
Fragile ==
    \/ boot.at = "mark" /\ boot.todo # {} /\ versions # {}
    \/ /\ boot.at = "exec"
       /\ \/ boot.v = 1 /\ boot.i \in 2 .. 9
          \/ \E i \in 1 .. boot.i - 1 : Script[boot.v][i].op \in {"create", "add", "drop"}

\* The process ends while the database is opened, or later.
MigCrash ==
    /\ boot.at = "migrated" \/ crashes < MaxCrashes
    /\ crashes' = IF boot.at = "migrated" THEN crashes ELSE crashes + 1
    /\ torn' = (torn \/ Fragile)
    /\ boot' = Off
    /\ UNCHANGED <<schema, versions>>

\* A statement fails for another reason than the schema (the disk is full, the
\* file is locked): New returns the error, the process ends, and the database
\* is left as a crash leaves it.
StatementFails ==
    /\ \/ boot.at = "exec"
       \/ boot.at = "mark" /\ boot.todo # {}
    /\ MigCrash

-----------------------------------------------------------------------------
\* The types of the part of the state that is declared here.
MigTypeOK ==
    /\ schema \subseteq UNION {{Script[v][i].item : i \in DOMAIN Script[v]} : v \in Version}
    /\ versions \subseteq Version
    /\ boot.at \in {"off", "mark", "next", "exec", "migrated", "failed"}
    /\ boot.todo \subseteq Version /\ boot.v \in 0 .. Len(Script) /\ boot.i \in 0 .. 11
    /\ crashes \in 0 .. MaxCrashes /\ torn \in BOOLEAN

\* A database that runMigrations has accepted has every table and column of
\* the current schema and none that was dropped, whatever crashes, failing
\* statements and half applied files came before: a start may be refused, but the program never
\* runs on a schema it does not expect.
MigratedIsComplete == boot.at = "migrated" => schema = SchemaOf(Len(Script))

\* A database is refused for its schema only if some start before was cut off,
\* by a crash or by a statement that failed, inside a file that cannot be
\* repeated, inside the first one, or between the marks: every database of an
\* earlier release is migrated, a cut anywhere else does no harm, and once a
\* start has succeeded no later one is refused.
RefusedOnlyTorn == boot.at = "failed" => torn
=============================================================================

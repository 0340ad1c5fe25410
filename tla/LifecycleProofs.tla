-------------------------- MODULE LifecycleProofs ---------------------------
(***************************************************************************)
(* Proofs about Lifecycle, for any number of handlers, any capacity of the *)
(* access log queue and any number of crashes.                             *)
(*                                                                         *)
(* First the migrations. The files are a fixed text, so the first lemmas   *)
(* tabulate it: ScriptOrdered says what no statement of any file does      *)
(* wrong (an item is brought by one statement only, what is dropped was    *)
(* added by an earlier file). The rest uses the files through these lemmas *)
(* only.                                                                   *)
(*                                                                         *)
(* MigInv is what MigratedIsComplete needs. That every recorded file has   *)
(* been applied is not inductive: a file may be recorded because its       *)
(* marker column was found, and the first file because proxy_routes was    *)
(* found, which a crash may have left without the other tables. Then it is *)
(* the fourth file that cannot be run without the table of sessions.       *)
(*                                                                         *)
(* Whole is what RefusedOnlyTorn needs: until a crash cuts a step that     *)
(* cannot be repeated, nothing that is still to be created is there, and   *)
(* nothing that is still to be dropped is missing.                         *)
(*                                                                         *)
(* Then the process. What a shutdown may rely on is collected on the way   *)
(* to it: Early says what cannot have happened before the listeners open,  *)
(* Quiesced what has ended when nobody was left behind, Drain what the     *)
(* queue still holds.                                                      *)
(***************************************************************************)
EXTENDS Lifecycle, TLAPS

-----------------------------------------------------------------------------
(* The migrations                                                          *)

\* The statements of the files, and what they name.
Op(v, i)   == Script[v][i].op
Item(v, i) == Script[v][i].item
Stmts(v)   == DOMAIN Script[v]

\* The tables of the first file, and the columns that later files drop again.
FirstTables == {<<"proxy_routes", "table">>, <<"users", "table">>, <<"groups", "table">>,
                <<"user_groups", "table">>, <<"invites", "table">>, <<"sessions", "table">>}
Dropped == {<<"proxy_routes", "cookie_policy">>, <<"proxy_routes", "renew_on_access">>,
            <<"proxy_routes", "session_duration">>}

\* The column by which bootstrapMigrations recognises a file.
Marker(v) == <<"proxy_routes",
               <<"table", "allowed_groups", "allowed_ips", "ip_auth", "session_duration">>[v]>>

\* The statement that brings an item into the schema.
Origin(item) ==
    CASE item = <<"proxy_routes", "table">> -> <<1, 1>>
      [] item = <<"users", "table">> -> <<1, 5>>
      [] item = <<"groups", "table">> -> <<1, 6>>
      [] item = <<"user_groups", "table">> -> <<1, 7>>
      [] item = <<"invites", "table">> -> <<1, 8>>
      [] item = <<"sessions", "table">> -> <<1, 9>>
      [] item = <<"proxy_routes", "allowed_groups">> -> <<2, 1>>
      [] item = <<"proxy_routes", "cookie_policy">> -> <<2, 2>>
      [] item = <<"proxy_routes", "renew_on_access">> -> <<2, 3>>
      [] item = <<"proxy_routes", "allowed_ips">> -> <<3, 1>>
      [] item = <<"proxy_routes", "ip_auth">> -> <<4, 1>>
      [] item = <<"sessions", "client_ip">> -> <<4, 2>>
      [] item = <<"proxy_routes", "session_duration">> -> <<5, 1>>
      [] item = <<"auth_failures", "table">> -> <<6, 1>>
      [] item = <<"invites", "description">> -> <<7, 1>>
      [] item = <<"access_log", "table">> -> <<8, 1>>
      [] item = <<"settings", "table">> -> <<9, 1>>
      [] item = <<"proxy_routes", "persistent_login">> -> <<12, 2>>
      [] item = <<"proxy_routes", "range_group">> -> <<14, 1>>
      [] item = <<"proxy_routes", "require_login">> -> <<15, 1>>
      [] item = <<"throttle_policies", "table">> -> <<15, 2>>
      [] item = <<"banned_ips", "table">> -> <<15, 3>>
      [] OTHER -> <<0, 0>>

\* The statement that drops a column.
Fate(item) ==
    CASE item = <<"proxy_routes", "cookie_policy">> -> <<12, 1>>
      [] item = <<"proxy_routes", "renew_on_access">> -> <<13, 1>>
      [] item = <<"proxy_routes", "session_duration">> -> <<13, 2>>

\* What the files agree on: no two of them bring the same item, columns are
\* added to tables of the first file, columns are dropped once and by files
\* after the fifth, and a marker is brought by the file it stands for.
Orderly(v, i, op, item) ==
    /\ op \in {"ensure", "create", "add", "drop", "on"}
    /\ op \in {"ensure", "create", "add"} => Origin(item) = <<v, i>>
    /\ op \in {"ensure", "create", "on"} => Table(item) = item
    /\ op = "add" => Table(item) \in FirstTables /\ Table(item) # item
    /\ op = "drop" => v > 5 /\ item \in Dropped /\ Fate(item) = <<v, i>>
    /\ op # "drop" /\ item \in Dropped => v \in 2 .. 5 /\ op = "add"
    /\ v = 1 => op \in {"ensure", "on"} /\ item \in FirstTables
    /\ \A w \in 2 .. 5 : item = Marker(w) /\ op # "drop" => v = w
Ordered(v) == \A i \in Stmts(v) : Orderly(v, i, Op(v, i), Item(v, i))

-----------------------------------------------------------------------------
(* The invariants                                                          *)

\* What the first n statements of a file leave behind, and a whole file.
Done(v, n) == \A i \in 1 .. n : IF Op(v, i) = "drop" THEN Item(v, i) \notin schema
                                ELSE Item(v, i) \in schema \cup Dropped
Applied(v) == Done(v, Len(Script[v]))

MigType ==
    /\ schema \subseteq UNION {{Script[v][i].item : i \in DOMAIN Script[v]} : v \in Version}
    /\ versions \subseteq Version
    /\ boot \in [at : {"off", "mark", "next", "exec", "migrated", "failed"}, todo : SUBSET (1 .. 5),
                 v : 0 .. 15, i : 0 .. 11]
    /\ crashes \in 0 .. MaxCrashes /\ torn \in BOOLEAN

\* What is recorded, or about to be, has been applied. The first file is left
\* out: that proxy_routes is there says nothing of its other tables.
Recorded == \A v \in versions \ {1} : Applied(v)
Marking  == boot.at = "mark" => \A v \in boot.todo \ {1} : Applied(v)
Marked   == versions = {} => \A v \in 2 .. 5 : Marker(v) \in schema => Applied(v)

\* A file is run when all before it are recorded, and those that drop columns
\* come after those that add them.
Running ==
    boot.at = "exec" =>
        /\ boot.v \in Version \ versions
        /\ \A w \in Version : w < boot.v => w \in versions
        /\ boot.i \in 1 .. Len(Script[boot.v]) + 1
        /\ Done(boot.v, boot.i - 1)
OldFirst == \A v \in versions : v > 5 => 1 .. 5 \subseteq versions
Finished == boot.at = "migrated" => versions = Version

\* A column has its table, and the last table of the first file was not
\* created without the others.
Hosted == \A x \in schema : Table(x) \in schema
Tables == <<"sessions", "table">> \in schema => FirstTables \subseteq schema

MigInv == /\ MigType /\ Recorded /\ Marking /\ Marked /\ Running /\ OldFirst /\ Finished
          /\ Hosted /\ Tables

\* The files the next start, or the present one, will not run.
Known == IF boot.at = "mark" THEN versions \cup boot.todo
         ELSE IF boot.at = "off" /\ versions = {} THEN {v \in 2 .. 5 : Marker(v) \in schema}
         ELSE versions
Executed(v, i) == boot.at = "exec" /\ v = boot.v /\ i < boot.i

\* What is still to be created is not there, and what is still to be dropped is.
NotAhead ==
    \A v \in Version : \A i \in Stmts(v) :
        Op(v, i) \in {"create", "add"} /\ Item(v, i) \in schema => v \in Known \/ Executed(v, i)
Lost(x) == \E d \in Version : \E j \in Stmts(d) :
               Op(d, j) = "drop" /\ Item(d, j) = x /\ (d \in versions \/ Executed(d, j))
NotBehind ==
    \A v \in Version : \A i \in Stmts(v) :
        (v \in Known \/ Executed(v, i)) /\ Op(v, i) = "add" /\ Item(v, i) \in Dropped =>
            Item(v, i) \in schema \/ Lost(Item(v, i))

\* The first file is there as a whole, unless it is being run.
Begun == <<"proxy_routes", "table">> \in schema
FirstWhole == Begun => FirstTables \subseteq schema \/ (boot.at = "exec" /\ boot.v = 1 /\ boot.i > 1)
FirstRun   == boot.at = "exec" /\ boot.v = 1 => versions = {} /\ (boot.i = 1 => ~Begun)
HasFirst   == /\ versions # {} => 1 \in versions /\ Begun
              /\ boot.at = "next" => versions # {}
MarksAll   == boot.at = "mark" /\ versions = {} => boot.todo = IF Begun THEN Inferred ELSE {}

\* What holds of a database that no crash has cut at a bad point.
Whole == ~torn => /\ NotAhead /\ NotBehind /\ FirstWhole /\ FirstRun /\ HasFirst /\ MarksAll
                  /\ boot.at # "failed"

-----------------------------------------------------------------------------
(* The migration files                                                     *)

\* How many files and statements there are.
LEMMA Lengths ==
    /\ \A v : v \in Version <=> v \in 1 .. 15
    /\ \A v \in Version : /\ Len(Script[v]) \in 1 .. 10
                          /\ \A i : i \in Stmts(v) <=> i \in 1 .. Len(Script[v])
<1>1. Len(Script) = 15
  BY DEF Script
<1>2. /\ Len(Script[1]) = 10 /\ Len(Script[2]) = 3 /\ Len(Script[3]) = 1 /\ Len(Script[4]) = 3
      /\ Len(Script[5]) = 1 /\ Len(Script[6]) = 2 /\ Len(Script[7]) = 1 /\ Len(Script[8]) = 2
      /\ Len(Script[9]) = 2 /\ Len(Script[10]) = 1 /\ Len(Script[11]) = 1 /\ Len(Script[12]) = 2
      /\ Len(Script[13]) = 2 /\ Len(Script[14]) = 1 /\ Len(Script[15]) = 6
  BY DEF Script, InitialSchema, AccessControl, AllowedIps, IpSessionAuth, SessionDuration, Metrics,
         InviteDescription, AccessLog, Settings, NormalizeClientIp, CleanupOrphans, CookieSettings,
         DropRouteSessionFields, RouteRangeGroup, ThrottleBansRequireLogin
<1>3. /\ DOMAIN Script[1] = 1 .. 10 /\ DOMAIN Script[2] = 1 .. 3 /\ DOMAIN Script[3] = 1 .. 1
      /\ DOMAIN Script[4] = 1 .. 3 /\ DOMAIN Script[5] = 1 .. 1 /\ DOMAIN Script[6] = 1 .. 2
      /\ DOMAIN Script[7] = 1 .. 1 /\ DOMAIN Script[8] = 1 .. 2 /\ DOMAIN Script[9] = 1 .. 2
      /\ DOMAIN Script[10] = 1 .. 1 /\ DOMAIN Script[11] = 1 .. 1 /\ DOMAIN Script[12] = 1 .. 2
      /\ DOMAIN Script[13] = 1 .. 2 /\ DOMAIN Script[14] = 1 .. 1 /\ DOMAIN Script[15] = 1 .. 6
  BY DEF Script, InitialSchema, AccessControl, AllowedIps, IpSessionAuth, SessionDuration, Metrics,
         InviteDescription, AccessLog, Settings, NormalizeClientIp, CleanupOrphans, CookieSettings,
         DropRouteSessionFields, RouteRangeGroup, ThrottleBansRequireLogin
<1>4. \A v : v \in Version <=> v \in 1 .. 15
  BY <1>1 DEF Version
<1>5. ASSUME NEW v \in Version
      PROVE  Len(Script[v]) \in 1 .. 10 /\ \A i : i \in Stmts(v) <=> i \in 1 .. Len(Script[v])
  <2>1. v \in 1 .. 15
    BY <1>4
  <2>2. Len(Script[v]) \in 1 .. 10
    BY <1>2, <2>1
  <2>3. DOMAIN Script[v] = 1 .. Len(Script[v])
    BY <1>2, <1>3, <2>1
  <2> QED BY <2>2, <2>3 DEF Stmts
<1> QED BY <1>4, <1>5

\* The statements the proofs refer to by their place.
LEMMA Landmarks ==
    /\ Item(1, 1) = <<"proxy_routes", "table">> /\ Item(1, 5) = <<"users", "table">>
    /\ Item(1, 6) = <<"groups", "table">> /\ Item(1, 7) = <<"user_groups", "table">>
    /\ Item(1, 8) = <<"invites", "table">> /\ Item(1, 9) = <<"sessions", "table">>
    /\ Item(4, 2) = <<"sessions", "client_ip">> /\ Op(4, 2) = "add"
    /\ Op(12, 1) = "drop" /\ Item(12, 1) = <<"proxy_routes", "cookie_policy">>
    /\ Op(13, 1) = "drop" /\ Item(13, 1) = <<"proxy_routes", "renew_on_access">>
    /\ Op(13, 2) = "drop" /\ Item(13, 2) = <<"proxy_routes", "session_duration">>
    /\ Len(Script[1]) = 10 /\ Len(Script[4]) = 3 /\ Len(Script[12]) = 2 /\ Len(Script[13]) = 2
  BY DEF Op, Item, Script, InitialSchema, IpSessionAuth, CookieSettings, DropRouteSessionFields,
         Stmt, Ensure, On, Add, Drop

\* First chooses what it says.
LEMMA FirstLeast ==
    ASSUME NEW S, S \subseteq Version, S # {}
    PROVE  First(S) \in S /\ \A w \in S : First(S) <= w
<1>1. S \subseteq 1 .. 15
  BY Lengths
<1>2. \E v \in S : \A w \in S : v <= w
  <2> SUFFICES ASSUME \A v \in S : \E w \in S : w < v PROVE FALSE
    BY <1>1
  <2>1. 1 \notin S /\ 2 \notin S /\ 3 \notin S /\ 4 \notin S /\ 5 \notin S
    BY <1>1
  <2>2. 6 \notin S /\ 7 \notin S /\ 8 \notin S /\ 9 \notin S /\ 10 \notin S
    BY <1>1, <2>1
  <2>3. 11 \notin S /\ 12 \notin S /\ 13 \notin S /\ 14 \notin S /\ 15 \notin S
    BY <1>1, <2>1, <2>2
  <2>4. PICK x \in S : TRUE
    OBVIOUS
  <2> QED BY <1>1, <2>1, <2>2, <2>3, <2>4
<1> QED BY <1>2 DEF First

\* The files are orderly, statement by statement.
LEMMA ScriptOrdered == \A v \in Version : Ordered(v)
<1>1. Ordered(1)
  <2>1. Stmts(1) = 1 .. 10
    BY DEF Stmts, Script, InitialSchema
  <2>2. Orderly(1, 1, Op(1, 1), Item(1, 1))
    BY DEF Op, Item, Script, InitialSchema, Stmt, Ensure, On,
           Orderly, Dropped, FirstTables, Origin, Fate, Table, Marker
  <2>3. Orderly(1, 2, Op(1, 2), Item(1, 2))
    BY DEF Op, Item, Script, InitialSchema, Stmt, Ensure, On,
           Orderly, Dropped, FirstTables, Origin, Fate, Table, Marker
  <2>4. Orderly(1, 3, Op(1, 3), Item(1, 3))
    BY DEF Op, Item, Script, InitialSchema, Stmt, Ensure, On,
           Orderly, Dropped, FirstTables, Origin, Fate, Table, Marker
  <2>5. Orderly(1, 4, Op(1, 4), Item(1, 4))
    BY DEF Op, Item, Script, InitialSchema, Stmt, Ensure, On,
           Orderly, Dropped, FirstTables, Origin, Fate, Table, Marker
  <2>6. Orderly(1, 5, Op(1, 5), Item(1, 5))
    BY DEF Op, Item, Script, InitialSchema, Stmt, Ensure, On,
           Orderly, Dropped, FirstTables, Origin, Fate, Table, Marker
  <2>7. Orderly(1, 6, Op(1, 6), Item(1, 6))
    BY DEF Op, Item, Script, InitialSchema, Stmt, Ensure, On,
           Orderly, Dropped, FirstTables, Origin, Fate, Table, Marker
  <2>8. Orderly(1, 7, Op(1, 7), Item(1, 7))
    BY DEF Op, Item, Script, InitialSchema, Stmt, Ensure, On,
           Orderly, Dropped, FirstTables, Origin, Fate, Table, Marker
  <2>9. Orderly(1, 8, Op(1, 8), Item(1, 8))
    BY DEF Op, Item, Script, InitialSchema, Stmt, Ensure, On,
           Orderly, Dropped, FirstTables, Origin, Fate, Table, Marker
  <2>10. Orderly(1, 9, Op(1, 9), Item(1, 9))
    BY DEF Op, Item, Script, InitialSchema, Stmt, Ensure, On,
           Orderly, Dropped, FirstTables, Origin, Fate, Table, Marker
  <2>11. Orderly(1, 10, Op(1, 10), Item(1, 10))
    BY DEF Op, Item, Script, InitialSchema, Stmt, Ensure, On,
           Orderly, Dropped, FirstTables, Origin, Fate, Table, Marker
  <2> QED BY <2>1, <2>2, <2>3, <2>4, <2>5, <2>6, <2>7, <2>8, <2>9, <2>10, <2>11 DEF Ordered
<1>2. Ordered(2)
  <2>1. Stmts(2) = 1 .. 3
    BY DEF Stmts, Script, AccessControl
  <2>2. Orderly(2, 1, Op(2, 1), Item(2, 1))
    BY DEF Op, Item, Script, AccessControl, Stmt, Add,
           Orderly, Dropped, FirstTables, Origin, Fate, Table, Marker
  <2>3. Orderly(2, 2, Op(2, 2), Item(2, 2))
    BY DEF Op, Item, Script, AccessControl, Stmt, Add,
           Orderly, Dropped, FirstTables, Origin, Fate, Table, Marker
  <2>4. Orderly(2, 3, Op(2, 3), Item(2, 3))
    BY DEF Op, Item, Script, AccessControl, Stmt, Add,
           Orderly, Dropped, FirstTables, Origin, Fate, Table, Marker
  <2> QED BY <2>1, <2>2, <2>3, <2>4 DEF Ordered
<1>3. Ordered(3)
  <2>1. Stmts(3) = 1 .. 1
    BY DEF Stmts, Script, AllowedIps
  <2>2. Orderly(3, 1, Op(3, 1), Item(3, 1))
    BY DEF Op, Item, Script, AllowedIps, Stmt, Add,
           Orderly, Dropped, FirstTables, Origin, Fate, Table, Marker
  <2> QED BY <2>1, <2>2 DEF Ordered
<1>4. Ordered(4)
  <2>1. Stmts(4) = 1 .. 3
    BY DEF Stmts, Script, IpSessionAuth
  <2>2. Orderly(4, 1, Op(4, 1), Item(4, 1))
    BY DEF Op, Item, Script, IpSessionAuth, Stmt, Add, On,
           Orderly, Dropped, FirstTables, Origin, Fate, Table, Marker
  <2>3. Orderly(4, 2, Op(4, 2), Item(4, 2))
    BY DEF Op, Item, Script, IpSessionAuth, Stmt, Add, On,
           Orderly, Dropped, FirstTables, Origin, Fate, Table, Marker
  <2>4. Orderly(4, 3, Op(4, 3), Item(4, 3))
    BY DEF Op, Item, Script, IpSessionAuth, Stmt, Add, On,
           Orderly, Dropped, FirstTables, Origin, Fate, Table, Marker
  <2> QED BY <2>1, <2>2, <2>3, <2>4 DEF Ordered
<1>5. Ordered(5)
  <2>1. Stmts(5) = 1 .. 1
    BY DEF Stmts, Script, SessionDuration
  <2>2. Orderly(5, 1, Op(5, 1), Item(5, 1))
    BY DEF Op, Item, Script, SessionDuration, Stmt, Add,
           Orderly, Dropped, FirstTables, Origin, Fate, Table, Marker
  <2> QED BY <2>1, <2>2 DEF Ordered
<1>6. Ordered(6)
  <2>1. Stmts(6) = 1 .. 2
    BY DEF Stmts, Script, Metrics
  <2>2. Orderly(6, 1, Op(6, 1), Item(6, 1))
    BY DEF Op, Item, Script, Metrics, Stmt, Create, On,
           Orderly, Dropped, FirstTables, Origin, Fate, Table, Marker
  <2>3. Orderly(6, 2, Op(6, 2), Item(6, 2))
    BY DEF Op, Item, Script, Metrics, Stmt, Create, On,
           Orderly, Dropped, FirstTables, Origin, Fate, Table, Marker
  <2> QED BY <2>1, <2>2, <2>3 DEF Ordered
<1>7. Ordered(7)
  <2>1. Stmts(7) = 1 .. 1
    BY DEF Stmts, Script, InviteDescription
  <2>2. Orderly(7, 1, Op(7, 1), Item(7, 1))
    BY DEF Op, Item, Script, InviteDescription, Stmt, Add,
           Orderly, Dropped, FirstTables, Origin, Fate, Table, Marker
  <2> QED BY <2>1, <2>2 DEF Ordered
<1>8. Ordered(8)
  <2>1. Stmts(8) = 1 .. 2
    BY DEF Stmts, Script, AccessLog
  <2>2. Orderly(8, 1, Op(8, 1), Item(8, 1))
    BY DEF Op, Item, Script, AccessLog, Stmt, Create, On,
           Orderly, Dropped, FirstTables, Origin, Fate, Table, Marker
  <2>3. Orderly(8, 2, Op(8, 2), Item(8, 2))
    BY DEF Op, Item, Script, AccessLog, Stmt, Create, On,
           Orderly, Dropped, FirstTables, Origin, Fate, Table, Marker
  <2> QED BY <2>1, <2>2, <2>3 DEF Ordered
<1>9. Ordered(9)
  <2>1. Stmts(9) = 1 .. 2
    BY DEF Stmts, Script, Settings
  <2>2. Orderly(9, 1, Op(9, 1), Item(9, 1))
    BY DEF Op, Item, Script, Settings, Stmt, Ensure, On,
           Orderly, Dropped, FirstTables, Origin, Fate, Table, Marker
  <2>3. Orderly(9, 2, Op(9, 2), Item(9, 2))
    BY DEF Op, Item, Script, Settings, Stmt, Ensure, On,
           Orderly, Dropped, FirstTables, Origin, Fate, Table, Marker
  <2> QED BY <2>1, <2>2, <2>3 DEF Ordered
<1>10. Ordered(10)
  <2>1. Stmts(10) = 1 .. 1
    BY DEF Stmts, Script, NormalizeClientIp
  <2>2. Orderly(10, 1, Op(10, 1), Item(10, 1))
    BY DEF Op, Item, Script, NormalizeClientIp, Stmt, On,
           Orderly, Dropped, FirstTables, Origin, Fate, Table, Marker
  <2> QED BY <2>1, <2>2 DEF Ordered
<1>11. Ordered(11)
  <2>1. Stmts(11) = 1 .. 1
    BY DEF Stmts, Script, CleanupOrphans
  <2>2. Orderly(11, 1, Op(11, 1), Item(11, 1))
    BY DEF Op, Item, Script, CleanupOrphans, Stmt, On,
           Orderly, Dropped, FirstTables, Origin, Fate, Table, Marker
  <2> QED BY <2>1, <2>2 DEF Ordered
<1>12. Ordered(12)
  <2>1. Stmts(12) = 1 .. 2
    BY DEF Stmts, Script, CookieSettings
  <2>2. Orderly(12, 1, Op(12, 1), Item(12, 1))
    BY DEF Op, Item, Script, CookieSettings, Stmt, Add, Drop,
           Orderly, Dropped, FirstTables, Origin, Fate, Table, Marker
  <2>3. Orderly(12, 2, Op(12, 2), Item(12, 2))
    BY DEF Op, Item, Script, CookieSettings, Stmt, Add, Drop,
           Orderly, Dropped, FirstTables, Origin, Fate, Table, Marker
  <2> QED BY <2>1, <2>2, <2>3 DEF Ordered
<1>13. Ordered(13)
  <2>1. Stmts(13) = 1 .. 2
    BY DEF Stmts, Script, DropRouteSessionFields
  <2>2. Orderly(13, 1, Op(13, 1), Item(13, 1))
    BY DEF Op, Item, Script, DropRouteSessionFields, Stmt, Drop,
           Orderly, Dropped, FirstTables, Origin, Fate, Table, Marker
  <2>3. Orderly(13, 2, Op(13, 2), Item(13, 2))
    BY DEF Op, Item, Script, DropRouteSessionFields, Stmt, Drop,
           Orderly, Dropped, FirstTables, Origin, Fate, Table, Marker
  <2> QED BY <2>1, <2>2, <2>3 DEF Ordered
<1>14. Ordered(14)
  <2>1. Stmts(14) = 1 .. 1
    BY DEF Stmts, Script, RouteRangeGroup
  <2>2. Orderly(14, 1, Op(14, 1), Item(14, 1))
    BY DEF Op, Item, Script, RouteRangeGroup, Stmt, Add,
           Orderly, Dropped, FirstTables, Origin, Fate, Table, Marker
  <2> QED BY <2>1, <2>2 DEF Ordered
<1>15. Ordered(15)
  <2>1. Stmts(15) = 1 .. 6
    BY DEF Stmts, Script, ThrottleBansRequireLogin
  <2>2. Orderly(15, 1, Op(15, 1), Item(15, 1))
    BY DEF Op, Item, Script, ThrottleBansRequireLogin, Stmt, Add, Ensure, On,
           Orderly, Dropped, FirstTables, Origin, Fate, Table, Marker
  <2>3. Orderly(15, 2, Op(15, 2), Item(15, 2))
    BY DEF Op, Item, Script, ThrottleBansRequireLogin, Stmt, Add, Ensure, On,
           Orderly, Dropped, FirstTables, Origin, Fate, Table, Marker
  <2>4. Orderly(15, 3, Op(15, 3), Item(15, 3))
    BY DEF Op, Item, Script, ThrottleBansRequireLogin, Stmt, Add, Ensure, On,
           Orderly, Dropped, FirstTables, Origin, Fate, Table, Marker
  <2>5. Orderly(15, 4, Op(15, 4), Item(15, 4))
    BY DEF Op, Item, Script, ThrottleBansRequireLogin, Stmt, Add, Ensure, On,
           Orderly, Dropped, FirstTables, Origin, Fate, Table, Marker
  <2>6. Orderly(15, 5, Op(15, 5), Item(15, 5))
    BY DEF Op, Item, Script, ThrottleBansRequireLogin, Stmt, Add, Ensure, On,
           Orderly, Dropped, FirstTables, Origin, Fate, Table, Marker
  <2>7. Orderly(15, 6, Op(15, 6), Item(15, 6))
    BY DEF Op, Item, Script, ThrottleBansRequireLogin, Stmt, Add, Ensure, On,
           Orderly, Dropped, FirstTables, Origin, Fate, Table, Marker
  <2> QED BY <2>1, <2>2, <2>3, <2>4, <2>5, <2>6, <2>7 DEF Ordered
<1>16. \A v \in Version : v \in 1 .. 15
  BY Lengths
<1> QED BY <1>16, <1>1, <1>2, <1>3, <1>4, <1>5, <1>6, <1>7, <1>8, <1>9, <1>10, <1>11, <1>12,
           <1>13, <1>14, <1>15

\* An index, a trigger or a change of rows is on a table of the first file or
\* on one that its own file has created before.
LEMMA OnHosted ==
    \A v \in Version, i \in Nat : i \in Stmts(v) /\ Op(v, i) = "on" =>
        \/ v # 1 /\ Item(v, i) \in FirstTables
        \/ \E j \in 1 .. i - 1 : Op(v, j) \in {"ensure", "create"} /\ Item(v, j) = Item(v, i)
<1> SUFFICES ASSUME NEW v \in Version, NEW i \in Nat, i \in Stmts(v), Op(v, i) = "on"
             PROVE  \/ v # 1 /\ Item(v, i) \in FirstTables
                    \/ \E j \in 1 .. i - 1 :
                          Op(v, j) \in {"ensure", "create"} /\ Item(v, j) = Item(v, i)
  OBVIOUS
<1>1. CASE v = 1
  <2>1. /\ Op(1, 1) = "ensure" /\ Item(1, 1) = Item(1, 2)
        /\ Item(1, 1) = Item(1, 3) /\ Item(1, 1) = Item(1, 4)
    BY DEF Op, Item, Script, InitialSchema, Stmt, Ensure, On
  <2>2. Op(1, 9) = "ensure" /\ Item(1, 10) = Item(1, 9)
    BY DEF Op, Item, Script, InitialSchema, Stmt, Ensure, On
  <2>3. Op(1, 5) = "ensure" /\ Op(1, 6) = "ensure" /\ Op(1, 7) = "ensure" /\ Op(1, 8) = "ensure"
    BY DEF Op, Item, Script, InitialSchema, Stmt, Ensure, On
  <2>4. i \in 1 .. 10
    BY <1>1, Lengths, Landmarks
  <2> QED BY <1>1, <2>1, <2>2, <2>3, <2>4
<1>2. CASE v \in {6, 8, 9}
  <2>1. /\ Op(6, 1) = "create" /\ Item(6, 1) = Item(6, 2)
        /\ Op(8, 1) = "create" /\ Item(8, 1) = Item(8, 2)
        /\ Op(9, 1) = "ensure" /\ Item(9, 1) = Item(9, 2)
    BY DEF Op, Item, Script, Metrics, AccessLog, Settings, Stmt, Create, Ensure, On
  <2>2. i \in 1 .. 2
    BY <1>2 DEF Stmts, Script, Metrics, AccessLog, Settings
  <2> QED BY <1>2, <2>1, <2>2
<1>3. CASE v = 15
  <2>1. /\ Op(15, 1) = "add" /\ Op(15, 2) = "ensure" /\ Op(15, 3) = "ensure"
        /\ Item(15, 4) = Item(15, 3) /\ Item(15, 5) = Item(15, 2) /\ Item(15, 6) = Item(15, 2)
    BY DEF Op, Item, Script, ThrottleBansRequireLogin, Stmt, Add, Ensure, On
  <2>2. i \in 1 .. 6
    BY <1>3 DEF Stmts, Script, ThrottleBansRequireLogin
  <2> QED BY <1>3, <2>1, <2>2
<1>4. CASE v \in {2, 3, 4, 5, 7, 10, 11, 12, 13, 14}
  <2>1. /\ \A k \in Stmts(2) : Op(2, k) # "on"
        /\ \A k \in Stmts(3) : Op(3, k) # "on"
        /\ \A k \in Stmts(5) : Op(5, k) # "on"
        /\ \A k \in Stmts(7) : Op(7, k) # "on"
    BY DEF Stmts, Op, Script, AccessControl, AllowedIps, SessionDuration, InviteDescription, Stmt, Add
  <2>2. /\ \A k \in Stmts(12) : Op(12, k) # "on"
        /\ \A k \in Stmts(13) : Op(13, k) # "on"
        /\ \A k \in Stmts(14) : Op(14, k) # "on"
    BY DEF Stmts, Op, Script, CookieSettings, DropRouteSessionFields, RouteRangeGroup, Stmt, Add, Drop
  <2>3. /\ \A k \in Stmts(4) : Op(4, k) = "on" => Item(4, k) \in FirstTables
        /\ \A k \in Stmts(10) : Item(10, k) \in FirstTables
        /\ \A k \in Stmts(11) : Item(11, k) \in FirstTables
    BY DEF Stmts, Op, Item, Script, IpSessionAuth, NormalizeClientIp, CleanupOrphans, Stmt, Add, On,
           FirstTables
  <2> QED BY <1>4, <2>1, <2>2, <2>3
<1> QED BY <1>1, <1>2, <1>3, <1>4, Lengths

\* ExecStatement in terms of Op and Item.
LEMMA ExecCases ==
    ASSUME ExecStatement, MigType, Running
    PROVE  LET op == Op(boot.v, boot.i)
               x  == Item(boot.v, boot.i)
           IN  /\ boot.at = "exec" /\ boot.v \in Version /\ boot.i \in Stmts(boot.v)
               /\ UNCHANGED <<versions, crashes, torn>>
               /\ \/ /\ op = "create" => x \notin schema
                     /\ op = "add" => Table(x) \in schema /\ x \notin schema
                     /\ op \in {"drop", "on"} => x \in schema
                     /\ schema' = IF op = "drop" THEN schema \ {x} ELSE schema \cup {x}
                     /\ boot' = [boot EXCEPT !.i = @ + 1]
                  \/ /\ boot' = [Off EXCEPT !.at = "failed"] /\ UNCHANGED schema
                     /\ \/ op = "create" /\ x \in schema
                        \/ op = "add" /\ (Table(x) \notin schema \/ x \in schema)
                        \/ op \in {"drop", "on"} /\ x \notin schema
<1>1. boot.at = "exec" /\ boot.v \in Version /\ boot.i \in Stmts(boot.v)
  <2>1. boot.at = "exec" /\ boot.v \in Version /\ boot.i \in 1 .. Len(Script[boot.v]) + 1
    BY DEF ExecStatement, Running
  <2>2. /\ Len(Script[boot.v]) \in 1 .. 10
        /\ \A i : i \in Stmts(boot.v) <=> i \in 1 .. Len(Script[boot.v])
    BY <2>1, Lengths
  <2> QED BY <2>1, <2>2 DEF ExecStatement
<1>2. Op(boot.v, boot.i) \in {"ensure", "create", "add", "drop", "on"}
  BY <1>1, ScriptOrdered DEF Ordered, Orderly
<1>3. CASE Accepts(schema, Script[boot.v][boot.i])
  BY <1>1, <1>2, <1>3 DEF ExecStatement, Accepts, After, Op, Item
<1>4. CASE ~Accepts(schema, Script[boot.v][boot.i])
  BY <1>1, <1>2, <1>4 DEF ExecStatement, Accepts, Op, Item
<1> QED BY <1>3, <1>4

\* The first statement of the files 2 to 5 adds their marker, and what is
\* dropped later was added by one of them.
LEMMA Brought ==
    /\ \A v \in 2 .. 5 : v \in Version /\ 1 \in Stmts(v) /\ Op(v, 1) = "add" /\ Item(v, 1) = Marker(v)
    /\ \A x \in Dropped : \E v \in 2 .. 5 :
          v \in Version /\ \E i \in Stmts(v) : Op(v, i) = "add" /\ Item(v, i) = x
<1>1. /\ Op(2, 1) = "add" /\ Item(2, 1) = Marker(2) /\ Op(3, 1) = "add" /\ Item(3, 1) = Marker(3)
      /\ Op(4, 1) = "add" /\ Item(4, 1) = Marker(4) /\ Op(5, 1) = "add" /\ Item(5, 1) = Marker(5)
  BY DEF Op, Item, Script, AccessControl, AllowedIps, IpSessionAuth, SessionDuration, Stmt, Add, On,
         Marker
<1>2. /\ Op(2, 2) = "add" /\ Item(2, 2) = <<"proxy_routes", "cookie_policy">>
      /\ Op(2, 3) = "add" /\ Item(2, 3) = <<"proxy_routes", "renew_on_access">>
      /\ Op(5, 1) = "add" /\ Item(5, 1) = <<"proxy_routes", "session_duration">>
  BY DEF Op, Item, Script, AccessControl, SessionDuration, Stmt, Add
<1>3. \A v \in 2 .. 5 : v \in Version /\ 1 \in Stmts(v)
  <2>1. \A v \in 2 .. 5 : v \in Version
    BY Lengths
  <2>2. ASSUME NEW v \in 2 .. 5 PROVE 1 \in Stmts(v)
    <3>1. PICK n : n = Len(Script[v])
      OBVIOUS
    <3>2. n \in 1 .. 10 /\ \A i : i \in Stmts(v) <=> i \in 1 .. n
      BY <2>1, <3>1, Lengths
    <3> QED BY <3>2
  <2> QED BY <2>1, <2>2
<1>4. 2 \in Stmts(2) /\ 3 \in Stmts(2)
  BY DEF Stmts, Script, AccessControl
<1>5. ASSUME NEW v \in 2 .. 5 PROVE Op(v, 1) = "add" /\ Item(v, 1) = Marker(v)
  BY <1>1
<1>6. ASSUME NEW x \in Dropped
      PROVE \E v \in 2 .. 5 : v \in Version /\ \E i \in Stmts(v) : Op(v, i) = "add" /\ Item(v, i) = x
  BY <1>2, <1>3, <1>4 DEF Dropped
<1> QED BY <1>3, <1>5, <1>6

\* Tables of the first file are not dropped, nor brought by another file.
LEMMA TablesApart == /\ FirstTables \cap Dropped = {} /\ <<"proxy_routes", "table">> \in FirstTables
                     /\ \A x \in Dropped : Table(x) # x
                     /\ \A x \in FirstTables : Origin(x)[1] = 1
                     /\ \A v \in 2 .. 5 : Table(Marker(v)) = <<"proxy_routes", "table">>
<1>1. FirstTables \cap Dropped = {} /\ <<"proxy_routes", "table">> \in FirstTables
  BY DEF FirstTables, Dropped
<1>2. \A x \in Dropped : Table(x) # x
  BY DEF Table, Dropped
<1>3. \A x \in FirstTables : Origin(x)[1] = 1
  BY DEF FirstTables, Origin
<1>4. \A v \in 2 .. 5 : Table(Marker(v)) = <<"proxy_routes", "table">>
  BY DEF Table, Marker
<1> QED BY <1>1, <1>2, <1>3, <1>4

\* What the first k files lead to, statement by statement.
LEMMA InSchemaOf ==
    ASSUME NEW k, NEW x
    PROVE  x \in SchemaOf(k) <=>
             /\ \E v \in 1 .. k : \E i \in Stmts(v) : Item(v, i) = x
             /\ ~\E v \in 1 .. k : \E i \in Stmts(v) : Op(v, i) = "drop" /\ Item(v, i) = x
<1> DEFINE done == UNION {{Script[v][i] : i \in DOMAIN Script[v]} : v \in 1 .. k}
<1>1. SchemaOf(k) = {st.item : st \in done} \ {st.item : st \in {d \in done : d.op = "drop"}}
  BY DEF SchemaOf
<1>2. \A st : st \in done <=> \E v \in 1 .. k : \E i \in Stmts(v) : st = Script[v][i]
  BY DEF Stmts
<1> HIDE DEF done
<1>3. x \in {st.item : st \in done} <=> \E v \in 1 .. k : \E i \in Stmts(v) : Item(v, i) = x
  BY <1>2 DEF Item
<1>4. x \in {st.item : st \in {d \in done : d.op = "drop"}} <=>
        \E v \in 1 .. k : \E i \in Stmts(v) : Op(v, i) = "drop" /\ Item(v, i) = x
  BY <1>2 DEF Item, Op
<1> QED BY <1>1, <1>3, <1>4

-----------------------------------------------------------------------------
(* Recorded files have been applied                                        *)

\* Each step of storage.New keeps MigInv: bootstrapMigrations decides, ...
LEMMA OpenKeeps == MigInv /\ OpenDatabase => MigInv'
<1> SUFFICES ASSUME MigInv, OpenDatabase PROVE MigInv'
  OBVIOUS
<1> DEFINE td == IF versions = {} /\ <<"proxy_routes", "table">> \in schema THEN Inferred ELSE {}
<1>1. boot' = [at |-> "mark", todo |-> td, v |-> 0, i |-> 0]
  BY DEF OpenDatabase, Off
<1>2. td \subseteq 1 .. 5 /\ \A v \in td \ {1} : versions = {} /\ v \in 2 .. 5 /\ Marker(v) \in schema
  BY DEF Inferred, columnExists, Marker
<1> HIDE DEF td
<1>3. UNCHANGED <<schema, versions, crashes, torn>>
  BY DEF OpenDatabase
<1>4. MigType'
  BY <1>1, <1>2, <1>3 DEF MigInv, MigType
<1>5. Marking'
  BY <1>1, <1>2, <1>3 DEF MigInv, Marked, Marking, Applied, Done
<1>6. Running' /\ Finished'
  BY <1>1 DEF Running, Finished
<1> QED BY <1>3, <1>4, <1>5, <1>6 DEF MigInv, Recorded, Marked, OldFirst, Hosted, Tables, Applied, Done

\* ... marks a version, ...
LEMMA MarkKeeps == MigInv /\ MarkApplied => MigInv'
<1> SUFFICES ASSUME MigInv, MarkApplied PROVE MigInv'
  OBVIOUS
<1> DEFINE f == First(boot.todo)
<1>1. boot.todo \subseteq Version /\ boot.todo \subseteq 1 .. 5 /\ boot.todo # {}
  BY Lengths DEF MigInv, MigType, MarkApplied
<1>2. f \in boot.todo
  BY <1>1, FirstLeast
<1>3. /\ boot' = [boot EXCEPT !.todo = boot.todo \ {f}] /\ boot.at = "mark"
      /\ versions' = versions \cup {f} /\ UNCHANGED <<schema, crashes, torn>>
  BY DEF MarkApplied
<1> HIDE DEF f
<1>4. MigType'
  BY <1>1, <1>2, <1>3 DEF MigInv, MigType
<1>5. Recorded' /\ Marking'
  BY <1>2, <1>3 DEF MigInv, MigType, Recorded, Marking, Applied, Done
<1>6. Running' /\ Finished' /\ Marked' /\ OldFirst'
  BY <1>1, <1>2, <1>3 DEF MigInv, MigType, Running, Finished, Marked, OldFirst
<1> QED BY <1>3, <1>4, <1>5, <1>6 DEF MigInv, Hosted, Tables

\* ... runMigrations takes the next file, ...
LEMMA NextKeeps == MigInv /\ NextFile => MigInv'
<1> SUFFICES ASSUME MigInv, NextFile PROVE MigInv'
  OBVIOUS
<1>1. UNCHANGED <<schema, versions>>
  BY DEF NextFile
<1>2. CASE Version \ versions = {}
  <2>1. /\ boot' = [at |-> "migrated", todo |-> {}, v |-> 0, i |-> 0]
        /\ crashes' = 0 /\ torn' = FALSE
    BY <1>2 DEF NextFile, Off
  <2>2. /\ boot' \in [at : {"off", "mark", "next", "exec", "migrated", "failed"},
                       todo : SUBSET (1 .. 5), v : 0 .. 15, i : 0 .. 11]
        /\ crashes' \in 0 .. MaxCrashes
    BY <2>1, MigrationsAssumption
  <2>3. torn' \in BOOLEAN
    BY <2>1
  <2>4. MigType'
    BY <1>1, <2>2, <2>3 DEF MigInv, MigType
  <2> QED BY <1>1, <1>2, <2>1, <2>4 DEF MigInv, MigType, Recorded, Marking, Marked, Running, OldFirst,
             Finished, Hosted, Tables, Applied, Done
<1>3. CASE Version \ versions # {}
  <2> DEFINE f == First(Version \ versions)
  <2>1. f \in Version \ versions /\ \A w \in Version \ versions : f <= w
    BY <1>3, FirstLeast
  <2>2. /\ boot' = [at |-> "exec", todo |-> {}, v |-> f, i |-> 1]
        /\ UNCHANGED <<crashes, torn>>
    BY <1>3 DEF NextFile, Off
  <2> HIDE DEF f
  <2>3. f \in 1 .. 15 /\ Len(Script[f]) \in 1 .. 10
    BY <2>1, Lengths
  <2>4. MigType'
    BY <1>1, <2>2, <2>3 DEF MigInv, MigType
  <2>5. Running'
    BY <1>1, <2>1, <2>2, <2>3, Lengths DEF Running, Done
  <2>6. Marking' /\ Finished'
    BY <2>2 DEF Marking, Finished
  <2> QED BY <1>1, <2>4, <2>5, <2>6
          DEF MigInv, Recorded, Marked, OldFirst, Hosted, Tables, Applied, Done
<1> QED BY <1>2, <1>3

\* ... records one that has been run, ...
LEMMA RecordKeeps == MigInv /\ RecordVersion => MigInv'
<1> SUFFICES ASSUME MigInv, RecordVersion PROVE MigInv'
  OBVIOUS
<1>1. /\ boot' = [at |-> "next", todo |-> {}, v |-> 0, i |-> 0] /\ versions' = versions \cup {boot.v}
      /\ UNCHANGED <<schema, crashes, torn>> /\ boot.at = "exec" /\ boot.i > Len(Script[boot.v])
  BY DEF RecordVersion, Off
<1>2. /\ boot.v \in Version /\ boot.v \in 1 .. 15 /\ \A w \in Version : w < boot.v => w \in versions
      /\ boot.i \in 1 .. Len(Script[boot.v]) + 1 /\ Done(boot.v, boot.i - 1)
  BY <1>1, Lengths DEF MigInv, Running
<1>3. boot.i - 1 = Len(Script[boot.v])
  BY <1>1, <1>2, Lengths
<1>4. Applied(boot.v)
  BY <1>2, <1>3 DEF Applied
<1>5. MigType'
  BY <1>1, <1>2 DEF MigInv, MigType
<1>6. Recorded'
  BY <1>1, <1>4 DEF MigInv, Recorded, Applied, Done
<1>7. OldFirst'
  <2>1. 1 .. 5 \subseteq Version
    BY Lengths
  <2>2. boot.v > 5 => 1 .. 5 \subseteq versions
    BY <1>2, <2>1
  <2> QED BY <1>1, <2>2 DEF MigInv, OldFirst
<1>8. Marking' /\ Running' /\ Finished' /\ Marked'
  BY <1>1 DEF Marking, Running, Finished, Marked
<1> QED BY <1>1, <1>5, <1>6, <1>7, <1>8 DEF MigInv, Hosted, Tables

\* ... and executes a statement.
LEMMA ExecKeeps == MigInv /\ ExecStatement => MigInv'
<1> SUFFICES ASSUME MigInv, ExecStatement PROVE MigInv'
  OBVIOUS
<1>0. PICK v, i, op, x : v = boot.v /\ i = boot.i /\ op = Op(v, i) /\ x = Item(v, i)
  OBVIOUS
<1>1. /\ boot.at = "exec" /\ v \in Version /\ i \in Stmts(v) /\ UNCHANGED <<versions, crashes, torn>>
      /\ v \notin versions /\ \A w \in Version : w < v => w \in versions
  BY <1>0, ExecCases DEF MigInv, Running
<1>2. Len(Script[v]) \in 1 .. 10 /\ v \in 1 .. 15 /\ i \in 1 .. Len(Script[v]) /\ i \in 1 .. 10
  <2>1. PICK n : n = Len(Script[v])
    OBVIOUS
  <2>2. n \in 1 .. 10 /\ i \in 1 .. n /\ v \in 1 .. 15
    BY <1>1, <2>1, Lengths
  <2>3. i \in 1 .. 10
    BY <2>2
  <2> QED BY <2>1, <2>2, <2>3
<1>3. Orderly(v, i, op, x)
  BY <1>0, <1>1, ScriptOrdered DEF Ordered
<1>4. CASE boot' = [Off EXCEPT !.at = "failed"] /\ UNCHANGED schema
  <2>1. boot' = [at |-> "failed", todo |-> {}, v |-> 0, i |-> 0]
    BY <1>4 DEF Off
  <2>2. MigType'
    <3>1. UNCHANGED <<schema, versions, crashes, torn>>
      BY <1>1, <1>4
    <3> QED BY <2>1, <3>1 DEF MigInv, MigType
  <2> QED BY <1>1, <1>4, <2>1, <2>2 DEF MigInv, Recorded, Marking, Marked, Running, OldFirst, Finished,
             Hosted, Tables, Applied, Done
<1>5. CASE /\ op = "create" => x \notin schema
           /\ op = "add" => Table(x) \in schema /\ x \notin schema
           /\ op \in {"drop", "on"} => x \in schema
           /\ schema' = IF op = "drop" THEN schema \ {x} ELSE schema \cup {x}
           /\ boot' = [boot EXCEPT !.i = @ + 1]
  <2>1. x \in UNION {{Script[w][j].item : j \in DOMAIN Script[w]} : w \in Version}
    BY <1>0, <1>1 DEF Stmts, Item
  <2>2. /\ boot' = [at |-> "exec", todo |-> boot.todo, v |-> v, i |-> i + 1]
        /\ boot.todo \subseteq 1 .. 5 /\ i + 1 \in 0 .. 11
    <3>1. boot.todo \subseteq 1 .. 5
      BY DEF MigInv, MigType
    <3>2. i + 1 \in 0 .. 11
      BY <1>2
    <3>3. boot = [at |-> "exec", todo |-> boot.todo, v |-> v, i |-> i]
      BY <1>0, <1>1 DEF MigInv, MigType
    <3> QED BY <1>5, <3>1, <3>2, <3>3
  <2>3. MigType'
    BY <1>1, <1>2, <1>5, <2>1, <2>2 DEF MigInv, MigType
  <2>4. op = "drop" => v > 5 /\ x \in Dropped
    BY <1>3 DEF Orderly
  <2>5. op # "drop" /\ x \in Dropped => v \in 2 .. 5 /\ op = "add"
    BY <1>3 DEF Orderly
  \* No statement that has been executed is undone: what a file drops is not
  \* added after it.
  <2>6. ASSUME NEW w \in Version, NEW n \in 0 .. Len(Script[w]), Done(w, n),
               w > 5 /\ op # "drop" => x \notin Dropped
        PROVE  Done(w, n)'
    <3> SUFFICES ASSUME NEW j \in 1 .. n
                 PROVE  IF Op(w, j) = "drop" THEN Item(w, j) \notin schema'
                        ELSE Item(w, j) \in schema' \cup Dropped
      BY DEF Done
    <3>1. Orderly(w, j, Op(w, j), Item(w, j))
      BY ScriptOrdered, Lengths DEF Ordered
    <3>2. Op(w, j) = "drop" => w > 5 /\ Item(w, j) \in Dropped
      BY <3>1 DEF Orderly
    <3> QED BY <1>5, <2>4, <2>6, <3>2 DEF Done
  <2>7. ASSUME NEW w \in versions \ {1} PROVE Applied(w)'
    <3>1. w > 5 /\ op # "drop" => x \notin Dropped
      BY <1>1, <1>2, <2>5 DEF MigInv, MigType, OldFirst
    <3>2. w \in Version /\ Len(Script[w]) \in 0 .. Len(Script[w])
      BY Lengths DEF MigInv, MigType
    <3> QED BY <2>6, <3>1, <3>2 DEF MigInv, Recorded, Applied
  <2>8. Running'
    <3>1. Done(v, i - 1)
      BY <1>0, <1>1 DEF MigInv, Running
    <3>2. Done(v, i - 1)'
      BY <1>1, <1>2, <2>5, <2>6, <3>1
    <3>3. Done(v, i)'
      BY <1>0, <1>1, <1>2, <1>5, <3>2 DEF Done
    <3> QED BY <1>1, <1>2, <2>2, <3>3 DEF Running
  <2>9. ASSUME versions = {} PROVE Marked'
    <3>1. v = 1
      BY <1>1, <1>2, <2>9, Lengths
    <3>2. op # "drop" /\ x \in FirstTables
      BY <1>3, <3>1 DEF Orderly
    <3>3. x \notin Dropped /\ \A w \in 2 .. 5 : x # Marker(w)
      BY <3>2 DEF FirstTables, Dropped, Marker
    <3>4. \A w \in 2 .. 5 : w \in Version /\ Len(Script[w]) \in 0 .. Len(Script[w])
      BY Lengths
    <3> QED BY <1>1, <1>5, <2>6, <2>9, <3>2, <3>3, <3>4 DEF MigInv, Marked, Applied
  <2>10. Hosted'
    <3>1. /\ op \in {"ensure", "create", "on", "add", "drop"}
          /\ op \in {"ensure", "create", "on"} => Table(x) = x
      BY <1>3 DEF Orderly
    <3>2. \A y \in schema : Table(y) \notin Dropped
      BY DEF Table, Dropped
    <3> QED BY <1>5, <2>4, <3>1, <3>2 DEF MigInv, Hosted
  <2>11. Tables'
    <3>1. FirstTables \cap Dropped = {} /\ <<"sessions", "table">> \in FirstTables
      BY DEF FirstTables, Dropped
    <3>2. CASE x # <<"sessions", "table">> \/ op \in {"drop", "on"}
      BY <1>5, <2>4, <3>1, <3>2 DEF MigInv, Tables
    <3>3. CASE x = <<"sessions", "table">> /\ op \notin {"drop", "on"}
      <4>1. Table(x) = x
        BY <3>3 DEF Table
      <4>2. op \in {"ensure", "create"}
        BY <1>3, <3>3, <4>1 DEF Orderly
      <4>3. v = 1 /\ i = 9
        BY <1>3, <3>3, <4>2 DEF Orderly, Origin
      <4>4. Done(1, 8)
        BY <1>0, <1>1, <4>3 DEF MigInv, Running
      <4>5. \A j \in 1 .. 10 : Op(1, j) # "drop"
        <5>1. 1 \in Version
          BY Lengths
        <5>2. Stmts(1) = 1 .. 10
          BY DEF Stmts, Script, InitialSchema
        <5> QED BY <5>1, <5>2, ScriptOrdered DEF Ordered, Orderly
      <4>6. FirstTables \subseteq schema \cup Dropped \cup {x}
        BY <3>3, <4>4, <4>5, Landmarks DEF Done, FirstTables
      <4> QED BY <1>5, <3>1, <3>3, <4>6 DEF Tables
    <3> QED BY <3>2, <3>3
  <2> QED BY <1>1, <2>2, <2>3, <2>7, <2>8, <2>9, <2>10, <2>11
          DEF MigInv, Recorded, Marking, Marked, OldFirst, Finished
<1> QED BY <1>0, <1>4, <1>5, ExecCases DEF MigInv

\* A database of an earlier release.
LEMMA ReleaseApplied ==
    ASSUME NEW k \in 0 .. 15, schema = SchemaOf(k)
    PROVE  /\ \A v \in 1 .. k : Applied(v)
           /\ schema \subseteq UNION {{Script[v][i].item : i \in DOMAIN Script[v]} : v \in Version}
           /\ Hosted /\ Tables /\ (k >= 1 => FirstTables \subseteq schema)
<1>1. \A v \in 1 .. k : v \in Version /\ v \in 1 .. 15
  BY Lengths
<1>2. \A v \in 1 .. k : \A i \in Stmts(v) : Orderly(v, i, Op(v, i), Item(v, i))
  BY <1>1, ScriptOrdered DEF Ordered
<1>3. ASSUME NEW v \in 1 .. k PROVE Applied(v)
  <2>1. \A i \in 1 .. Len(Script[v]) : i \in Stmts(v)
    BY <1>1, Lengths
  <2>2. ASSUME NEW i \in 1 .. Len(Script[v]), Op(v, i) = "drop" PROVE Item(v, i) \notin schema
    BY <2>1, <2>2, InSchemaOf
  <2>3. ASSUME NEW i \in 1 .. Len(Script[v]), Op(v, i) # "drop" PROVE Item(v, i) \in schema \cup Dropped
    <3>1. \A w \in 1 .. k : \A j \in Stmts(w) : Op(w, j) = "drop" => Item(w, j) \in Dropped
      BY <1>2 DEF Orderly
    <3> QED BY <2>1, <3>1, InSchemaOf
  <2> QED BY <2>2, <2>3 DEF Applied, Done
<1>4. schema \subseteq UNION {{Script[v][i].item : i \in DOMAIN Script[v]} : v \in Version}
  BY <1>1, InSchemaOf DEF Stmts, Item
<1>5. k >= 1 => FirstTables \subseteq schema
  <2> SUFFICES ASSUME k >= 1, NEW x \in FirstTables PROVE x \in schema
    OBVIOUS
  <2>1. x \notin Dropped
    BY DEF FirstTables, Dropped
  <2>2. ~\E v \in 1 .. k : \E i \in Stmts(v) : Op(v, i) = "drop" /\ Item(v, i) = x
    BY <1>2, <2>1 DEF Orderly
  <2>3. \E i \in 1 .. 10 : Item(1, i) = x
    BY Landmarks DEF FirstTables
  <2>4. Stmts(1) = 1 .. 10
    BY DEF Stmts, Script, InitialSchema
  <2>5. \E v \in 1 .. k : \E i \in Stmts(v) : Item(v, i) = x
    BY <2>3, <2>4
  <2> QED BY <2>2, <2>5, InSchemaOf
<1>6. \A x \in schema : k >= 1
  BY InSchemaOf
<1>7. Hosted
  <2> SUFFICES ASSUME NEW x \in schema PROVE Table(x) \in schema
    BY DEF Hosted
  <2>1. PICK v, i : v \in 1 .. k /\ i \in Stmts(v) /\ Item(v, i) = x
    BY InSchemaOf
  <2>2. Op(v, i) # "drop"
    BY <2>1, InSchemaOf
  <2>3. Table(x) = x \/ Table(x) \in FirstTables
    BY <1>2, <2>1, <2>2 DEF Orderly
  <2> QED BY <1>5, <1>6, <2>3
<1> QED BY <1>3, <1>4, <1>5, <1>6, <1>7 DEF Tables

\* Which databases a process may find at first.
LEMMA InitRelease ==
    ASSUME MigInit
    PROVE  \E k \in 0 .. 15 :
               schema = SchemaOf(k) /\ (versions = 1 .. k \/ (k \in 1 .. 5 /\ versions = {}))
<1>1. Len(Script) = 15
  BY DEF Script
<1>2. CASE \E k \in 0 .. Len(Script) : schema = SchemaOf(k) /\ versions = 1 .. k
  <2>1. PICK k \in 0 .. Len(Script) : schema = SchemaOf(k) /\ versions = 1 .. k
    BY <1>2
  <2>2. k \in 0 .. 15
    BY <1>1
  <2> WITNESS k \in 0 .. 15
  <2> QED BY <2>1
<1>3. CASE \E k \in 1 .. 5 : schema = SchemaOf(k) /\ versions = {}
  BY <1>3
<1> QED BY <1>2, <1>3 DEF MigInit

\* They satisfy the invariant.
LEMMA MigInitKeeps == MigInit => MigInv
<1> SUFFICES ASSUME MigInit PROVE MigInv
  OBVIOUS
<1>1. boot = [at |-> "off", todo |-> {}, v |-> 0, i |-> 0] /\ crashes = 0
  BY DEF MigInit, Off
<1>2. torn \in BOOLEAN
  BY DEF MigInit
<1>3. PICK k \in 0 .. 15 :
        schema = SchemaOf(k) /\ (versions = 1 .. k \/ (k \in 1 .. 5 /\ versions = {}))
  BY InitRelease
<1>4. /\ \A v \in 1 .. k : Applied(v)
      /\ schema \subseteq UNION {{Script[v][i].item : i \in DOMAIN Script[v]} : v \in Version}
      /\ Hosted /\ Tables
  BY <1>3, ReleaseApplied
<1>5. versions \subseteq Version
  BY <1>3, Lengths
<1>6. MigType
  BY <1>1, <1>2, <1>4, <1>5, MigrationsAssumption DEF MigType
<1>7. Recorded
  BY <1>3, <1>4 DEF Recorded
<1>8. Marked
  <2> SUFFICES ASSUME versions = {}, NEW v \in 2 .. 5, Marker(v) \in schema PROVE Applied(v)
    BY DEF Marked
  <2>1. k <= 5
    BY <1>3
  <2>2. PICK w, i : w \in 1 .. k /\ i \in Stmts(w) /\ Item(w, i) = Marker(v)
    BY <1>3, InSchemaOf
  <2>3. w \in Version
    BY <2>2, Lengths
  <2>4. Orderly(w, i, Op(w, i), Item(w, i))
    BY <2>2, <2>3, ScriptOrdered DEF Ordered
  <2>5. Op(w, i) # "drop"
    BY <2>1, <2>2, <2>4 DEF Orderly
  <2>6. w = v
    BY <2>2, <2>4, <2>5 DEF Orderly
  <2> QED BY <1>4, <2>2, <2>6
<1>9. OldFirst
  BY <1>3 DEF OldFirst
<1>10. Marking /\ Running /\ Finished
  BY <1>1 DEF Marking, Running, Finished
<1> QED BY <1>4, <1>6, <1>7, <1>8, <1>9, <1>10 DEF MigInv

\* The process ends, with whatever it has done to the database.
LEMMA OffKeeps ==
    ASSUME MigInv, boot' = Off, UNCHANGED <<schema, versions>>, crashes' \in 0 .. MaxCrashes,
           torn' \in BOOLEAN
    PROVE  MigInv'
<1>1. boot' = [at |-> "off", todo |-> {}, v |-> 0, i |-> 0]
  BY DEF Off
<1>2. MigType'
  BY <1>1 DEF MigInv, MigType
<1> QED BY <1>1, <1>2
        DEF MigInv, Recorded, Marking, Marked, Running, OldFirst, Finished, Hosted, Tables,
            Applied, Done

\* With all files recorded the tables of the first one are there.
LEMMA AllFirst == MigInv /\ versions = Version => FirstTables \subseteq schema
<1> SUFFICES ASSUME MigInv, versions = Version PROVE FirstTables \subseteq schema
  OBVIOUS
<1>1. Applied(4) /\ 2 \in 1 .. Len(Script[4])
  BY Lengths, Landmarks DEF MigInv, Recorded
<1>2. Item(4, 2) \in schema \cup Dropped
  BY <1>1, Landmarks DEF Applied, Done
<1>3. <<"sessions", "client_ip">> \in schema
  BY <1>2, Landmarks DEF Dropped
<1>4. <<"sessions", "table">> \in schema
  BY <1>3 DEF MigInv, Hosted, Table
<1> QED BY <1>4 DEF MigInv, Tables

\* The current schema is the sum of what the files say, if all are applied.
LEMMA CompleteWhenMigrated == MigInv => MigratedIsComplete
<1> SUFFICES ASSUME MigInv, boot.at = "migrated" PROVE schema = SchemaOf(15)
  <2>1. Len(Script) = 15
    BY DEF Script
  <2> QED BY <2>1 DEF MigratedIsComplete
<1>1. \A v \in 2 .. 15 : v \in Version /\ Applied(v)
  <2>1. \A v \in 2 .. 15 : v \in Version
    BY Lengths
  <2> QED BY <2>1 DEF MigInv, Finished, Recorded
<1>2. \A v \in 2 .. 15 : \A i \in Stmts(v) : i \in 1 .. Len(Script[v])
  BY <1>1, Lengths
<1>3. \A v \in Version : v \in 1 .. 15
  BY Lengths
<1>4. \A v \in 1 .. 15 : \A i \in Stmts(v) : Orderly(v, i, Op(v, i), Item(v, i))
  BY ScriptOrdered, Lengths DEF Ordered
<1>5. FirstTables \subseteq schema
  BY AllFirst DEF MigInv, Finished
<1>6. ASSUME NEW x \in schema PROVE x \in SchemaOf(15)
  <2>1. \E v \in 1 .. 15 : \E i \in Stmts(v) : Item(v, i) = x
    BY <1>3 DEF MigInv, MigType, Item, Stmts
  <2>2. ASSUME NEW v \in 1 .. 15, NEW i \in Stmts(v), Op(v, i) = "drop" PROVE Item(v, i) # x
    <3>1. v \in 2 .. 15
      BY <1>4, <2>2 DEF Orderly
    <3> QED BY <1>1, <1>2, <2>2, <3>1 DEF Applied, Done
  <2> QED BY <2>1, <2>2, InSchemaOf
<1>7. ASSUME NEW x \in SchemaOf(15) PROVE x \in schema
  <2>1. PICK v, i : v \in 1 .. 15 /\ i \in Stmts(v) /\ Item(v, i) = x
    BY InSchemaOf
  <2>2. ~\E w \in 1 .. 15 : \E j \in Stmts(w) : Op(w, j) = "drop" /\ Item(w, j) = x
    BY InSchemaOf
  <2>3. x \notin Dropped
    <3>1. 1 \in Stmts(12) /\ 1 \in Stmts(13) /\ 2 \in Stmts(13)
      BY DEF Stmts, Script, CookieSettings, DropRouteSessionFields
    <3> QED BY <2>2, <3>1, Landmarks DEF Dropped
  <2>4. CASE v = 1
    BY <1>4, <1>5, <2>1, <2>4 DEF Orderly
  <2>5. CASE v \in 2 .. 15
    BY <1>1, <1>2, <2>1, <2>2, <2>3, <2>5 DEF Applied, Done
  <2> QED BY <2>1, <2>4, <2>5
<1> QED BY <1>6, <1>7

-----------------------------------------------------------------------------
(* A database that is not torn is not refused                              *)

\* No statement is refused in a database that is whole.
LEMMA ExecAccepted ==
    ASSUME MigInv, Whole, ~torn, ExecStatement
    PROVE  boot'.at # "failed"
<1>0. PICK v, i, op, x : v = boot.v /\ i = boot.i /\ op = Op(v, i) /\ x = Item(v, i)
  OBVIOUS
<1>1. /\ boot.at = "exec" /\ v \in Version /\ i \in Stmts(v) /\ v \notin versions
      /\ (\A w \in Version : w < v => w \in versions) /\ Done(v, i - 1)
  BY <1>0, ExecCases DEF MigInv, Running
<1>2. Len(Script[v]) \in 1 .. 10 /\ v \in 1 .. 15 /\ i \in 1 .. Len(Script[v])
  BY <1>1, Lengths
<1>3. Orderly(v, i, op, x)
  BY <1>0, <1>1, ScriptOrdered DEF Ordered
<1>4. ~Executed(v, i) /\ v \notin Known
  BY <1>0, <1>1, <1>2 DEF Executed, Known
<1>5. v # 1 => FirstTables \subseteq schema
  <2>1. v # 1 => 1 \in versions
    BY <1>1, <1>2, Lengths
  <2> QED BY <1>0, <2>1 DEF Whole, HasFirst, FirstWhole
<1>6. op = "create" => x \notin schema
  BY <1>0, <1>1, <1>4 DEF Whole, NotAhead
<1>7. op = "add" => x \notin schema /\ Table(x) \in schema
  <2>1. op = "add" => v # 1 /\ Table(x) \in FirstTables
    BY <1>3 DEF Orderly
  <2> QED BY <1>0, <1>1, <1>4, <1>5, <2>1 DEF Whole, NotAhead
<1>8. op = "drop" => x \in schema
  <2> SUFFICES ASSUME op = "drop" PROVE x \in schema
    OBVIOUS
  <2>1. v > 5 /\ x \in Dropped /\ Fate(x) = <<v, i>>
    BY <1>3 DEF Orderly
  <2>2. PICK a, k : /\ a \in 2 .. 5 /\ a \in Version /\ k \in Stmts(a)
                    /\ Op(a, k) = "add" /\ Item(a, k) = x
    BY <2>1, Brought
  <2>3. a \in Known
    BY <1>1, <1>2, <2>1, <2>2 DEF Known
  <2>4. x \in schema \/ Lost(x)
    BY <2>1, <2>2, <2>3 DEF Whole, NotBehind
  <2>5. ASSUME NEW d \in Version, NEW j \in Stmts(d), Op(d, j) = "drop", Item(d, j) = x
        PROVE  d = v /\ j = i
    <3>1. Fate(x) = <<d, j>>
      BY <2>5, ScriptOrdered DEF Ordered, Orderly
    <3> QED BY <2>1, <3>1
  <2>6. ~Lost(x)
    BY <1>1, <1>4, <2>5 DEF Lost
  <2> QED BY <2>4, <2>6
<1>9. op = "on" => x \in schema
  <2> SUFFICES ASSUME op = "on" PROVE x \in schema
    OBVIOUS
  <2>1. x \notin Dropped
    BY <1>3, TablesApart DEF Orderly
  <2>2. i \in Nat
    BY <1>2
  <2>3. CASE v # 1 /\ x \in FirstTables
    BY <1>5, <2>3
  <2>4. CASE \E j \in 1 .. i - 1 : Op(v, j) \in {"ensure", "create"} /\ Item(v, j) = x
    BY <1>1, <2>1, <2>4 DEF Done
  <2> QED BY <1>0, <1>1, <2>2, <2>3, <2>4, OnHosted
<1>10. boot.at = "exec" /\ boot' = [boot EXCEPT !.i = @ + 1] => boot'.at # "failed"
  BY DEF MigInv, MigType
<1> QED BY <1>0, <1>1, <1>6, <1>7, <1>8, <1>9, <1>10, ExecCases DEF MigInv

\* The steps of storage.New keep a database whole.
LEMMA OpenWhole == MigInv /\ Whole /\ OpenDatabase => Whole'
<1> SUFFICES ASSUME MigInv, Whole, OpenDatabase, ~torn PROVE Whole'
  BY DEF Whole, OpenDatabase
<1> DEFINE td == IF versions = {} /\ Begun THEN Inferred ELSE {}
<1>1. /\ boot' = [at |-> "mark", todo |-> td, v |-> 0, i |-> 0] /\ boot.at = "off"
      /\ UNCHANGED <<schema, versions, torn>>
  BY DEF OpenDatabase, Off, Begun
<1>2. Known' = versions \cup td
  BY <1>1 DEF Known
<1>3. td \subseteq Known \cup {1}
  BY <1>1 DEF Known, Inferred, columnExists, Marker
<1>4. Known \subseteq versions \cup td
  <2>1. \A v \in 2 .. 5 : Marker(v) \in schema => Begun
    BY TablesApart DEF MigInv, Hosted, Begun
  <2> QED BY <1>1, <2>1 DEF Known, Inferred, columnExists, Marker
<1>5. versions \subseteq Known
  BY <1>1 DEF Known
<1> HIDE DEF td
<1>6. \A v, i : ~Executed(v, i) /\ ~Executed(v, i)'
  BY <1>1 DEF Executed
<1>7. \A i \in Stmts(1) : Op(1, i) # "add"
  <2>1. 1 \in Version
    BY Lengths
  <2> QED BY <2>1, ScriptOrdered DEF Ordered, Orderly
<1>8. NotAhead'
  BY <1>1, <1>2, <1>4, <1>6 DEF Whole, NotAhead
<1>9. NotBehind'
  BY <1>1, <1>2, <1>3, <1>5, <1>6, <1>7 DEF Whole, NotBehind, Lost
<1>10. MarksAll'
  BY <1>1 DEF MarksAll, Begun, Inferred, columnExists, td
<1> QED BY <1>1, <1>8, <1>9, <1>10 DEF Whole, FirstWhole, FirstRun, HasFirst, Begun

\* Marking one version of an old database as applied.
LEMMA MarkWhole == MigInv /\ Whole /\ MarkApplied => Whole'
<1> SUFFICES ASSUME MigInv, Whole, MarkApplied, ~torn PROVE Whole'
  BY DEF Whole, MarkApplied
<1> DEFINE f == First(boot.todo)
<1>1. boot.todo \subseteq Version /\ boot.todo \subseteq 1 .. 5 /\ boot.todo # {}
  BY Lengths DEF MigInv, MigType, MarkApplied
<1>2. f \in boot.todo /\ \A w \in boot.todo : f <= w
  BY <1>1, FirstLeast
<1>3. /\ boot' = [boot EXCEPT !.todo = boot.todo \ {f}] /\ boot.at = "mark"
      /\ versions' = versions \cup {f} /\ UNCHANGED <<schema, torn>>
  BY DEF MarkApplied
<1> HIDE DEF f
<1>4. boot'.at = "mark" /\ boot'.todo = boot.todo \ {f}
  BY <1>3 DEF MigInv, MigType
<1>5. Known' = Known
  BY <1>2, <1>3, <1>4 DEF Known
<1>6. \A v, i : ~Executed(v, i) /\ ~Executed(v, i)'
  BY <1>3, <1>4 DEF Executed
<1>7. NotAhead' /\ NotBehind'
  BY <1>3, <1>5, <1>6 DEF Whole, NotAhead, NotBehind, Lost
<1>8. versions = {} => f = 1 /\ Begun
  <2> SUFFICES ASSUME versions = {} PROVE f = 1 /\ Begun
    OBVIOUS
  <2>1. Begun /\ 1 \in boot.todo
    BY <1>1, <1>3 DEF Whole, MarksAll, Inferred
  <2> QED BY <1>1, <1>2, <2>1
<1>9. HasFirst'
  BY <1>3, <1>4, <1>8 DEF Whole, HasFirst, Begun
<1> QED BY <1>3, <1>4, <1>7, <1>9 DEF Whole, FirstWhole, FirstRun, MarksAll, Begun

\* A database with all files recorded is whole, whatever it has been through.
LEMMA LastWhole == MigInv /\ NextFile /\ Version \ versions = {} => Whole'
<1> SUFFICES ASSUME MigInv, NextFile, Version \ versions = {} PROVE Whole'
  OBVIOUS
<1>1. /\ boot' = [at |-> "migrated", todo |-> {}, v |-> 0, i |-> 0]
      /\ UNCHANGED <<schema, versions>>
  BY DEF NextFile, Off
<1>2. versions = Version
  BY DEF MigInv, MigType
<1>3. Known' = Version /\ \A v, i : ~Executed(v, i)'
  BY <1>1, <1>2 DEF Known, Executed
<1>4. NotAhead'
  BY <1>1, <1>3 DEF NotAhead
<1>5. \A x \in Dropped : Lost(x)'
  <2>1. 12 \in Version /\ 13 \in Version
    BY Lengths
  <2>2. 1 \in Stmts(12) /\ 1 \in Stmts(13) /\ 2 \in Stmts(13)
    BY DEF Stmts, Script, CookieSettings, DropRouteSessionFields
  <2> QED BY <1>1, <1>2, <2>1, <2>2, Landmarks DEF Lost, Dropped
<1>6. NotBehind'
  BY <1>5 DEF NotBehind
<1>7. FirstTables \subseteq schema
  BY <1>2, AllFirst
<1>8. 1 \in versions /\ Begun
  BY <1>2, <1>7, Lengths, TablesApart DEF Begun
<1> QED BY <1>1, <1>4, <1>6, <1>7, <1>8
        DEF Whole, FirstWhole, FirstRun, HasFirst, MarksAll, Begun

\* Choosing the next file.
LEMMA NextWhole == MigInv /\ Whole /\ NextFile => Whole'
<1> SUFFICES ASSUME MigInv, Whole, NextFile, Version \ versions # {}, torn' = FALSE PROVE Whole'
  <2>1. Version \ versions = {} /\ MigInv /\ NextFile => Whole'
    BY LastWhole
  <2>2. torn' => Whole'
    BY DEF Whole
  <2>3. NextFile /\ Version \ versions # {} => torn' = torn
    BY DEF NextFile
  <2>4. MigInv => torn \in BOOLEAN
    BY DEF MigInv, MigType
  <2>5. ASSUME MigInv, Whole, NextFile, Version \ versions # {} PROVE Whole'
    <3>1. CASE torn
      BY <2>2, <2>3, <2>5, <3>1
    <3>2. CASE ~torn
      <4>1. torn' = FALSE
        BY <2>3, <2>4, <2>5, <3>2
      <4> QED BY <2>5, <4>1
    <3> QED BY <3>1, <3>2
  <2> QED BY <2>1, <2>5
<1>0. ~torn
  BY DEF NextFile
<1>1. /\ UNCHANGED <<schema, versions, torn>>
      /\ (boot.at = "mark" /\ boot.todo = {}) \/ boot.at = "next"
  BY DEF NextFile
<1>2. \/ boot' = [at |-> "migrated", todo |-> {}, v |-> 0, i |-> 0]
      \/ /\ First(Version \ versions) \notin versions
         /\ boot' = [at |-> "exec", todo |-> {}, v |-> First(Version \ versions), i |-> 1]
  <2>1. Version \ versions # {} => First(Version \ versions) \in Version \ versions
    BY FirstLeast
  <2> QED BY <2>1 DEF NextFile, Off
<1>3. Known = versions /\ Known' = versions
  BY <1>1, <1>2 DEF Known
<1>4. \A v \in Version : \A i \in Stmts(v) : ~Executed(v, i) /\ ~Executed(v, i)'
  <2>1. \A v \in Version : \A i \in Stmts(v) : i \in Nat /\ i >= 1
    BY Lengths
  <2> QED BY <1>1, <1>2, <2>1 DEF Executed
<1>5. NotAhead' /\ NotBehind'
  BY <1>0, <1>1, <1>3, <1>4 DEF Whole, NotAhead, NotBehind, Lost
<1>6. versions = {} => ~Begun
  BY <1>0, <1>1 DEF Whole, MarksAll, HasFirst, Inferred
<1>7. FirstRun'
  BY <1>0, <1>1, <1>2, <1>6 DEF Whole, HasFirst, FirstRun, Begun
<1> QED BY <1>0, <1>1, <1>2, <1>5, <1>7 DEF Whole, FirstWhole, HasFirst, MarksAll, Begun

\* Recording the version of a file that has been executed.
LEMMA RecordWhole == MigInv /\ Whole /\ RecordVersion => Whole'
<1> SUFFICES ASSUME MigInv, Whole, RecordVersion, ~torn PROVE Whole'
  BY DEF Whole, RecordVersion
<1>1. PICK v : v = boot.v
  OBVIOUS
<1>2. /\ boot' = [at |-> "next", todo |-> {}, v |-> 0, i |-> 0] /\ versions' = versions \cup {v}
      /\ UNCHANGED <<schema, torn>> /\ boot.at = "exec" /\ boot.i > Len(Script[v])
  BY <1>1 DEF RecordVersion, Off
<1>3. /\ v \in Version /\ v \in 1 .. 15 /\ \A w \in Version : w < v => w \in versions
      /\ boot.i \in 1 .. Len(Script[v]) + 1 /\ Done(v, boot.i - 1)
  BY <1>1, <1>2, Lengths DEF MigInv, Running
<1>4. Known = versions /\ Known' = versions'
  BY <1>2 DEF Known
<1>5. \A w, j : ~Executed(w, j)' /\ (Executed(w, j) => w = v)
  BY <1>1, <1>2 DEF Executed
<1>6. \A j \in Stmts(v) : Executed(v, j)
  BY <1>1, <1>2, <1>3, Lengths DEF Executed
<1>7. NotAhead' /\ NotBehind'
  BY <1>2, <1>4, <1>5, <1>6 DEF Whole, NotAhead, NotBehind, Lost
<1>8. v = 1 => FirstTables \subseteq schema
  <2> SUFFICES ASSUME v = 1 PROVE FirstTables \subseteq schema
    OBVIOUS
  <2>1. Done(1, 10)
    BY <1>2, <1>3, Landmarks DEF Done
  <2>2. Stmts(1) = 1 .. 10
    BY DEF Stmts, Script, InitialSchema
  <2>3. Op(1, 9) # "drop"
    BY <1>3, <2>2, ScriptOrdered DEF Ordered, Orderly
  <2>4. <<"sessions", "table">> \in schema \cup Dropped
    BY <2>1, <2>3, Landmarks DEF Done
  <2>5. <<"sessions", "table">> \in schema
    BY <2>4 DEF Dropped
  <2> QED BY <2>5 DEF MigInv, Tables
<1>9. HasFirst'
  <2>1. v # 1 => 1 \in versions
    BY <1>3, Lengths
  <2> QED BY <1>2, <1>8, <2>1, TablesApart DEF Whole, HasFirst, Begun
<1>10. FirstWhole'
  BY <1>1, <1>2, <1>8 DEF Whole, FirstWhole, Begun
<1> QED BY <1>2, <1>7, <1>9, <1>10 DEF Whole, FirstRun, MarksAll

\* Executing one statement.
LEMMA ExecWhole == MigInv /\ Whole /\ ExecStatement => Whole'
<1> SUFFICES ASSUME MigInv, Whole, ExecStatement, ~torn PROVE Whole'
  BY DEF Whole, ExecStatement
<1>0. PICK v, i, op, x : v = boot.v /\ i = boot.i /\ op = Op(v, i) /\ x = Item(v, i)
  OBVIOUS
<1>1. /\ boot.at = "exec" /\ v \in Version /\ i \in Stmts(v) /\ v \notin versions
      /\ UNCHANGED <<versions, torn>>
  BY <1>0, ExecCases DEF MigInv, Running
<1>2. /\ op = "create" => x \notin schema
      /\ op = "add" => Table(x) \in schema /\ x \notin schema
      /\ op \in {"drop", "on"} => x \in schema
      /\ schema' = IF op = "drop" THEN schema \ {x} ELSE schema \cup {x}
      /\ boot' = [boot EXCEPT !.i = @ + 1]
  <2>1. boot'.at # "failed"
    BY ExecAccepted
  <2>2. ~(boot' = [Off EXCEPT !.at = "failed"])
    BY <2>1 DEF Off
  <2> QED BY <1>0, <2>2, ExecCases DEF MigInv
<1>3. \A w \in Version : \A j \in Stmts(w) : j \in Nat /\ j >= 1
  BY Lengths
<1>4. boot'.at = "exec" /\ boot'.v = v /\ boot'.i = i + 1 /\ i \in Nat /\ i >= 1
  BY <1>0, <1>1, <1>2, <1>3 DEF MigInv, MigType
<1>5. Orderly(v, i, op, x)
  BY <1>0, <1>1, ScriptOrdered DEF Ordered
<1>6. Known = versions /\ Known' = versions
  BY <1>1, <1>4 DEF Known
<1>7. /\ \A w \in Version : \A j \in Stmts(w) : Executed(w, j) => Executed(w, j)'
      /\ Executed(v, i)'
      /\ \A w \in Version : \A j \in Stmts(w) : Executed(w, j)' => Executed(w, j) \/ (w = v /\ j = i)
  BY <1>0, <1>1, <1>3, <1>4 DEF Executed
<1>8. op \in {"ensure", "create", "add"} => Origin(x) = <<v, i>>
  BY <1>5 DEF Orderly
<1>9. op \in {"ensure", "create", "add", "drop", "on"} /\ (op = "drop" => x \in Dropped)
  BY <1>5 DEF Orderly
<1>10. NotAhead'
  <2> SUFFICES ASSUME NEW w \in Version, NEW j \in Stmts(w), Op(w, j) \in {"create", "add"},
                      Item(w, j) \in schema'
               PROVE  w \in Known' \/ Executed(w, j)'
    BY DEF NotAhead
  <2>1. CASE Item(w, j) \in schema
    BY <1>6, <1>7, <2>1 DEF Whole, NotAhead
  <2>2. CASE Item(w, j) \notin schema
    <3>1. Item(w, j) = x /\ op \in {"ensure", "create", "add"}
      BY <1>2, <1>9, <2>2
    <3>2. Origin(x) = <<w, j>>
      BY <3>1, ScriptOrdered DEF Ordered, Orderly
    <3>3. w = v /\ j = i
      BY <1>8, <3>1, <3>2
    <3> QED BY <1>7, <3>3
  <2> QED BY <2>1, <2>2
<1>11. NotBehind'
  <2> SUFFICES ASSUME NEW w \in Version, NEW j \in Stmts(w), w \in Known' \/ Executed(w, j)',
                      Op(w, j) = "add", Item(w, j) \in Dropped
               PROVE  Item(w, j) \in schema' \/ Lost(Item(w, j))'
    BY DEF NotBehind
  <2>1. Item(w, j) \in schema \/ Lost(Item(w, j)) \/ (w = v /\ j = i)
    BY <1>6, <1>7 DEF Whole, NotBehind
  <2>2. CASE Item(w, j) \in schema
    <3>1. Item(w, j) \in schema' \/ (op = "drop" /\ Item(w, j) = x)
      BY <1>2, <2>2
    <3> QED BY <1>0, <1>1, <1>7, <3>1 DEF Lost
  <2>3. CASE Lost(Item(w, j))
    BY <1>1, <1>7, <2>3 DEF Lost
  <2>4. CASE w = v /\ j = i
    BY <1>0, <1>2, <2>4
  <2> QED BY <2>1, <2>2, <2>3, <2>4
<1>12. FirstTables \subseteq schema => FirstTables \subseteq schema'
  BY <1>2, <1>9, TablesApart
<1>13. FirstWhole'
  <2>1. CASE Begun
    BY <1>0, <1>4, <1>12, <2>1 DEF Whole, FirstWhole, Begun
  <2>2. CASE ~Begun /\ Begun'
    <3>1. x = <<"proxy_routes", "table">> /\ op \in {"ensure", "create", "add"}
      BY <1>2, <1>9, <2>2 DEF Begun
    <3>2. Origin(x) = <<1, 1>>
      BY <3>1 DEF Origin
    <3>3. v = 1
      BY <1>8, <3>1, <3>2
    <3> QED BY <1>4, <3>3 DEF FirstWhole
  <2> QED BY <2>1, <2>2 DEF FirstWhole
<1>14. FirstRun'
  BY <1>0, <1>1, <1>4 DEF Whole, FirstRun
<1>15. HasFirst'
  BY <1>1, <1>2, <1>4, <1>9, TablesApart DEF Whole, HasFirst, Begun
<1> QED BY <1>1, <1>4, <1>10, <1>11, <1>13, <1>14, <1>15 DEF Whole, MarksAll

\* A database stays whole if the process ends at a point that is not fragile.
LEMMA OffWhole ==
    ASSUME MigInv, Whole, boot' = Off, UNCHANGED <<schema, versions>>, torn' = (torn \/ Fragile)
    PROVE  Whole'
<1> SUFFICES ASSUME ~torn, ~Fragile PROVE Whole'
  BY DEF Whole
<1>1. boot' = [at |-> "off", todo |-> {}, v |-> 0, i |-> 0]
  BY DEF Off
<1>2. Known' = IF versions = {} THEN {v \in 2 .. 5 : Marker(v) \in schema} ELSE versions
  BY <1>1 DEF Known, Marker
<1>3. \A v, i : ~Executed(v, i)'
  BY <1>1 DEF Executed
<1>4. ASSUME NEW v \in Version, NEW i \in Stmts(v), Executed(v, i)
      PROVE  Op(v, i) \notin {"create", "add", "drop"}
  <2>1. i \in 1 .. boot.i - 1
    BY <1>4, Lengths DEF Executed, MigInv, MigType
  <2> QED BY <1>4, <2>1 DEF Executed, Fragile, Op
<1>5. 1 \in Version /\ \A i \in Stmts(1) : Op(1, i) \notin {"create", "add"}
  <2>1. 1 \in Version
    BY Lengths
  <2> QED BY <2>1, ScriptOrdered DEF Ordered, Orderly
<1>6. boot.at = "mark" /\ versions # {} => boot.todo = {}
  BY DEF Fragile
<1>7. ASSUME NEW v \in Known PROVE v = 1 \/ v \in Known'
  BY <1>2, <1>6 DEF Known, Whole, MarksAll, Inferred, columnExists, Marker
<1>8. ASSUME NEW v \in Known' PROVE v \in Known
  <2>1. CASE versions # {}
    BY <1>2, <2>1 DEF Known
  <2>2. CASE versions = {}
    <3>1. v \in 2 .. 5 /\ Marker(v) \in schema
      BY <1>2, <2>2
    <3>2. Begun
      BY <3>1, TablesApart DEF MigInv, Hosted, Begun
    <3>3. v \in Inferred
      BY <3>1 DEF Inferred, columnExists, Marker
    <3>4. CASE boot.at = "off" \/ boot.at = "mark"
      BY <2>2, <3>1, <3>2, <3>3, <3>4 DEF Known, Whole, MarksAll
    <3>5. CASE boot.at = "exec"
      <4>1. boot.v = 1
        BY <1>5, <2>2, <3>5, Lengths DEF MigInv, Running
      <4>2. ~Executed(v, 1)
        BY <3>1, <4>1 DEF Executed
      <4> QED BY <3>1, <4>2, Brought DEF Whole, NotAhead
    <3>6. boot.at # "next" /\ boot.at # "failed" /\ boot.at # "migrated"
      BY <1>5, <2>2 DEF Whole, HasFirst, MigInv, Finished
    <3> QED BY <3>4, <3>5, <3>6 DEF MigInv, MigType
  <2> QED BY <2>1, <2>2
<1>9. NotAhead'
  BY <1>3, <1>4, <1>5, <1>7 DEF Whole, NotAhead
<1>10. NotBehind'
  <2>1. \A x : Lost(x) => Lost(x)'
    BY <1>4 DEF Lost
  <2> QED BY <1>3, <1>8, <2>1 DEF Whole, NotBehind
<1>11. FirstWhole'
  <2>1. CASE boot.at = "exec" /\ boot.v = 1 /\ boot.i > 1
    <3>1. boot.i \in 10 .. 11 /\ Done(1, boot.i - 1)
      BY <2>1, Landmarks DEF MigInv, Running, Fragile
    <3>2. Stmts(1) = 1 .. 10
      BY DEF Stmts, Script, InitialSchema
    <3>3. Op(1, 9) # "drop"
      BY <1>5, <3>2, ScriptOrdered DEF Ordered, Orderly
    <3>4. <<"sessions", "table">> \in schema \cup Dropped
      BY <3>1, <3>3, Landmarks DEF Done
    <3>5. <<"sessions", "table">> \in schema
      BY <3>4 DEF Dropped
    <3> QED BY <3>5 DEF MigInv, Tables, FirstWhole
  <2> QED BY <1>1, <2>1 DEF Whole, FirstWhole, Begun
<1> QED BY <1>1, <1>9, <1>10, <1>11 DEF Whole, FirstRun, HasFirst, MarksAll, Begun

\* The databases of earlier releases are whole.
LEMMA MigInitWhole == MigInit => Whole
<1> SUFFICES ASSUME MigInit PROVE Whole
  OBVIOUS
<1>1. boot = [at |-> "off", todo |-> {}, v |-> 0, i |-> 0]
  BY DEF MigInit, Off
<1>2. PICK k \in 0 .. 15 :
        schema = SchemaOf(k) /\ (versions = 1 .. k \/ (k \in 1 .. 5 /\ versions = {}))
  BY InitRelease
<1>3. \A v, i : ~Executed(v, i)
  BY <1>1 DEF Executed
<1>4. \A v \in 1 .. k : v \in Version
  BY Lengths
<1>5. ASSUME NEW v \in 1 .. k, NEW i \in Stmts(v), Op(v, i) = "drop" PROVE v > 5
  BY <1>4, <1>5, ScriptOrdered DEF Ordered, Orderly
\* What the files bring is brought by them, or they build on it.
<1>6. ASSUME NEW v \in Version, NEW i \in Stmts(v), Op(v, i) \in {"create", "add"},
             Item(v, i) \in schema
      PROVE  v \in 2 .. 15 /\ v \in 1 .. k
  <2>1. PICK w, j : w \in 1 .. k /\ j \in Stmts(w) /\ Item(w, j) = Item(v, i)
    BY <1>2, <1>6, InSchemaOf
  <2>2. Op(w, j) # "drop"
    BY <1>2, <1>6, <2>1, InSchemaOf
  <2>3. Orderly(w, j, Op(w, j), Item(w, j)) /\ Orderly(v, i, Op(v, i), Item(v, i))
    BY <1>4, <2>1, ScriptOrdered DEF Ordered
  <2>4. v # 1 /\ v \in 1 .. 15 /\ Origin(Item(v, i)) = <<v, i>>
    BY <1>6, <2>3, Lengths DEF Orderly
  <2>5. CASE Op(w, j) = "on"
    <3>1. Item(w, j) \notin FirstTables
      BY <2>1, <2>4, TablesApart
    <3>2. j \in Nat /\ w \in Version
      BY <1>4, <2>1, Lengths
    <3>3. PICK l \in 1 .. j - 1 : Op(w, l) \in {"ensure", "create"} /\ Item(w, l) = Item(w, j)
      BY <2>1, <2>5, <3>1, <3>2, OnHosted
    <3>4. l \in Stmts(w)
      BY <2>1, <3>2, Lengths
    <3>5. Origin(Item(w, l)) = <<w, l>>
      BY <3>2, <3>3, <3>4, ScriptOrdered DEF Ordered, Orderly
    <3>6. w = v
      BY <2>1, <2>4, <3>3, <3>5
    <3> QED BY <2>1, <2>4, <3>6
  <2>6. CASE Op(w, j) # "on"
    <3>1. Origin(Item(w, j)) = <<w, j>>
      BY <2>2, <2>3, <2>6 DEF Orderly
    <3>2. w = v
      BY <2>1, <2>4, <3>1
    <3> QED BY <2>1, <2>4, <3>2
  <2> QED BY <2>5, <2>6
<1>7. ASSUME NEW v \in 1 .. k, v # 1, versions = {} PROVE v \in Known
  <2>1. v \in 2 .. 5 /\ k <= 5
    BY <1>2, <1>7
  <2>2. 1 \in Stmts(v) /\ Item(v, 1) = Marker(v)
    BY <2>1, Brought
  <2>3. Marker(v) \in schema
    BY <1>2, <1>5, <2>1, <2>2, InSchemaOf
  <2> QED BY <1>1, <1>7, <2>1, <2>3 DEF Known
<1>8. NotAhead
  <2>1. versions # {} => Known = versions /\ versions = 1 .. k
    BY <1>1, <1>2 DEF Known
  <2> QED BY <1>6, <1>7, <2>1 DEF NotAhead
<1>9. ASSUME NEW v \in Known PROVE v \in 1 .. k
  <2>1. CASE versions = {}
    <3>1. v \in 2 .. 5 /\ Marker(v) \in schema
      BY <1>1, <1>9, <2>1 DEF Known
    <3> QED BY <1>6, <3>1, Brought
  <2>2. CASE versions # {}
    BY <1>1, <1>2, <1>9, <2>2 DEF Known
  <2> QED BY <2>1, <2>2
<1>10. NotBehind
  <2> SUFFICES ASSUME NEW v \in Known, NEW i \in Stmts(v), ~Lost(Item(v, i)) PROVE Item(v, i) \in schema
    BY <1>3 DEF NotBehind
  <2>1. v \in 1 .. k
    BY <1>9
  <2>2. CASE versions = {}
    BY <1>2, <1>5, <2>1, <2>2, InSchemaOf
  <2>3. CASE versions # {}
    <3>1. versions = 1 .. k
      BY <1>2, <2>3
    <3>2. ~\E d \in 1 .. k : \E j \in Stmts(d) : Op(d, j) = "drop" /\ Item(d, j) = Item(v, i)
      BY <1>4, <3>1 DEF Lost
    <3> QED BY <1>2, <2>1, <3>2, InSchemaOf
  <2> QED BY <2>2, <2>3
<1>11. Begun => k >= 1
  BY <1>2, InSchemaOf DEF Begun
<1>12. k >= 1 => FirstTables \subseteq schema
  BY <1>2, ReleaseApplied
<1>13. FirstWhole /\ HasFirst
  BY <1>1, <1>2, <1>11, <1>12, TablesApart DEF FirstWhole, HasFirst, Begun
<1> QED BY <1>1, <1>8, <1>10, <1>13 DEF Whole, FirstRun, MarksAll

\* A database that is whole has not been refused.
LEMMA UntornAccepted == Whole => RefusedOnlyTorn
  BY DEF Whole, RefusedOnlyTorn

-----------------------------------------------------------------------------
(* The process                                                             *)

\* The types of the part of the state that is declared in Lifecycle.
ProcTypeOK ==
    /\ main \in {"off", "open", "init", "sync", "ensure", "refresh", "start", "serve",
                 "shutdown", "requests", "await", "stop", "drain", "exit", "panic"}
    /\ ctx \in {"live", "cancelled"} /\ errChan \in BOOLEAN
    /\ http \in {"none", "open", "closed"} /\ raw \in {"none", "open", "closed"}
    /\ handler \in [Handler -> {"idle", "gate", "serving", "edited", "refreshing"}]
    /\ queue \in 0 .. QueueCap /\ logChan \in {"open", "closed"}
    /\ drainer \in {"none", "idle", "writing", "done"}
    /\ ticker \in {"none", "running", "refreshing", "done"}
    /\ tickCopy \in Route /\ copy \in [HttpHandler -> Route]
    /\ store \in {"open", "closed"} /\ adminGroup \in BOOLEAN
    /\ adminRow \in Route /\ adminRule \in Route
    /\ overtaken \in BOOLEAN /\ warned \in BOOLEAN /\ overrun \in BOOLEAN /\ panicked \in BOOLEAN

\* run up to the opening of the listeners.
Starting == {"off", "open", "init", "sync", "ensure", "refresh", "start"}

\* Until cleanShutdown nothing has been waited for in vain, and until StartProxy
\* there is nobody to wait for.
Early ==
    /\ main \in Starting \cup {"serve"} => ~overrun /\ ~panicked
    /\ main \in Starting => http = "none" /\ raw = "none"

\* Handlers come from listeners, and HTTP listeners end before a shutdown only
\* by an error.
Listening ==
    /\ http = "none" => \A h \in HttpHandler : handler[h] = "idle"
    /\ raw = "none" => \A h \in RawHandler : handler[h] = "idle"
    /\ main = "serve" /\ http = "closed" => errChan

\* Nobody is left who could write to the log.
Quiesced == http # "open" /\ raw # "open" /\ \A h \in Handler : handler[h] = "idle"

\* How far a shutdown that has waited for everyone has got.
Closing ==
    /\ main \in {"requests", "await"} => http # "open"
    /\ main = "await" /\ ~overrun => \A h \in HttpHandler : handler[h] = "idle"
    /\ main \in {"stop", "drain", "exit"} /\ ~overrun => Quiesced

\* The queue is closed only by stopAuth, and only who was not waited for can
\* find it closed.
Sending ==
    /\ logChan = "closed" => main \in {"drain", "exit", "panic"}
    /\ main = "panic" => overrun
    /\ panicked => overrun

\* The goroutine of the access log ends with an empty queue that nobody can
\* fill any more, and store.Close waits for it.
Drain ==
    /\ drainer = "done" => queue = 0 /\ logChan = "closed"
    /\ main = "exit" => drainer = "done"

\* EnsureRouteGroup has restricted the row of the admin route, and only the
\* administrator changes it afterwards. refreshCache has copied it, and so does
\* whoever stores another copy, unless it was read before.
Guarded ==
    /\ main \in {"refresh", "start", "serve"} => adminRow # "unset" \/ warned
    /\ main \in {"start", "serve"} => adminRule # "unset" \/ overtaken \/ warned

ProcInv == ProcTypeOK /\ Early /\ Listening /\ Closing /\ Sending /\ Drain /\ Guarded

-----------------------------------------------------------------------------
\* A process that has ended leaves a well-typed state behind.
LEMMA GoneType ==
    ASSUME ProcTypeOK, Gone, UNCHANGED <<adminGroup, adminRow>> PROVE ProcTypeOK'
<1>1. /\ errChan' \in BOOLEAN /\ overtaken' \in BOOLEAN /\ warned' \in BOOLEAN
      /\ overrun' \in BOOLEAN /\ panicked' \in BOOLEAN
  BY DEF Gone
<1>2. adminRule' \in Route /\ tickCopy' \in Route /\ copy' \in [HttpHandler -> Route]
  BY DEF Gone, Route
<1>3. queue' \in 0 .. QueueCap
  BY LifecycleAssumption DEF Gone
<1>4. handler' \in [Handler -> {"idle", "gate", "serving", "edited", "refreshing"}]
  BY DEF Gone
<1> QED BY <1>1, <1>2, <1>3, <1>4 DEF Gone, ProcTypeOK

\* Every step of run and of the goroutines beside it keeps the types.
LEMMA ProcTypeStep == ProcTypeOK /\ [Next]_vars => ProcTypeOK'
<1> SUFFICES ASSUME ProcTypeOK, [Next]_vars PROVE ProcTypeOK'
  OBVIOUS
<1> USE LifecycleAssumption DEF ProcTypeOK, Route, disk, doors, log, busy, hist, Handler
<1>1. CASE Open
  BY <1>1 DEF Open
<1>2. CASE Refused
  BY <1>2, GoneType DEF Refused
<1>3. CASE Seed
  <2>1. adminGroup' \in BOOLEAN
    BY <1>3 DEF Seed
  <2> QED BY <1>3, <2>1 DEF Seed
<1>5. CASE InitAuth
  BY <1>5 DEF InitAuth
<1>6. CASE SyncRoutes
  <2>1. adminRow' \in Route
    BY <1>6 DEF SyncRoutes
  <2> QED BY <1>6, <2>1 DEF SyncRoutes
<1>7. CASE EnsureRouteGroup
  <2>1. adminRow' \in Route
    BY <1>7 DEF EnsureRouteGroup
  <2>2. warned' \in BOOLEAN
    BY <1>7 DEF EnsureRouteGroup
  <2> QED BY <1>7, <2>1, <2>2 DEF EnsureRouteGroup
<1>8. CASE RefreshCache
  <2>1. warned' \in BOOLEAN /\ overtaken' \in BOOLEAN
    BY <1>8 DEF RefreshCache
  <2> QED BY <1>8, <2>1 DEF RefreshCache
<1>9. CASE StartProxy
  BY <1>9 DEF StartProxy
<1>10. CASE BeginShutdown
  BY <1>10 DEF BeginShutdown, WgDone
<1>11. CASE ShutdownHTTP
  BY <1>11 DEF ShutdownHTTP
<1>12. CASE RequestsDone
  BY <1>12 DEF RequestsDone
<1>13. CASE AllStopped
  BY <1>13 DEF AllStopped, WgDone
<1>14. CASE ShutdownTimeout
  BY <1>14 DEF ShutdownTimeout
<1>15. CASE StopAuth
  BY <1>15 DEF StopAuth
<1>16. CASE CloseStore
  BY <1>16 DEF CloseStore
<1>17. CASE Exit
  BY <1>17, GoneType DEF Exit
<1>18. CASE Take
  BY <1>18 DEF Take
<1>19. CASE Insert
  BY <1>19 DEF Insert
<1>20. CASE Drained
  BY <1>20 DEF Drained
<1>21. ASSUME NEW h \in Handler, Accept(h) PROVE ProcTypeOK'
  BY <1>21 DEF Accept
<1>22. ASSUME NEW h \in Handler, LogAccess(h) PROVE ProcTypeOK'
  BY <1>22 DEF LogAccess
<1>23. ASSUME NEW h \in Handler, SendPanics(h) PROVE ProcTypeOK'
  BY <1>23 DEF SendPanics
<1>24. ASSUME NEW h \in Handler, Finish(h) PROVE ProcTypeOK'
  BY <1>24 DEF Finish
<1>25. CASE CloseRaw
  BY <1>25 DEF CloseRaw
<1>26. CASE Signal
  BY <1>26 DEF Signal
<1>27. CASE ListenError
  BY <1>27 DEF ListenError
<1>28. CASE TickReads \/ TickStores
  <2>1. overtaken' \in BOOLEAN
    BY <1>28 DEF TickReads, TickStores, Overtakes
  <2> QED BY <1>28, <2>1 DEF TickReads, TickStores
<1>29. CASE TickerStops
  BY <1>29 DEF TickerStops
<1>30. ASSUME NEW h \in HttpHandler, EditAdminRoute(h) \/ EditReads(h) \/ EditStores(h)
       PROVE  ProcTypeOK'
  <2>1. overtaken' \in BOOLEAN
    BY <1>30 DEF EditAdminRoute, EditReads, EditStores, Overtakes
  <2>2. CASE EditAdminRoute(h)
    BY <2>1, <2>2 DEF EditAdminRoute
  <2>3. CASE EditReads(h)
    BY <2>1, <2>3 DEF EditReads
  <2>4. CASE EditStores(h)
    BY <2>1, <2>4 DEF EditStores
  <2> QED BY <1>30, <2>2, <2>3, <2>4
<1>31. CASE Crash
  BY <1>31, GoneType DEF Crash
<1>32. CASE UNCHANGED vars
  BY <1>32 DEF vars
<1> QED
  BY <1>1, <1>2, <1>3, <1>5, <1>6, <1>7, <1>8, <1>9, <1>10, <1>11, <1>12, <1>13, <1>14,
     <1>15, <1>16, <1>17, <1>18, <1>19, <1>20, <1>21, <1>22, <1>23, <1>24, <1>25, <1>26, <1>27,
     <1>28, <1>29, <1>30, <1>31, <1>32
  DEF Next, MainStep, Drainer

\* The parts of the invariant, action by action.
LEMMA ProcInvStep == ProcInv /\ ProcTypeOK' /\ [Next]_vars => ProcInv'
<1> SUFFICES ASSUME ProcInv, ProcTypeOK', [Next]_vars PROVE ProcInv'
  OBVIOUS
<1> USE LifecycleAssumption DEF ProcInv, Early, Listening, Closing, Sending, Drain, Guarded, Quiesced,
        Starting, disk, doors, log, busy, hist, Handler
<1>1. CASE Open
  BY <1>1 DEF Open, ProcTypeOK, Route
<1>2. CASE Refused
  BY <1>2 DEF Refused, Gone, ProcTypeOK, Route
<1>3. CASE Seed
  BY <1>3 DEF Seed, ProcTypeOK, Route
<1>5. CASE InitAuth
  BY <1>5 DEF InitAuth, ProcTypeOK, Route
<1>6. CASE SyncRoutes
  BY <1>6 DEF SyncRoutes, ProcTypeOK, Route
<1>7. CASE EnsureRouteGroup
  BY <1>7 DEF EnsureRouteGroup, ProcTypeOK, Route
<1>8. CASE RefreshCache
  BY <1>8 DEF RefreshCache, ProcTypeOK, Route
<1>9. CASE StartProxy
  BY <1>9 DEF StartProxy, ProcTypeOK, Route
<1>10. CASE BeginShutdown
  BY <1>10 DEF BeginShutdown, WgDone, ProcTypeOK, Route
<1>11. CASE ShutdownHTTP
  BY <1>11 DEF ShutdownHTTP, ProcTypeOK, Route
<1>12. CASE RequestsDone
  BY <1>12 DEF RequestsDone, ProcTypeOK, Route
<1>13. CASE AllStopped
  BY <1>13 DEF AllStopped, WgDone, ProcTypeOK, Route
<1>14. CASE ShutdownTimeout
  BY <1>14 DEF ShutdownTimeout, ProcTypeOK, Route
<1>15. CASE StopAuth
  BY <1>15 DEF StopAuth, ProcTypeOK, Route
<1>16. CASE CloseStore
  BY <1>16 DEF CloseStore, ProcTypeOK, Route
<1>17. CASE Exit
  BY <1>17 DEF Exit, Gone, ProcTypeOK, Route
<1>18. CASE Take
  BY <1>18 DEF Take, ProcTypeOK, Route
<1>19. CASE Insert
  BY <1>19 DEF Insert, ProcTypeOK, Route
<1>20. CASE Drained
  BY <1>20 DEF Drained, ProcTypeOK, Route
<1>21. ASSUME NEW h \in Handler, Accept(h) PROVE ProcInv'
  BY <1>21 DEF Accept, ProcTypeOK, Route
<1>22. ASSUME NEW h \in Handler, LogAccess(h) PROVE ProcInv'
  BY <1>22 DEF LogAccess, ProcTypeOK, Route
<1>23. ASSUME NEW h \in Handler, SendPanics(h) PROVE ProcInv'
  BY <1>23 DEF SendPanics, ProcTypeOK, Route
<1>24. ASSUME NEW h \in Handler, Finish(h) PROVE ProcInv'
  BY <1>24 DEF Finish, ProcTypeOK, Route
<1>25. CASE CloseRaw
  BY <1>25 DEF CloseRaw, ProcTypeOK, Route
<1>26. CASE Signal
  BY <1>26 DEF Signal, ProcTypeOK, Route
<1>27. CASE ListenError
  BY <1>27 DEF ListenError, ProcTypeOK, Route
<1>28. CASE TickReads \/ TickStores
  BY <1>28 DEF TickReads, TickStores, Overtakes, ProcTypeOK, Route
<1>29. CASE TickerStops
  BY <1>29 DEF TickerStops, ProcTypeOK, Route
<1>30. ASSUME NEW h \in HttpHandler, EditAdminRoute(h) \/ EditReads(h) \/ EditStores(h)
       PROVE  ProcInv'
  BY <1>30 DEF EditAdminRoute, EditReads, EditStores, Overtakes, ProcTypeOK, Route
<1>31. CASE Crash
  BY <1>31 DEF Crash, Gone, ProcTypeOK, Route
<1>32. CASE UNCHANGED vars
  BY <1>32 DEF vars, ProcTypeOK, Route
<1> QED
  BY <1>1, <1>2, <1>3, <1>5, <1>6, <1>7, <1>8, <1>9, <1>10, <1>11, <1>12, <1>13, <1>14,
     <1>15, <1>16, <1>17, <1>18, <1>19, <1>20, <1>21, <1>22, <1>23, <1>24, <1>25, <1>26, <1>27,
     <1>28, <1>29, <1>30, <1>31, <1>32
  DEF Next, MainStep, Drainer

\* What the theorems about shutdown and about the admin route rest on.
LEMMA ProcInvInvariant == Spec => []ProcInv
<1>1. Init => ProcTypeOK
  <2> SUFFICES ASSUME Init PROVE ProcTypeOK
    OBVIOUS
  <2>1. /\ errChan \in BOOLEAN /\ overtaken \in BOOLEAN /\ warned \in BOOLEAN
        /\ overrun \in BOOLEAN /\ panicked \in BOOLEAN
    BY DEF Init, Fresh
  <2>2. /\ adminRule \in Route /\ adminRow \in Route /\ tickCopy \in Route
        /\ copy \in [HttpHandler -> Route]
    BY DEF Init, Fresh, Route
  <2>3. queue = 0
    BY DEF Init, Fresh
  <2>4. handler \in [Handler -> {"idle", "gate", "serving", "edited", "refreshing"}]
    BY DEF Init, Fresh
  <2>5. adminGroup \in BOOLEAN
    BY DEF Init
  <2>6. /\ main = "off" /\ ctx = "live" /\ http = "none" /\ raw = "none" /\ logChan = "open"
        /\ drainer = "none" /\ ticker = "none" /\ store = "closed"
    BY DEF Init, Fresh
  <2>7. queue \in 0 .. QueueCap
    BY <2>3, LifecycleAssumption
  <2> QED BY <2>1, <2>2, <2>4, <2>5, <2>6, <2>7 DEF ProcTypeOK
<1>2. Init => ProcInv
  BY <1>1 DEF Init, Fresh, ProcInv, Early, Listening, Closing, Sending, Drain, Guarded, Quiesced,
              Starting, Handler
<1>3. ProcInv /\ [Next]_vars => ProcInv'
  BY ProcTypeStep, ProcInvStep DEF ProcInv
<1> QED BY <1>2, <1>3, PTL DEF Spec

\* A shutdown loses no entry of the access log: when store.Close has run the
\* queue is empty and its goroutine has ended.
THEOREM LogFlushed == Spec => []FlushedBeforeClose
<1>1. ProcInv => FlushedBeforeClose
  BY DEF ProcInv, Drain, FlushedBeforeClose
<1> QED BY <1>1, ProcInvInvariant, PTL

\* A send on the closed queue is met only by a handler that the shutdown did
\* not wait for.
THEOREM SendsAreSafe == Spec => []NoLateSend
<1>1. ProcInv => NoLateSend
  BY DEF ProcInv, Sending, NoLateSend
<1> QED BY <1>1, ProcInvInvariant, PTL

\* A process that serves requests takes the admin route for public only if the
\* administrator has made it so, the start has warned, or its protection was
\* overtaken by the ticker.
THEOREM AdminRouteProtected == Spec => []AdminProtected
<1>1. ProcInv => AdminProtected
  BY DEF ProcInv, Guarded, AdminProtected
<1> QED BY <1>1, ProcInvInvariant, PTL

-----------------------------------------------------------------------------
\* Past storage.New the database has been migrated.
Booted == main \notin {"off", "open"} => boot.at = "migrated"

BootInv == MigInv /\ Whole /\ Booted

\* What a step of the whole program does to the database and to storage.New.
LEMMA BootStep == BootInv /\ ProcInv /\ [Next]_vars => BootInv'
<1> SUFFICES ASSUME BootInv, ProcInv, [Next]_vars PROVE BootInv'
  OBVIOUS
<1>1. CASE Open
  <2>1. MigInv'
    BY <1>1, OpenKeeps, MarkKeeps, NextKeeps, ExecKeeps, RecordKeeps DEF Open, Migrate, BootInv
  <2>2. Whole'
    BY <1>1, OpenWhole, MarkWhole, NextWhole, ExecWhole, RecordWhole DEF Open, Migrate, BootInv
  <2> QED BY <1>1, <2>1, <2>2 DEF Open, BootInv, Booted
<1>2. CASE ((Refused /\ ~StatementFails) \/ Exit) /\ boot.at \in {"failed", "migrated"}
  <2>1. boot' = Off /\ UNCHANGED <<schema, versions, crashes, torn>> /\ main' = "off"
    BY <1>2 DEF Refused, Exit, Gone, disk
  <2>2. crashes' \in 0 .. MaxCrashes /\ torn' \in BOOLEAN
    BY <2>1 DEF BootInv, MigInv, MigType
  <2>3. MigInv'
    BY <2>1, <2>2, OffKeeps DEF BootInv
  <2>4. ~Fragile /\ torn \in BOOLEAN
    BY <1>2 DEF Fragile, BootInv, MigInv, MigType
  <2>5. torn' = (torn \/ Fragile)
    BY <2>1, <2>4
  <2>6. Whole'
    BY <2>1, <2>5, OffWhole DEF BootInv
  <2> QED BY <2>1, <2>3, <2>6 DEF BootInv, Booted
<1>3. CASE Crash \/ (Refused /\ StatementFails)
  <2>1. /\ boot' = Off /\ UNCHANGED <<schema, versions>> /\ main' = "off" /\ torn' = (torn \/ Fragile)
        /\ \/ crashes' = crashes
           \/ crashes < MaxCrashes /\ crashes' = crashes + 1
    BY <1>3 DEF Crash, Refused, StatementFails, MigCrash, Gone
  <2>2. crashes' \in 0 .. MaxCrashes
    BY <2>1, MigrationsAssumption DEF BootInv, MigInv, MigType
  <2>3. torn' \in BOOLEAN
    BY <2>1
  <2>4. MigInv'
    BY <2>1, <2>2, <2>3, OffKeeps DEF BootInv
  <2>5. Whole'
    BY <2>1, OffWhole DEF BootInv
  <2> QED BY <2>1, <2>4, <2>5 DEF BootInv, Booted
<1>4. CASE UNCHANGED <<schema, versions, boot, crashes, torn>> /\ (main \in {"off", "open"} =>
              main' \in {"off", "open"} \/ boot.at = "migrated")
  <2>1. MigInv'
    BY <1>4 DEF BootInv, MigInv, MigType, Recorded, Marking, Marked, Running, OldFirst, Finished,
                Hosted, Tables, Applied, Done
  <2>2. Known' = Known
    BY <1>4 DEF Known
  <2>3. Whole'
    BY <1>4, <2>2 DEF BootInv, Whole, NotAhead, NotBehind, FirstWhole, FirstRun, HasFirst, MarksAll,
                      Begun, Lost, Executed, Inferred, columnExists
  <2> QED BY <1>4, <2>1, <2>3 DEF BootInv, Booted
<1>5. (Refused /\ ~StatementFails) \/ Exit => boot.at \in {"failed", "migrated"}
  BY DEF Refused, Exit, BootInv, Booted
<1>6. CASE \/ \E h \in Handler : Accept(h) \/ LogAccess(h) \/ SendPanics(h) \/ Finish(h)
           \/ \E h \in HttpHandler : EditAdminRoute(h) \/ EditReads(h) \/ EditStores(h)
  BY <1>4, <1>6 DEF Accept, LogAccess, SendPanics, Finish, EditAdminRoute, EditReads, EditStores,
                    disk, ProcInv, Sending
<1>7. CASE \/ Seed \/ InitAuth \/ SyncRoutes \/ EnsureRouteGroup \/ RefreshCache
           \/ StartProxy \/ BeginShutdown
  BY <1>4, <1>7 DEF Seed, InitAuth, SyncRoutes, EnsureRouteGroup, RefreshCache,
                    StartProxy, BeginShutdown, disk
<1>8. CASE \/ ShutdownHTTP \/ RequestsDone \/ AllStopped \/ ShutdownTimeout \/ StopAuth \/ CloseStore
           \/ Take \/ Insert \/ Drained
  BY <1>4, <1>8 DEF ShutdownHTTP, RequestsDone, AllStopped, ShutdownTimeout, StopAuth, CloseStore,
                    Take, Insert, Drained, disk
<1>9. CASE \/ CloseRaw \/ Signal \/ ListenError \/ TickReads \/ TickStores \/ TickerStops
           \/ UNCHANGED vars
  BY <1>4, <1>9 DEF CloseRaw, Signal, ListenError, TickReads, TickStores, TickerStops, vars, disk
<1> QED BY <1>1, <1>2, <1>3, <1>5, <1>6, <1>7, <1>8, <1>9 DEF Next, MainStep, Drainer

\* What the theorems about the schema rest on.
LEMMA BootInvInvariant == Spec => []BootInv
<1>1. Init => BootInv
  BY MigInitKeeps, MigInitWhole DEF Init, Fresh, BootInv, Booted
<1> QED BY <1>1, BootStep, ProcInvInvariant, PTL DEF Spec

\* The types of the whole state; in particular the access log never holds more
\* than its capacity.
THEOREM TypeCorrect == Spec => []TypeOK
<1>1. MigInv => MigTypeOK
  <2> SUFFICES ASSUME MigInv PROVE MigTypeOK
    OBVIOUS
  <2>1. boot.todo \subseteq Version
    BY Lengths DEF MigInv, MigType
  <2>2. Len(Script) = 15
    BY DEF Script
  <2> QED BY <2>1, <2>2 DEF MigInv, MigType, MigTypeOK
<1>2. BootInv /\ ProcInv => TypeOK
  BY <1>1 DEF BootInv, ProcInv, ProcTypeOK, TypeOK
<1> QED BY <1>2, BootInvInvariant, ProcInvInvariant, PTL

\* The program never runs on a schema that the migration files do not lead to,
\* however often starts were cut off between their statements.
THEOREM MigratedComplete == Spec => []MigratedIsComplete
<1>1. BootInv => MigratedIsComplete
  BY CompleteWhenMigrated DEF BootInv
<1> QED BY <1>1, BootInvInvariant, PTL

\* A start is refused only if an earlier one was cut off where the files cannot
\* be repeated; every database of an earlier release is migrated.
THEOREM RefusedTorn == Spec => []RefusedOnlyTorn
<1>1. BootInv => RefusedOnlyTorn
  BY UntornAccepted DEF BootInv
<1> QED BY <1>1, BootInvInvariant, PTL
=============================================================================

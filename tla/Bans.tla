-------------------------------- MODULE Bans --------------------------------
(***************************************************************************)
(* The ban list of proxy/limiter.go: the in-memory set every request is    *)
(* tested against, the banned_ips table it is mirrored to, and the four    *)
(* parties that write them without a common lock: Ban (automatic or by an  *)
(* administrator), Unban, the reload at the end of every refreshCache, and *)
(* the cleanup of the ticker; and a crash with restart.                    *)
(*                                                                         *)
(* Ban and Unban change the memory first and the table second; a reload    *)
(* reads the table first and replaces the memory second.                   *)
(***************************************************************************)
EXTENDS Integers

CONSTANTS
    IP,
    Caller,      \* goroutines inside Ban or Unban
    Reloader,    \* goroutines inside reloadThrottle
    Duration,    \* ban durations; 0 means until cleared
    ZoneOffset,  \* local time zone minus UTC (see DbActive)
    NoBan, Forever,
    MaxTime, MaxCalls, MaxRestarts, MaxFaults   \* bounds

ASSUME BansAssumption ==
    /\ Duration \subseteq Nat
    /\ ZoneOffset \in Int
    /\ NoBan \notin Nat /\ Forever \notin Nat /\ NoBan # Forever
    /\ {MaxTime, MaxCalls, MaxRestarts, MaxFaults} \subseteq Nat

VARIABLES
    now,
    mem,       \* banned: ip -> expiry
    db,        \* banned_ips: ip -> expires_at
    call,      \* caller -> what it still has to do
    snap,      \* reloader -> the rows it has read, or {} if it is idle
    calls, restarts, faults,   \* counters for the bounds
    owed,      \* history: the ban a caller was told of, if no Unban began since
    clean      \* history: no call met another call or a reload, none failed

vars == <<now, mem, db, call, snap, calls, restarts, faults, owed, clean>>

Expiry == Nat \cup {Forever}
Entry  == Expiry \cup {NoBan}
Table  == [IP -> Entry]

NoCall == [op |-> "none", ip |-> NoBan, exp |-> NoBan]
Call   == [op : {"none", "insert", "delete"}, ip : IP \cup {NoBan}, exp : Entry]

Init ==
    /\ now = 0
    /\ mem = [i \in IP |-> NoBan]
    /\ db  = [i \in IP |-> NoBan]
    /\ call = [c \in Caller |-> NoCall]
    /\ snap = [r \in Reloader |-> {}]
    /\ calls = 0 /\ restarts = 0 /\ faults = 0
    /\ owed = [i \in IP |-> NoBan]
    /\ clean = TRUE

-----------------------------------------------------------------------------
\* banSet.has: an entry holds until time.Now() is after its expiry.
InForce(e) == e # NoBan /\ (e # Forever => now <= e)

\* expires_at IS NULL OR expires_at > datetime('now'). The driver stores the
\* expiry as text in local time and datetime('now') is text in UTC, so the
\* two are ZoneOffset apart; the stored text is the longer one, so it also
\* compares greater in the second it names.
DbActive(e) == e # NoBan /\ (e # Forever => now <= e + ZoneOffset)

GetActiveBans == [i \in IP |-> IF DbActive(db[i]) THEN db[i] ELSE NoBan]

-----------------------------------------------------------------------------
\* A call begins: history only.
Meet == clean' = (/\ clean
                  /\ \A d \in Caller : call[d] = NoCall
                  /\ \A r \in Reloader : snap[r] = {})

\* Fault: the duration is subtracted.
Ban_Fault(c, i, d) ==
    /\ call[c] = NoCall /\ calls < MaxCalls
    /\ LET e == IF d > 0 THEN now - d ELSE Forever
       IN  /\ mem' = [mem EXCEPT ![i] = e]
           /\ call' = [call EXCEPT ![c] = [op |-> "insert", ip |-> i, exp |-> e]]
    /\ calls' = calls + 1
    /\ Meet
    /\ UNCHANGED <<now, db, snap, restarts, faults, owed>>

\* Ban: banned.set; the row is still to be written.
Ban(c, i, d) ==
    /\ call[c] = NoCall /\ calls < MaxCalls
    /\ LET e == IF d > 0 THEN now + d ELSE Forever
       IN  /\ mem' = [mem EXCEPT ![i] = e]
           /\ call' = [call EXCEPT ![c] = [op |-> "insert", ip |-> i, exp |-> e]]
    /\ calls' = calls + 1
    /\ Meet
    /\ UNCHANGED <<now, db, snap, restarts, faults, owed>>

\* Whether an Unban of i is between its two steps.
Unbanning(i) == \E c \in Caller : call[c].op = "delete" /\ call[c].ip = i

\* InsertBan: a new row, or the old one replaced.
InsertBan(c) ==
    /\ call[c].op = "insert"
    /\ LET i == call[c].ip
       IN  /\ db' = [db EXCEPT ![i] = call[c].exp]
           /\ owed' = [owed EXCEPT ![i] = IF Unbanning(i) THEN @ ELSE call[c].exp]
    /\ call' = [call EXCEPT ![c] = NoCall]
    /\ UNCHANGED <<now, mem, snap, calls, restarts, faults, clean>>

\* The insert fails: the error is logged and the ban is in memory only.
InsertBanFails(c) ==
    /\ call[c].op = "insert" /\ faults < MaxFaults
    /\ faults' = faults + 1
    /\ call' = [call EXCEPT ![c] = NoCall]
    /\ clean' = FALSE
    /\ UNCHANGED <<now, mem, db, snap, calls, restarts, owed>>

\* Fault: the memory is left to the next reload.
Unban_Fault(c, i) ==
    /\ call[c] = NoCall /\ calls < MaxCalls
    /\ UNCHANGED mem
    /\ call' = [call EXCEPT ![c] = [op |-> "delete", ip |-> i, exp |-> NoBan]]
    /\ calls' = calls + 1
    /\ owed' = [owed EXCEPT ![i] = NoBan]
    /\ Meet
    /\ UNCHANGED <<now, db, snap, restarts, faults>>

\* Unban: banned.del; the row is still to be deleted.
Unban(c, i) ==
    /\ call[c] = NoCall /\ calls < MaxCalls
    /\ mem' = [mem EXCEPT ![i] = NoBan]
    /\ call' = [call EXCEPT ![c] = [op |-> "delete", ip |-> i, exp |-> NoBan]]
    /\ calls' = calls + 1
    /\ owed' = [owed EXCEPT ![i] = NoBan]
    /\ Meet
    /\ UNCHANGED <<now, db, snap, restarts, faults>>

\* DeleteBan, and UnbanIP returns.
DeleteBan(c) ==
    /\ call[c].op = "delete"
    /\ db' = [db EXCEPT ![call[c].ip] = NoBan]
    /\ call' = [call EXCEPT ![c] = NoCall]
    /\ UNCHANGED <<now, mem, snap, calls, restarts, faults, owed, clean>>

\* The delete fails: the error is dropped, and the row outlives the Unban.
DeleteBanFails(c) ==
    /\ call[c].op = "delete" /\ faults < MaxFaults
    /\ faults' = faults + 1
    /\ call' = [call EXCEPT ![c] = NoCall]
    /\ clean' = FALSE
    /\ UNCHANGED <<now, mem, db, snap, calls, restarts, owed>>

-----------------------------------------------------------------------------
\* reloadThrottle: GetActiveBans, later banned.replace. (A reload or a cleanup
\* whose statement fails changes nothing.)
ReloadRead(r) ==
    /\ snap[r] = {}
    /\ snap' = [snap EXCEPT ![r] = {GetActiveBans}]
    /\ clean' = (clean /\ \A d \in Caller : call[d] = NoCall)
    /\ UNCHANGED <<now, mem, db, call, calls, restarts, faults, owed>>

\* Fault: rows are added to the set and none is removed from it.
ReloadReplace_Fault(r) ==
    /\ snap[r] # {}
    /\ \E s \in snap[r] :
         mem' = [i \in IP |-> IF s[i] = NoBan THEN mem[i] ELSE s[i]]
    /\ snap' = [snap EXCEPT ![r] = {}]
    /\ UNCHANGED <<now, db, call, calls, restarts, faults, owed, clean>>

ReloadReplace(r) ==
    /\ snap[r] # {}
    /\ mem' \in snap[r]
    /\ snap' = [snap EXCEPT ![r] = {}]
    /\ UNCHANGED <<now, db, call, calls, restarts, faults, owed, clean>>

\* banSet.has on a request from an address whose ban has run out: the entry
\* is tested again under the lock and removed.
EvictExpired(i) ==
    /\ mem[i] # NoBan /\ ~InForce(mem[i])
    /\ mem' = [mem EXCEPT ![i] = NoBan]
    /\ UNCHANGED <<now, db, call, snap, calls, restarts, faults, owed, clean>>

\* Fault: bans without an expiry are taken for expired ones.
CleanupExpiredBans_Fault ==
    /\ db' = [i \in IP |-> IF DbActive(db[i]) /\ db[i] # Forever THEN db[i] ELSE NoBan]
    /\ UNCHANGED <<now, mem, call, snap, calls, restarts, faults, owed, clean>>

CleanupExpiredBans ==
    /\ db' = [i \in IP |-> IF DbActive(db[i]) THEN db[i] ELSE NoBan]
    /\ UNCHANGED <<now, mem, call, snap, calls, restarts, faults, owed, clean>>

\* The process dies between any two steps.
Dies ==
    /\ restarts < MaxRestarts
    /\ restarts' = restarts + 1
    /\ call' = [c \in Caller |-> NoCall]
    /\ snap' = [r \in Reloader |-> {}]
    /\ UNCHANGED <<now, db, calls, owed>>

\* InitAuth loads the table before the listeners open.
Restart ==
    /\ Dies
    /\ mem' = GetActiveBans
    /\ clean' = (clean /\ \A c \in Caller : call[c] = NoCall)
    /\ UNCHANGED faults

\* The load fails, here or earlier in refreshCache: the error is logged and
\* the listeners open with nobody banned until a reload succeeds.
RestartUnloaded ==
    /\ Dies
    /\ faults < MaxFaults
    /\ faults' = faults + 1
    /\ mem' = [i \in IP |-> NoBan]
    /\ clean' = FALSE

Tick ==
    /\ now < MaxTime
    /\ now' = now + 1
    /\ UNCHANGED <<mem, db, call, snap, calls, restarts, faults, owed, clean>>

Next ==
    \/ \E c \in Caller, i \in IP : (\E d \in Duration : Ban(c, i, d)) \/ Unban(c, i)
    \/ \E c \in Caller : InsertBan(c) \/ InsertBanFails(c) \/ DeleteBan(c) \/ DeleteBanFails(c)
    \/ \E r \in Reloader : ReloadRead(r) \/ ReloadReplace(r)
    \/ \E i \in IP : EvictExpired(i)
    \/ CleanupExpiredBans \/ Restart \/ RestartUnloaded \/ Tick

\* A call that has begun goes on, and the ticker reloads again and again,
\* its query not failing for ever.
Fairness ==
    /\ \A c \in Caller : WF_vars(InsertBan(c)) /\ WF_vars(DeleteBan(c))
    /\ \A r \in Reloader : WF_vars(ReloadRead(r)) /\ WF_vars(ReloadReplace(r))

Spec == Init /\ [][Next]_vars /\ Fairness

-----------------------------------------------------------------------------
(* Properties                                                              *)

\* The state has the types of its declarations.
TypeOK ==
    /\ now \in Nat
    /\ mem \in Table
    /\ db \in Table
    /\ call \in [Caller -> Call]
    /\ snap \in [Reloader -> SUBSET Table]
    /\ calls \in Nat /\ restarts \in Nat /\ faults \in Nat
    /\ owed \in Table
    /\ clean \in BOOLEAN

\* How long before its expiry a row is out of the database's sight: the time
\* by which local time is behind UTC.
Early == IF ZoneOffset < 0 THEN -ZoneOffset ELSE 0

\* A ban with more than that to go.
Lasting(e) == e # NoBan /\ (e # Forever => now + Early <= e)

\* A ban that Ban has recorded stays in the table, through restarts,
\* cleanups and bans of the same address, until an Unban of that address
\* begins or it has no more than Early to go: where local time is not behind
\* UTC, until it runs out. (docs/concepts.md says "survive restarts" without
\* the exception: a ban shorter than the zone's offset survives none.)
Persisted ==
    \A i \in IP : Lasting(owed[i]) => db[i] = owed[i]

\* As long as no call of Ban or Unban has met another call, a reload or a
\* crash, and no insert, delete or load at start has failed, the memory
\* enforces exactly the lasting bans of the table whenever no call is in
\* progress.
AgreeWhenAlone ==
    (clean /\ \A c \in Caller : call[c] = NoCall) =>
        \A i \in IP : Lasting(mem[i]) = Lasting(db[i])

\* Whatever calls, reloads, restarts and failures did to each other, once the
\* calls have ended the memory comes to enforce exactly the lasting bans of
\* the table, for good.
EventuallyAgree ==
    <>[](\A i \in IP : Lasting(mem[i]) = Lasting(db[i]))
=============================================================================

------------------------------ MODULE Refresh -------------------------------
(***************************************************************************)
(* How an administrator's edit reaches the proxy: the database rows, the   *)
(* in-memory copies that requests read (authCache, globalSettings,         *)
(* policies) and refreshCache, which copies one after the other. Every     *)
(* admin handler calls it after its statement, the ticker of InitAuth      *)
(* calls it every five minutes, and nothing keeps two calls apart.         *)
(*                                                                         *)
(* A copy is the version of the row it was read from; the version grows by *)
(* one with every edit. Default stands for defaultSettings, which          *)
(* GetSettings returns when its query fails. The ban list, the last thing  *)
(* refreshCache reloads, has writers of its own and is the subject of      *)
(* module Bans.                                                            *)
(***************************************************************************)
EXTENDS Naturals, Sequences

CONSTANTS
    Handler,    \* goroutines serving admin requests
    Ticker,     \* the goroutine of InitAuth
    Default,
    MaxEdits,   \* bound: edits in all
    MaxFaults   \* bound: failing queries

ASSUME RefreshAssumption ==
    /\ MaxEdits \in Nat /\ MaxFaults \in Nat
    /\ Default \notin Nat /\ Ticker \notin Handler

\* The order in which refreshCache and reloadThrottle reload the copies.
Order == <<"routes", "settings", "policies">>

Cell == {"routes", "settings", "policies"}
Proc == Handler \cup {Ticker}

VARIABLES
    db,       \* cell -> version of the row
    cache,    \* cell -> version of the copy
    pc,       \* "idle", "read" or "store"
    step,     \* position in Order
    snap,     \* what the last query of the refresh returned
    edit,     \* handler -> the edit it has made and not yet acknowledged
    acked,    \* history: cell -> latest version a handler has acknowledged
    overlap,  \* history: two refreshes have been in progress at a time
    faults    \* history: queries that failed

vars == <<db, cache, pc, step, snap, edit, acked, overlap, faults>>

Value == Nat \cup {Default}
NoEdit == [cell |-> "routes", version |-> 0]

Init ==
    /\ db = [c \in Cell |-> 0]
    /\ cache = [c \in Cell |-> 0]
    /\ pc = [p \in Proc |-> "idle"]
    /\ step = [p \in Proc |-> 1]
    /\ snap = [p \in Proc |-> 0]
    /\ edit = [h \in Handler |-> NoEdit]
    /\ acked = [c \in Cell |-> 0]
    /\ overlap = FALSE
    /\ faults = 0

\* refreshCache is entered.
Enter(p) ==
    /\ pc' = [pc EXCEPT ![p] = "read"]
    /\ step' = [step EXCEPT ![p] = 1]
    /\ overlap' = (overlap \/ \E q \in Proc \ {p} : pc[q] # "idle")

\* An admin handler commits its statement and calls OnRouteUpdate.
Edit(h, c) ==
    /\ pc[h] = "idle"
    /\ db["routes"] + db["settings"] + db["policies"] < MaxEdits
    /\ db' = [db EXCEPT ![c] = @ + 1]
    /\ edit' = [edit EXCEPT ![h] = [cell |-> c, version |-> db[c] + 1]]
    /\ Enter(h)
    /\ UNCHANGED <<cache, snap, acked, faults>>

\* HandleAdminRoutes (POST, PUT, DELETE), HandleAdminSettings (PUT) and
\* HandleAdminThrottle (PUT, DELETE of a tier).
EditRoutes(h)   == Edit(h, "routes")
EditSettings(h) == Edit(h, "settings")
EditPolicies(h) == Edit(h, "policies")

\* Fault: the ticker cleans up and refreshes nothing.
Tick_Fault ==
    /\ pc[Ticker] = "idle"
    /\ UNCHANGED vars

Tick ==
    /\ pc[Ticker] = "idle"
    /\ Enter(Ticker)
    /\ UNCHANGED <<db, cache, snap, edit, acked, faults>>

\* refreshCache returns; a handler answers its client.
Return(p) ==
    /\ pc' = [pc EXCEPT ![p] = "idle"]
    /\ IF p \in Handler
       THEN /\ acked' = [acked EXCEPT ![edit[p].cell] =
                            IF edit[p].version > @ THEN edit[p].version ELSE @]
            /\ edit' = [edit EXCEPT ![p] = NoEdit]
       ELSE UNCHANGED <<acked, edit>>

Query(p) ==
    /\ pc[p] = "read"
    /\ snap' = [snap EXCEPT ![p] = db[Order[step[p]]]]
    /\ pc' = [pc EXCEPT ![p] = "store"]
    /\ UNCHANGED <<db, cache, step, edit, acked, overlap, faults>>

\* Fault: one step too many.
Advance_Fault(p) ==
    IF step[p] <= Len(Order)
    THEN /\ step' = [step EXCEPT ![p] = @ + 1]
         /\ pc' = [pc EXCEPT ![p] = "read"]
         /\ UNCHANGED <<edit, acked>>
    ELSE Return(p) /\ UNCHANGED step

\* Go on with the next copy, or return after the last.
Advance(p) ==
    IF step[p] < Len(Order)
    THEN /\ step' = [step EXCEPT ![p] = @ + 1]
         /\ pc' = [pc EXCEPT ![p] = "read"]
         /\ UNCHANGED <<edit, acked>>
    ELSE Return(p) /\ UNCHANGED step

\* Fault: the policies fall back to built-in ones, as the settings do.
QueryFails_Fault(p) ==
    /\ pc[p] = "read"
    /\ faults < MaxFaults
    /\ faults' = faults + 1
    /\ IF Order[step[p]] = "routes"
       THEN Return(p) /\ UNCHANGED <<step, snap>>
       ELSE /\ snap' = [snap EXCEPT ![p] = Default]
            /\ pc' = [pc EXCEPT ![p] = "store"]
            /\ UNCHANGED <<step, edit, acked>>
    /\ UNCHANGED <<db, cache, overlap>>

\* A failing query ends the refresh (routes), yields the defaults (settings)
\* or leaves the old copy (policies).
QueryFails(p) ==
    /\ pc[p] = "read"
    /\ faults < MaxFaults
    /\ faults' = faults + 1
    /\ CASE Order[step[p]] = "routes" ->
              Return(p) /\ UNCHANGED <<step, snap>>
         [] Order[step[p]] = "settings" ->
              /\ snap' = [snap EXCEPT ![p] = Default]
              /\ pc' = [pc EXCEPT ![p] = "store"]
              /\ UNCHANGED <<step, edit, acked>>
         [] OTHER -> Advance(p) /\ UNCHANGED snap
    /\ UNCHANGED <<db, cache, overlap>>

\* Fault: the settings are kept from before when the routes are stored.
SkipSettings_Fault(p) ==
    /\ pc[p] = "store"
    /\ cache' = [cache EXCEPT ![Order[step[p]]] =
                    IF p # Ticker /\ step[p] = 2 THEN @ ELSE snap[p]]
    /\ Advance(p)
    /\ UNCHANGED <<db, snap, overlap, faults>>

\* atomic.Value.Store of the copy.
Store(p) ==
    /\ pc[p] = "store"
    /\ cache' = [cache EXCEPT ![Order[step[p]]] = snap[p]]
    /\ Advance(p)
    /\ UNCHANGED <<db, snap, overlap, faults>>

Next ==
    \/ \E h \in Handler : EditRoutes(h) \/ EditSettings(h) \/ EditPolicies(h)
    \/ Tick
    \/ \E p \in Proc : Query(p) \/ QueryFails(p) \/ Store(p)

\* A goroutine that has begun a refresh goes on with it, and the ticker's
\* channel fires again and again.
Fairness ==
    /\ WF_vars(Tick)
    /\ \A p \in Proc : WF_vars(Query(p)) /\ WF_vars(Store(p))

Spec == Init /\ [][Next]_vars /\ Fairness

-----------------------------------------------------------------------------
(* Properties                                                              *)

\* The state has the types of its declarations.
TypeOK ==
    /\ db \in [Cell -> 0 .. MaxEdits]
    /\ cache \in [Cell -> Value]
    /\ pc \in [Proc -> {"idle", "read", "store"}]
    /\ step \in [Proc -> 1 .. 3]
    /\ snap \in [Proc -> Value]
    /\ edit \in [Handler -> [cell : Cell, version : Nat]]
    /\ acked \in [Cell -> Nat]
    /\ overlap \in BOOLEAN
    /\ faults \in 0 .. MaxFaults

\* The proxy never enforces anything the database did not hold at some time
\* (or, for the settings, the built-in defaults after a failed query).
NothingInvented ==
    \A c \in Cell : \/ cache[c] \in 0 .. db[c]
                    \/ c = "settings" /\ cache[c] = Default /\ faults > 0

\* As long as refreshes have not overlapped and no query has failed, every
\* edit whose handler has answered is in force: the refresh in the handler
\* is what makes a change take effect at once. (The condition is needed: a
\* refresh that read the rows before the edit may store its copy after the
\* handler's, and undo it until the next refresh.)
InForceAlone ==
    (~overlap /\ faults = 0) => \A c \in Cell : cache[c] >= acked[c]

\* Once edits and failures have ended, the copies agree with the database
\* for good: the ticker repairs what overlapping refreshes left behind.
EventuallyCoherent == <>[](\A c \in Cell : cache[c] = db[c])
=============================================================================

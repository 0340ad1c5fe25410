---------------------------- MODULE RefreshProofs ---------------------------
(***************************************************************************)
(* Proofs about Refresh, for any number of admin handlers next to the      *)
(* ticker and any number of edits and failing queries.                     *)
(***************************************************************************)
EXTENDS Refresh, TLAPS

\* What a refresh is about to store came from the database, or is the
\* defaults, if it is the settings and their query failed.
Read ==
    \A p \in Proc : pc[p] = "store" =>
        \/ snap[p] \in 0 .. db[Order[step[p]]]
        \/ step[p] = 2 /\ snap[p] = Default /\ faults > 0

\* A handler acknowledges, or is about to, only what it has committed.
Committed ==
    /\ \A c \in Cell : acked[c] <= db[c]
    /\ \A h \in Handler : edit[h].version <= db[edit[h].cell]

\* As long as refreshes have not overlapped, one of them is under way at most.
Single ==
    ~overlap => \A p, q \in Proc : pc[p] # "idle" /\ pc[q] # "idle" => p = q

\* Then, with no query failing, a refresh leaves behind it copies that agree
\* with the rows, and what it is about to store agrees too.
Current ==
    (~overlap /\ faults = 0) =>
        \A p \in Proc : pc[p] # "idle" =>
            /\ step[p] > 1 => cache["routes"] = db["routes"]
            /\ step[p] > 2 => cache["settings"] = db["settings"]
            /\ pc[p] = "store" => snap[p] = db[Order[step[p]]]

\* What the proofs show to be inductive.
Inv ==
    TypeOK /\ Read /\ NothingInvented /\ Committed /\ Single /\ Current /\ InForceAlone

\* The order of the copies, position by position.
LEMMA Positions ==
    /\ Len(Order) = 3
    /\ Order[1] = "routes" /\ Order[2] = "settings" /\ Order[3] = "policies"
    /\ \A i \in 1 .. 3 : Order[i] \in Cell
    /\ \A i, j \in 1 .. 3 : Order[i] = Order[j] => i = j
  BY DEF Order, Cell

-----------------------------------------------------------------------------
(* Types                                                                   *)

\* refreshCache is entered, by a handler or by the ticker.
LEMMA EnterTyped ==
    ASSUME TypeOK, NEW p \in Proc, Enter(p)
    PROVE  /\ pc' \in [Proc -> {"idle", "read", "store"}]
           /\ step' \in [Proc -> 1 .. 3]
           /\ overlap' \in BOOLEAN
<1>1. overlap' \in BOOLEAN
  BY DEF Enter
<1> QED BY <1>1 DEF Enter, TypeOK

\* refreshCache returns.
LEMMA ReturnTyped ==
    ASSUME TypeOK, NEW p \in Proc, Return(p)
    PROVE  /\ pc' \in [Proc -> {"idle", "read", "store"}]
           /\ edit' \in [Handler -> [cell : Cell, version : Nat]]
           /\ acked' \in [Cell -> Nat]
  BY DEF Return, TypeOK, NoEdit, Cell

\* It goes on or returns.
LEMMA AdvanceTyped ==
    ASSUME TypeOK, NEW p \in Proc, Advance(p)
    PROVE  /\ pc' \in [Proc -> {"idle", "read", "store"}]
           /\ step' \in [Proc -> 1 .. 3]
           /\ edit' \in [Handler -> [cell : Cell, version : Nat]]
           /\ acked' \in [Cell -> Nat]
<1>1. CASE step[p] < Len(Order)
  <2>1. step[p] + 1 \in 1 .. 3
    BY <1>1, Positions DEF TypeOK
  <2> QED BY <1>1, <2>1 DEF Advance, TypeOK
<1>2. CASE ~(step[p] < Len(Order))
  BY <1>2, ReturnTyped DEF Advance, TypeOK
<1> QED BY <1>1, <1>2

\* A query that fails ends the refresh, yields the defaults or goes on.
LEMMA FailureTyped ==
    ASSUME TypeOK, NEW p \in Proc, QueryFails(p)
    PROVE  TypeOK'
<1> USE RefreshAssumption, Positions DEF TypeOK
<1>1. faults' \in 0 .. MaxFaults
  BY DEF QueryFails
<1>2. CASE step[p] = 1
  <2>1. Return(p) /\ UNCHANGED <<step, snap>> /\ UNCHANGED <<db, cache, overlap>>
    BY <1>2 DEF QueryFails
  <2> QED BY <1>1, <2>1, ReturnTyped
<1>3. CASE step[p] = 2
  <2>1. /\ snap' = [snap EXCEPT ![p] = Default]
        /\ pc' = [pc EXCEPT ![p] = "store"]
        /\ UNCHANGED <<step, edit, acked>> /\ UNCHANGED <<db, cache, overlap>>
    BY <1>3 DEF QueryFails
  <2> QED BY <1>1, <2>1 DEF Value
<1>4. CASE step[p] = 3
  <2>1. Advance(p) /\ UNCHANGED snap /\ UNCHANGED <<db, cache, overlap>>
    BY <1>4 DEF QueryFails
  <2> QED BY <1>1, <2>1, AdvanceTyped
<1>5. step[p] \in 1 .. 3
  OBVIOUS
<1> QED BY <1>2, <1>3, <1>4, <1>5

\* Every step keeps the types; the bound on the edits bounds each row.
LEMMA TypeStep == TypeOK /\ [Next]_vars => TypeOK'
<1> SUFFICES ASSUME TypeOK, [Next]_vars PROVE TypeOK'
  OBVIOUS
<1> USE RefreshAssumption
<1>1. ASSUME NEW h \in Handler, NEW c \in Cell, Edit(h, c) PROVE TypeOK'
  <2>1. h \in Proc
    BY DEF Proc
  <2>2. db[c] + 1 \in 0 .. MaxEdits
    BY <1>1 DEF Edit, TypeOK, Cell
  <2>3. db' \in [Cell -> 0 .. MaxEdits]
    BY <1>1, <2>2 DEF Edit, TypeOK
  <2>4. edit' \in [Handler -> [cell : Cell, version : Nat]]
    BY <1>1, <2>2 DEF Edit, TypeOK
  <2>5. Enter(h) /\ UNCHANGED <<cache, snap, acked, faults>>
    BY <1>1 DEF Edit
  <2> QED BY <2>1, <2>3, <2>4, <2>5, EnterTyped DEF TypeOK
<1>2. CASE Tick
  <2>1. Ticker \in Proc /\ Enter(Ticker)
    BY <1>2 DEF Tick, Proc
  <2>2. UNCHANGED <<db, cache, snap, edit, acked, faults>>
    BY <1>2 DEF Tick
  <2> QED BY <2>1, <2>2, EnterTyped DEF TypeOK
<1>3. ASSUME NEW p \in Proc, Query(p) PROVE TypeOK'
  BY <1>3, Positions DEF Query, TypeOK, Value
<1>4. ASSUME NEW p \in Proc, QueryFails(p) PROVE TypeOK'
  BY <1>4, FailureTyped
<1>5. ASSUME NEW p \in Proc, Store(p) PROVE TypeOK'
  <2>1. cache' \in [Cell -> Value]
    BY <1>5, Positions DEF Store, TypeOK
  <2>2. Advance(p) /\ UNCHANGED <<db, snap, overlap, faults>>
    BY <1>5 DEF Store
  <2> QED BY <2>1, <2>2, AdvanceTyped DEF TypeOK
<1>6. CASE UNCHANGED vars
  BY <1>6 DEF vars, TypeOK
<1> QED
  BY <1>1, <1>2, <1>3, <1>4, <1>5, <1>6
  DEF Next, EditRoutes, EditSettings, EditPolicies, Cell

-----------------------------------------------------------------------------
(* The steps                                                               *)

\* Rows only grow, so a copy that was in the database once stays so: what an
\* edit leaves alone of Inv. The handler's own refresh has stored nothing yet.
LEMMA EditKeeps ==
    ASSUME Inv, TypeOK', NEW h \in Handler, NEW c \in Cell, Edit(h, c)
    PROVE  Inv'
<1> USE DEF Inv
<1>1. h \in Proc
  BY DEF Proc
<1>2. /\ db' = [db EXCEPT ![c] = @ + 1]
      /\ pc' = [pc EXCEPT ![h] = "read"]
      /\ step' = [step EXCEPT ![h] = 1]
      /\ edit' = [edit EXCEPT ![h] = [cell |-> c, version |-> db[c] + 1]]
      /\ cache' = cache /\ snap' = snap /\ acked' = acked /\ faults' = faults
  BY DEF Edit, Enter
<1>3. \A d \in Cell : db[d] \in Nat /\ db'[d] \in Nat /\ db'[d] >= db[d]
  BY <1>2, RefreshAssumption DEF TypeOK
<1>4. ~overlap' => ~overlap /\ \A q \in Proc : q # h => pc[q] = "idle"
  BY DEF Edit, Enter
<1>5. Read'
  <2> SUFFICES ASSUME NEW p \in Proc, pc'[p] = "store"
               PROVE  \/ snap'[p] \in 0 .. db'[Order[step'[p]]]
                      \/ step'[p] = 2 /\ snap'[p] = Default /\ faults' > 0
    BY DEF Read
  <2>1. p # h /\ pc[p] = "store" /\ step'[p] = step[p] /\ step[p] \in 1 .. 3
    BY <1>1, <1>2 DEF TypeOK
  <2>2. Order[step[p]] \in Cell
    BY <2>1, Positions
  <2> QED BY <1>2, <1>3, <2>1, <2>2 DEF Read
<1>6. NothingInvented'
  BY <1>2, <1>3 DEF NothingInvented
<1>7. Committed'
  <2>1. \A d \in Cell : acked'[d] <= db'[d]
    BY <1>2, <1>3 DEF Committed, TypeOK
  <2>2. ASSUME NEW g \in Handler PROVE edit'[g].version <= db'[edit'[g].cell]
    <3>1. CASE g = h
      BY <1>2, <1>3, <3>1 DEF TypeOK
    <3>2. CASE g # h
      BY <1>2, <1>3, <3>2 DEF Committed, TypeOK
    <3> QED BY <3>1, <3>2
  <2> QED BY <2>1, <2>2 DEF Committed
<1>8. Single'
  BY <1>2, <1>4 DEF Single, TypeOK
<1>9. Current'
  BY <1>1, <1>2, <1>4 DEF Current, TypeOK
<1>10. InForceAlone'
  BY <1>2, <1>4 DEF InForceAlone
<1> QED BY <1>5, <1>6, <1>7, <1>8, <1>9, <1>10

\* The ticker begins a refresh.
LEMMA TickKeeps ==
    ASSUME Inv, TypeOK', Tick
    PROVE  Inv'
<1> USE DEF Inv
<1>1. Ticker \in Proc
  BY DEF Proc
<1>2. /\ pc' = [pc EXCEPT ![Ticker] = "read"]
      /\ step' = [step EXCEPT ![Ticker] = 1]
      /\ UNCHANGED <<db, cache, snap, edit, acked, faults>>
  BY DEF Tick, Enter
<1>3. ~overlap' => ~overlap /\ \A q \in Proc : q # Ticker => pc[q] = "idle"
  BY DEF Tick, Enter
<1>4. Read'
  BY <1>1, <1>2 DEF Read, TypeOK
<1>5. NothingInvented' /\ Committed'
  BY <1>2 DEF NothingInvented, Committed
<1>6. Single'
  BY <1>2, <1>3 DEF Single, TypeOK
<1>7. Current'
  BY <1>1, <1>2, <1>3 DEF Current, TypeOK
<1>8. InForceAlone'
  BY <1>2, <1>3 DEF InForceAlone
<1> QED BY <1>4, <1>5, <1>6, <1>7, <1>8

\* A query returns the row as it is now.
LEMMA QueryKeeps ==
    ASSUME Inv, TypeOK', NEW p \in Proc, Query(p)
    PROVE  Inv'
<1> USE DEF Inv
<1>1. /\ pc[p] = "read"
      /\ snap' = [snap EXCEPT ![p] = db[Order[step[p]]]]
      /\ pc' = [pc EXCEPT ![p] = "store"]
      /\ UNCHANGED <<db, cache, step, edit, acked, overlap, faults>>
  BY DEF Query
<1>2. Order[step[p]] \in Cell /\ db[Order[step[p]]] \in Nat
  BY Positions DEF TypeOK
<1>3. Read'
  BY <1>1, <1>2 DEF Read, TypeOK
<1>4. NothingInvented' /\ Committed' /\ InForceAlone'
  BY <1>1 DEF NothingInvented, Committed, InForceAlone
<1>5. Single'
  BY <1>1 DEF Single, TypeOK
<1>6. Current'
  BY <1>1 DEF Current, TypeOK
<1> QED BY <1>3, <1>4, <1>5, <1>6

\* What a handler acknowledges when its refresh returns is in the database.
LEMMA ReturnCommits ==
    ASSUME TypeOK, Committed, NEW p \in Proc, Return(p), db' = db
    PROVE  Committed'
<1>1. CASE p \in Handler
  <2>1. /\ acked' = [acked EXCEPT ![edit[p].cell] =
                        IF edit[p].version > @ THEN edit[p].version ELSE @]
        /\ edit' = [edit EXCEPT ![p] = NoEdit]
    BY <1>1 DEF Return
  <2>2. edit[p].cell \in Cell /\ edit[p].version \in Nat
    BY <1>1 DEF TypeOK
  <2>3. \A d \in Cell : acked'[d] <= db[d]
    BY <1>1, <2>1, <2>2 DEF Committed, TypeOK
  <2>4. \A h \in Handler : edit'[h].version <= db[edit'[h].cell]
    BY <2>1 DEF Committed, TypeOK, NoEdit, Cell
  <2> QED BY <2>3, <2>4 DEF Committed
<1>2. CASE p \notin Handler
  BY <1>2 DEF Return, Committed
<1> QED BY <1>1, <1>2

\* Going on to the next copy, or returning, acknowledges nothing that is not
\* in the database and begins no second refresh; p stores nothing before it
\* has read again.
LEMMA AdvanceKeeps ==
    ASSUME TypeOK, Committed, Single, NEW p \in Proc, pc[p] # "idle",
           Advance(p), db' = db, overlap' = overlap
    PROVE  /\ Committed' /\ Single'
           /\ pc'[p] \in {"idle", "read"}
           /\ \A q \in Proc : q # p => pc'[q] = pc[q] /\ step'[q] = step[q]
<1>1. CASE step[p] < Len(Order)
  <2>1. /\ step' = [step EXCEPT ![p] = @ + 1]
        /\ pc' = [pc EXCEPT ![p] = "read"]
        /\ UNCHANGED <<edit, acked>>
    BY <1>1 DEF Advance
  <2> QED BY <2>1 DEF TypeOK, Committed, Single
<1>2. CASE ~(step[p] < Len(Order))
  <2>1. Return(p) /\ step' = step /\ pc' = [pc EXCEPT ![p] = "idle"]
    BY <1>2 DEF Advance, Return
  <2> QED BY <2>1, ReturnCommits DEF TypeOK, Single
<1> QED BY <1>1, <1>2

\* A failing query: the copies stay as they are, and only the settings are
\* about to be replaced by the defaults.
LEMMA FailureKeeps ==
    ASSUME Inv, TypeOK', NEW p \in Proc, QueryFails(p)
    PROVE  Inv'
<1> USE Positions DEF Inv
<1>1. /\ pc[p] = "read" /\ faults' = faults + 1
      /\ UNCHANGED <<db, cache, overlap>>
  BY DEF QueryFails
<1>2. faults \in Nat /\ faults' \in Nat /\ faults' > 0
  BY <1>1 DEF TypeOK
<1>3. NothingInvented' /\ Current' /\ InForceAlone'
  BY <1>1, <1>2 DEF NothingInvented, Current, InForceAlone
<1>4. CASE step[p] = 1
  <2>1. Return(p) /\ UNCHANGED <<step, snap>>
    BY <1>4 DEF QueryFails
  <2>2. pc' = [pc EXCEPT ![p] = "idle"]
    BY <2>1 DEF Return
  <2>3. Read'
    BY <1>1, <1>2, <2>1, <2>2 DEF Read, TypeOK
  <2>4. Single'
    BY <1>1, <2>2 DEF Single, TypeOK
  <2>5. Committed'
    BY <1>1, <2>1, ReturnCommits
  <2> QED BY <1>3, <2>3, <2>4, <2>5
<1>5. CASE step[p] = 2
  <2>1. /\ snap' = [snap EXCEPT ![p] = Default]
        /\ pc' = [pc EXCEPT ![p] = "store"]
        /\ UNCHANGED <<step, edit, acked>>
    BY <1>5 DEF QueryFails
  <2>2. Read'
    BY <1>1, <1>2, <1>5, <2>1 DEF Read, TypeOK
  <2>3. Single'
    BY <1>1, <2>1 DEF Single, TypeOK
  <2>4. Committed'
    BY <1>1, <2>1 DEF Committed
  <2> QED BY <1>3, <2>2, <2>3, <2>4
<1>6. CASE step[p] = 3
  <2>1. Advance(p) /\ snap' = snap
    BY <1>6 DEF QueryFails
  <2>2. /\ Committed' /\ Single'
        /\ pc'[p] \in {"idle", "read"}
        /\ \A q \in Proc : q # p => pc'[q] = pc[q] /\ step'[q] = step[q]
    BY <1>1, <2>1, AdvanceKeeps
  <2>3. Read'
    BY <1>1, <1>2, <2>1, <2>2 DEF Read
  <2> QED BY <1>3, <2>2, <2>3
<1>7. step[p] \in 1 .. 3
  BY DEF TypeOK
<1> QED BY <1>4, <1>5, <1>6, <1>7

\* A copy is replaced. If no other refresh is under way, the copy agrees with
\* its row from here on, and the last copy makes the edit effective.
LEMMA StoreKeeps ==
    ASSUME Inv, TypeOK', NEW p \in Proc, Store(p)
    PROVE  Inv'
<1> USE Positions DEF Inv
<1>1. /\ pc[p] = "store" /\ Advance(p)
      /\ cache' = [cache EXCEPT ![Order[step[p]]] = snap[p]]
      /\ UNCHANGED <<db, snap, overlap, faults>>
  BY DEF Store
<1>2. step[p] \in 1 .. 3 /\ Order[step[p]] \in Cell
  BY DEF TypeOK
<1>3. /\ Committed' /\ Single'
      /\ pc'[p] \in {"idle", "read"}
      /\ \A q \in Proc : q # p => pc'[q] = pc[q] /\ step'[q] = step[q]
  BY <1>1, AdvanceKeeps
<1>4. Read'
  BY <1>1, <1>3 DEF Read
<1>5. NothingInvented'
  <2> SUFFICES ASSUME NEW c \in Cell
               PROVE  \/ cache'[c] \in 0 .. db'[c]
                      \/ c = "settings" /\ cache'[c] = Default /\ faults' > 0
    BY DEF NothingInvented
  <2>1. CASE c = Order[step[p]]
    <3>1. cache'[c] = snap[p]
      BY <1>1, <2>1 DEF TypeOK
    <3> QED BY <1>1, <1>2, <2>1, <3>1 DEF Read
  <2>2. CASE c # Order[step[p]]
    BY <1>1, <2>2 DEF NothingInvented, TypeOK
  <2> QED BY <2>1, <2>2
<1>6. ASSUME ~overlap, faults = 0
      PROVE  /\ cache'[Order[step[p]]] = db[Order[step[p]]]
             /\ step[p] > 1 => cache'["routes"] = db["routes"]
             /\ step[p] > 2 => cache'["settings"] = db["settings"]
             /\ \A q \in Proc : q # p => pc[q] = "idle"
  <2>1. snap[p] = db[Order[step[p]]]
    BY <1>1, <1>6 DEF Current
  <2>2. \A q \in Proc : q # p => pc[q] = "idle"
    BY <1>1, <1>6 DEF Single
  <2>3. /\ step[p] > 1 => cache["routes"] = db["routes"]
        /\ step[p] > 2 => cache["settings"] = db["settings"]
    BY <1>1, <1>6 DEF Current
  <2> QED BY <1>1, <1>2, <2>1, <2>2, <2>3 DEF TypeOK, Cell
<1>7. step[p] < 3 => step'[p] = step[p] + 1 /\ acked' = acked
  BY <1>1 DEF Advance, TypeOK
<1>8. step[p] = 3 => pc'[p] = "idle"
  BY <1>1 DEF Advance, Return, TypeOK
<1>9. Current'
  <2> SUFFICES ASSUME ~overlap, faults = 0, NEW q \in Proc, pc'[q] # "idle"
               PROVE  /\ step'[q] > 1 => cache'["routes"] = db["routes"]
                      /\ step'[q] > 2 => cache'["settings"] = db["settings"]
                      /\ pc'[q] # "store"
    BY <1>1 DEF Current
  <2>1. q = p
    BY <1>3, <1>6
  <2> QED BY <1>2, <1>3, <1>6, <1>7, <1>8, <2>1
<1>10. InForceAlone'
  <2> SUFFICES ASSUME ~overlap, faults = 0, NEW c \in Cell
               PROVE  cache'[c] >= acked'[c]
    BY <1>1 DEF InForceAlone
  <2>1. acked'[c] \in Nat /\ db[c] \in Nat /\ acked'[c] <= db[c]
    BY <1>1, <1>3 DEF TypeOK, Committed
  <2>2. CASE c = Order[step[p]]
    BY <1>6, <2>1, <2>2
  <2>3. CASE c # Order[step[p]] /\ step[p] < 3
    BY <1>1, <1>7, <2>3 DEF InForceAlone, TypeOK
  <2>4. CASE c # Order[step[p]] /\ step[p] = 3
    <3>1. c \in {"routes", "settings"}
      BY <2>4 DEF Cell
    <3> QED BY <1>6, <2>1, <2>4, <3>1
  <2> QED BY <1>2, <2>2, <2>3, <2>4
<1> QED BY <1>3, <1>4, <1>5, <1>9, <1>10

-----------------------------------------------------------------------------
(* The theorems                                                            *)

\* Inv holds in every reachable state, whether or not the scheduling is fair.
LEMMA InvInvariant == Init /\ [][Next]_vars => []Inv
<1>1. Init => Inv
  <2> SUFFICES ASSUME Init PROVE Inv
    OBVIOUS
  <2>1. TypeOK
    <3>1. overlap \in BOOLEAN
      BY DEF Init
    <3> QED BY <3>1, RefreshAssumption DEF Init, TypeOK, Value, NoEdit, Cell
  <2>2. Read /\ NothingInvented /\ Committed /\ Single /\ Current /\ InForceAlone
    BY DEF Init, Read, NothingInvented, Committed, Single, Current, InForceAlone,
           NoEdit, Cell
  <2> QED BY <2>1, <2>2 DEF Inv
<1>2. Inv /\ [Next]_vars => Inv'
  <2> SUFFICES ASSUME Inv, [Next]_vars PROVE Inv'
    OBVIOUS
  <2>1. TypeOK'
    BY TypeStep DEF Inv
  <2>2. ASSUME NEW h \in Handler, NEW c \in Cell, Edit(h, c) PROVE Inv'
    BY <2>1, <2>2, EditKeeps
  <2>3. CASE Tick
    BY <2>1, <2>3, TickKeeps
  <2>4. ASSUME NEW p \in Proc, Query(p) PROVE Inv'
    BY <2>1, <2>4, QueryKeeps
  <2>5. ASSUME NEW p \in Proc, QueryFails(p) PROVE Inv'
    BY <2>1, <2>5, FailureKeeps
  <2>6. ASSUME NEW p \in Proc, Store(p) PROVE Inv'
    BY <2>1, <2>6, StoreKeeps
  <2>7. CASE UNCHANGED vars
    BY <2>7 DEF vars, Inv, TypeOK, Read, NothingInvented, Committed, Single, Current,
                InForceAlone
  <2> QED
    BY <2>2, <2>3, <2>4, <2>5, <2>6, <2>7
    DEF Next, EditRoutes, EditSettings, EditPolicies, Cell
<1> QED BY <1>1, <1>2, PTL

\* The state keeps its types: in particular a refresh never runs past the
\* last of the copies, and no row exceeds the edits that were made.
THEOREM TypeCorrect == Spec => []TypeOK
<1>1. Inv => TypeOK
  BY DEF Inv
<1> QED BY <1>1, InvInvariant, PTL DEF Spec

\* However refreshes interleave and whichever queries fail, the proxy only
\* ever enforces versions of the rows that were committed, or, for the
\* settings after a failure, the built-in defaults.
THEOREM OnlyCommittedEnforced == Spec => []NothingInvented
<1>1. Inv => NothingInvented
  BY DEF Inv
<1> QED BY <1>1, InvInvariant, PTL DEF Spec

\* While refreshes have not overlapped and no query has failed, every edit
\* that a handler has acknowledged is in force.
THEOREM AcknowledgedInForce == Spec => []InForceAlone
<1>1. Inv => InForceAlone
  BY DEF Inv
<1> QED BY <1>1, InvInvariant, PTL DEF Spec
=============================================================================

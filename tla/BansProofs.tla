----------------------------- MODULE BansProofs -----------------------------
(***************************************************************************)
(* Proofs about Bans, for any number of addresses, callers and reloaders,  *)
(* any durations and any bounds.                                           *)
(***************************************************************************)
EXTENDS Bans, TLAPS

\* The invariant of Bans: its types.
LEMMA TypeInv == Init /\ [][Next]_vars => []TypeOK
<1> USE DEF Table, Entry, Expiry
<1>1. Init => TypeOK
  BY BansAssumption DEF Init, TypeOK, NoCall, Call
<1>2. TypeOK /\ [Next]_vars => TypeOK'
  <2> SUFFICES ASSUME TypeOK, [Next]_vars PROVE TypeOK'
    OBVIOUS
  <2> USE BansAssumption DEF TypeOK
  <2>1. ASSUME NEW c \in Caller, NEW i \in IP, NEW d \in Duration, Ban(c, i, d)
        PROVE  TypeOK'
    <3>1. (IF d > 0 THEN now + d ELSE Forever) \in Expiry
      OBVIOUS
    <3> QED BY <2>1, <3>1 DEF Ban, Call, Meet
  <2>2. ASSUME NEW c \in Caller, NEW i \in IP, Unban(c, i)
        PROVE  TypeOK'
    BY <2>2 DEF Unban, Call, Meet
  <2>3. ASSUME NEW c \in Caller, InsertBan(c) PROVE TypeOK'
    BY <2>3 DEF InsertBan, Call, NoCall
  <2>4. ASSUME NEW c \in Caller, InsertBanFails(c) PROVE TypeOK'
    <3>1. clean' \in BOOLEAN
      BY <2>4 DEF InsertBanFails
    <3>2. call' \in [Caller -> Call] /\ faults' \in Nat
      BY <2>4 DEF InsertBanFails, Call, NoCall
    <3> QED BY <2>4, <3>1, <3>2 DEF InsertBanFails
  <2>5. ASSUME NEW c \in Caller, DeleteBan(c) PROVE TypeOK'
    BY <2>5 DEF DeleteBan, Call, NoCall
  <2>14. ASSUME NEW c \in Caller, DeleteBanFails(c) PROVE TypeOK'
    <3>1. clean' \in BOOLEAN
      BY <2>14 DEF DeleteBanFails
    <3>2. call' \in [Caller -> Call] /\ faults' \in Nat
      BY <2>14 DEF DeleteBanFails, Call, NoCall
    <3> QED BY <2>14, <3>1, <3>2 DEF DeleteBanFails
  <2>6. GetActiveBans \in Table
    BY DEF GetActiveBans
  <2>7. ASSUME NEW r \in Reloader, ReloadRead(r) PROVE TypeOK'
    BY <2>6, <2>7 DEF ReloadRead
  <2>8. ASSUME NEW r \in Reloader, ReloadReplace(r) PROVE TypeOK'
    BY <2>8 DEF ReloadReplace
  <2>9. ASSUME NEW i \in IP, EvictExpired(i) PROVE TypeOK'
    BY <2>9 DEF EvictExpired
  <2>10. CASE CleanupExpiredBans
    BY <2>10 DEF CleanupExpiredBans
  <2>11. CASE Restart
    BY <2>6, <2>11 DEF Restart, Dies, Call, NoCall
  <2>15. CASE RestartUnloaded
    <3>1. clean' \in BOOLEAN
      BY <2>15 DEF RestartUnloaded
    <3>2. mem' \in Table /\ faults' \in Nat /\ restarts' \in Nat
      BY <2>15 DEF RestartUnloaded, Dies
    <3>3. call' \in [Caller -> Call] /\ snap' \in [Reloader -> SUBSET Table]
      BY <2>15 DEF RestartUnloaded, Dies, Call, NoCall
    <3> QED BY <2>15, <3>1, <3>2, <3>3 DEF RestartUnloaded, Dies
  <2>12. CASE Tick
    BY <2>12 DEF Tick
  <2>13. CASE UNCHANGED vars
    BY <2>13 DEF vars
  <2> QED
    BY <2>1, <2>2, <2>3, <2>4, <2>5, <2>7, <2>8, <2>9, <2>10, <2>11, <2>12, <2>13,
       <2>14, <2>15
    DEF Next
<1> QED BY <1>1, <1>2, PTL

\* The types of Bans hold in every reachable state: every expiry that Ban
\* computes, InsertBan stores and a reload reads back is a time or Forever.
THEOREM TypeCorrect == Spec => []TypeOK
  BY TypeInv, PTL DEF Spec

-----------------------------------------------------------------------------
\* What Persisted rests on: as long as an Unban is between its two steps, no
\* ban of its address is owed, so its DELETE takes away nothing promised.
NothingOwed ==
    \A c \in Caller : call[c].op = "delete" => owed[call[c].ip] = NoBan

\* Early is a length of time.
LEMMA EarlyType == Early \in Nat
  BY BansAssumption DEF Early

\* No query of the database leaves out a ban with more than Early to go.
LEMMA LastingIsActive ==
    ASSUME NEW e \in Entry, now \in Nat, Lasting(e)
    PROVE  DbActive(e)
  BY BansAssumption DEF Lasting, Early, DbActive, Entry, Expiry

\* In every time zone, a recorded ban survives restarts, cleanups, reloads,
\* other bans and failing statements, until an Unban of its address begins or
\* it has no more to go than local time is behind UTC (CleanupExpiredBans
\* compares a local time with a UTC one).
THEOREM BansPersist == Spec => []Persisted
<1> USE DEF Table, Entry, Expiry
<1>1. Init => NothingOwed /\ Persisted
  BY DEF Init, NothingOwed, NoCall, Persisted, Lasting
<1>2. TypeOK /\ NothingOwed /\ Persisted /\ TypeOK' /\ [Next]_vars
        => NothingOwed' /\ Persisted'
  <2> SUFFICES ASSUME TypeOK, NothingOwed, Persisted, TypeOK', [Next]_vars
               PROVE  NothingOwed' /\ Persisted'
    OBVIOUS
  <2> USE BansAssumption DEF TypeOK
  \* A step that leaves clock, table, calls and debts alone preserves both.
  <2>0. ASSUME now' = now, db' = db, owed' = owed,
               \A c \in Caller : call'[c].op = "delete" => call'[c] = call[c]
        PROVE  NothingOwed' /\ Persisted'
    BY <2>0 DEF NothingOwed, Persisted, Lasting
  <2>1. ASSUME NEW c \in Caller, NEW i \in IP, NEW d \in Duration, Ban(c, i, d)
        PROVE  NothingOwed' /\ Persisted'
    BY <2>0, <2>1 DEF Ban
  <2>2. ASSUME NEW c \in Caller, NEW i \in IP, Unban(c, i)
        PROVE  NothingOwed' /\ Persisted'
    BY <2>2 DEF Unban, NothingOwed, Persisted, Lasting
  <2>3. ASSUME NEW c \in Caller, InsertBan(c)
        PROVE  NothingOwed' /\ Persisted'
    <3>1. NothingOwed'
      BY <2>3 DEF InsertBan, NothingOwed, NoCall, Unbanning, Call
    <3>2. Persisted'
      BY <2>3 DEF InsertBan, NothingOwed, Persisted, Lasting, Unbanning, Call
    <3> QED BY <3>1, <3>2
  <2>4. ASSUME NEW c \in Caller, InsertBanFails(c)
        PROVE  NothingOwed' /\ Persisted'
    BY <2>0, <2>4 DEF InsertBanFails, NoCall
  <2>5. ASSUME NEW c \in Caller, DeleteBan(c)
        PROVE  NothingOwed' /\ Persisted'
    BY <2>5 DEF DeleteBan, NothingOwed, Persisted, Lasting, NoCall, Call
  <2>13. ASSUME NEW c \in Caller, DeleteBanFails(c)
        PROVE  NothingOwed' /\ Persisted'
    BY <2>0, <2>13 DEF DeleteBanFails, NoCall
  <2>6. ASSUME NEW r \in Reloader, ReloadRead(r)
        PROVE  NothingOwed' /\ Persisted'
    BY <2>0, <2>6 DEF ReloadRead
  <2>7. ASSUME NEW r \in Reloader, ReloadReplace(r)
        PROVE  NothingOwed' /\ Persisted'
    BY <2>0, <2>7 DEF ReloadReplace
  <2>8. ASSUME NEW i \in IP, EvictExpired(i)
        PROVE  NothingOwed' /\ Persisted'
    BY <2>0, <2>8 DEF EvictExpired
  <2>9. CASE CleanupExpiredBans
    <3>1. NothingOwed'
      BY <2>9 DEF CleanupExpiredBans, NothingOwed
    <3>2. ASSUME NEW i \in IP, Lasting(owed[i])' PROVE db'[i] = owed'[i]
      BY <2>9, <3>2, LastingIsActive
      DEF CleanupExpiredBans, Persisted, Lasting
    <3> QED BY <3>1, <3>2 DEF Persisted
  <2>10. CASE Restart
    BY <2>0, <2>10 DEF Restart, Dies, NoCall
  <2>14. CASE RestartUnloaded
    BY <2>0, <2>14 DEF RestartUnloaded, Dies, NoCall
  <2>11. CASE Tick
    <3>1. NothingOwed'
      BY <2>11 DEF Tick, NothingOwed
    <3>2. ASSUME NEW i \in IP, Lasting(owed[i])' PROVE db'[i] = owed'[i]
      BY <2>11, <3>2, EarlyType DEF Tick, Persisted, Lasting
    <3> QED BY <3>1, <3>2 DEF Persisted
  <2>12. CASE UNCHANGED vars
    BY <2>0, <2>12 DEF vars
  <2> QED
    BY <2>1, <2>2, <2>3, <2>4, <2>5, <2>6, <2>7, <2>8, <2>9, <2>10, <2>11, <2>12,
       <2>13, <2>14
    DEF Next
<1> QED BY <1>1, <1>2, TypeInv, PTL DEF Spec

-----------------------------------------------------------------------------
\* Two expiries that mean the same now and at any later time, as lasting bans.
Same(a, b) == Lasting(a) \/ Lasting(b) => a = b

Calling(c) == call[c].op # "none"

\* A caller is idle, or has an address and what it has put into the memory for it.
CallForm ==
    \A c \in Caller : /\ ~Calling(c) => call[c] = NoCall
                      /\ Calling(c) => call[c].ip \in IP
                      /\ call[c].op = "delete" => call[c].exp = NoBan

\* Undisturbed calls come one at a time and with no reload under way; the address
\* of the call is ahead of its row, every other address and what a reload has
\* read is level with the table.
Undisturbed ==
    clean =>
        /\ \A c, d \in Caller : Calling(c) /\ Calling(d) => c = d
        /\ \A c \in Caller, r \in Reloader : Calling(c) => snap[r] = {}
        /\ \A c \in Caller : Calling(c) => Same(mem[call[c].ip], call[c].exp)
        /\ \A i \in IP : (\A c \in Caller : Calling(c) => call[c].ip # i) => Same(mem[i], db[i])
        /\ \A r \in Reloader : \A s \in snap[r] : \A i \in IP : Same(s[i], db[i])

AloneInv == CallForm /\ Undisturbed

\* A row that GetActiveBans leaves out is no lasting ban.
LEMMA ReadSame ==
    ASSUME TypeOK, NEW i \in IP
    PROVE  Same(GetActiveBans[i], db[i])
<1>1. db[i] \in Entry
  BY DEF TypeOK, Table
<1>2. Lasting(db[i]) => DbActive(db[i])
  BY <1>1, LastingIsActive DEF TypeOK
<1>3. ~Lasting(NoBan)
  BY DEF Lasting
<1> QED BY <1>2, <1>3 DEF Same, GetActiveBans

\* Every step keeps what undisturbed calls rely on.
LEMMA AloneStep ==
    ASSUME TypeOK, TypeOK', AloneInv, [Next]_vars
    PROVE  AloneInv'
<1> USE BansAssumption DEF Calling
<1>1. ASSUME NEW c \in Caller, NEW i \in IP, NEW d \in Duration, Ban(c, i, d) PROVE AloneInv'
  <2>1. PICK e : /\ mem' = [mem EXCEPT ![i] = e]
                 /\ call' = [call EXCEPT ![c] = [op |-> "insert", ip |-> i, exp |-> e]]
    BY <1>1 DEF Ban
  <2>2. CallForm'
    BY <2>1 DEF AloneInv, CallForm, TypeOK
  <2>3. clean' => clean /\ (\A b \in Caller : ~Calling(b)) /\ \A r \in Reloader : snap[r] = {}
    <3>1. clean' => clean /\ (\A b \in Caller : call[b] = NoCall) /\ \A r \in Reloader : snap[r] = {}
      BY <1>1 DEF Ban, Meet
    <3> QED BY <3>1 DEF NoCall
  <2>4. Undisturbed'
    BY <1>1, <2>1, <2>3 DEF Ban, AloneInv, Undisturbed, Same, Lasting, TypeOK, Table
  <2> QED BY <2>2, <2>4 DEF AloneInv
<1>2. ASSUME NEW c \in Caller, NEW i \in IP, Unban(c, i) PROVE AloneInv'
  <2>1. CallForm'
    BY <1>2 DEF Unban, AloneInv, CallForm, TypeOK
  <2>2. clean' => clean /\ (\A b \in Caller : ~Calling(b)) /\ \A r \in Reloader : snap[r] = {}
    <3>1. clean' => clean /\ (\A b \in Caller : call[b] = NoCall) /\ \A r \in Reloader : snap[r] = {}
      BY <1>2 DEF Unban, Meet
    <3> QED BY <3>1 DEF NoCall
  <2>3. Undisturbed'
    BY <1>2, <2>2 DEF Unban, AloneInv, Undisturbed, Same, Lasting, TypeOK, Table
  <2> QED BY <2>1, <2>3 DEF AloneInv
<1>3. ASSUME NEW c \in Caller, InsertBan(c) \/ DeleteBan(c) PROVE AloneInv'
  <2>1. /\ call' = [call EXCEPT ![c] = NoCall] /\ db' = [db EXCEPT ![call[c].ip] = call[c].exp]
        /\ UNCHANGED <<now, mem, snap, clean>> /\ Calling(c)
    BY <1>3 DEF InsertBan, DeleteBan, AloneInv, CallForm
  <2>2. CallForm'
    BY <2>1 DEF AloneInv, CallForm, TypeOK, NoCall
  <2>3. \A b \in Caller : clean => ~Calling(b)'
    BY <2>1 DEF AloneInv, Undisturbed, TypeOK, NoCall
  <2>4. ASSUME clean, NEW i \in IP PROVE Same(mem[i], db[i])'
    <3>1. CASE i = call[c].ip
      BY <2>1, <2>4, <3>1 DEF AloneInv, Undisturbed, Same, Lasting, TypeOK, Table
    <3>2. CASE i # call[c].ip
      <4>1. \A b \in Caller : Calling(b) => b = c
        BY <2>1, <2>4 DEF AloneInv, Undisturbed
      <4>2. Same(mem[i], db[i])
        BY <2>4, <3>2, <4>1 DEF AloneInv, Undisturbed
      <4> QED BY <2>1, <3>2, <4>2 DEF Same, Lasting, TypeOK, Table
    <3> QED BY <3>1, <3>2
  <2>5. \A r \in Reloader : clean => snap'[r] = {}
    BY <2>1 DEF AloneInv, Undisturbed
  <2>6. Undisturbed'
    BY <2>1, <2>3, <2>4, <2>5 DEF Undisturbed
  <2> QED BY <2>2, <2>6 DEF AloneInv
<1>4. ASSUME NEW c \in Caller, InsertBanFails(c) \/ DeleteBanFails(c) PROVE AloneInv'
  <2>1. ~clean'
    BY <1>4 DEF InsertBanFails, DeleteBanFails
  <2> QED BY <1>4, <2>1 DEF InsertBanFails, DeleteBanFails, AloneInv, CallForm, Undisturbed, TypeOK, NoCall
<1>5. ASSUME NEW r \in Reloader, ReloadRead(r) PROVE AloneInv'
  <2>1. UNCHANGED <<now, mem, db, call>> /\ snap' = [snap EXCEPT ![r] = {GetActiveBans}]
    BY <1>5 DEF ReloadRead
  <2>2. clean' => clean /\ \A b \in Caller : ~Calling(b)
    <3>1. clean' => clean /\ \A b \in Caller : call[b] = NoCall
      BY <1>5 DEF ReloadRead
    <3> QED BY <3>1 DEF NoCall
  <2>3. \A i \in IP : Same(GetActiveBans[i], db[i])
    BY ReadSame
  <2>4. ASSUME clean', NEW q \in Reloader, NEW s \in snap'[q], NEW i \in IP PROVE Same(s[i], db[i])
    BY <2>1, <2>2, <2>3, <2>4 DEF AloneInv, Undisturbed, TypeOK
  <2> QED BY <2>1, <2>2, <2>4 DEF AloneInv, CallForm, Undisturbed, Same, Lasting
<1>6. ASSUME NEW r \in Reloader, ReloadReplace(r) PROVE AloneInv'
  <2>1. UNCHANGED <<now, db, call, clean>> /\ mem' \in snap[r] /\ snap' = [snap EXCEPT ![r] = {}]
    BY <1>6 DEF ReloadReplace
  <2>2. clean => \A b \in Caller : ~Calling(b)
    BY <2>1 DEF AloneInv, Undisturbed
  <2>3. ASSUME clean, NEW i \in IP PROVE Same(mem'[i], db[i])
    BY <2>1, <2>3 DEF AloneInv, Undisturbed
  <2> QED BY <2>1, <2>2, <2>3 DEF AloneInv, CallForm, Undisturbed, Same, Lasting, TypeOK
<1>7. ASSUME NEW i \in IP, EvictExpired(i) PROVE AloneInv'
  <2>1. UNCHANGED <<now, db, call, snap, clean>> /\ mem' = [mem EXCEPT ![i] = NoBan] /\ ~Lasting(mem[i])
    BY <1>7 DEF EvictExpired, InForce, Lasting, Early, TypeOK, Table, Entry, Expiry
  <2>2. ASSUME NEW j \in IP, NEW e, Same(mem[j], e) PROVE Same(mem'[j], e)
    BY <2>1, <2>2 DEF Same, Lasting, TypeOK, Table
  <2> QED BY <2>1, <2>2 DEF AloneInv, CallForm, Undisturbed, Same, Lasting
<1>8. CASE CleanupExpiredBans
  <2>1. UNCHANGED <<now, mem, call, snap, clean>> /\ db' = GetActiveBans
    BY <1>8 DEF CleanupExpiredBans, GetActiveBans
  <2>2. ASSUME NEW j \in IP, NEW e, Same(e, db[j]) PROVE Same(e, db'[j])
    <3>1. Same(db'[j], db[j])
      BY <2>1, ReadSame
    <3> QED BY <2>2, <3>1 DEF Same
  <2> QED BY <2>1, <2>2 DEF AloneInv, CallForm, Undisturbed, Same, Lasting
<1>9. CASE Restart
  <2>1. /\ UNCHANGED <<now, db>> /\ mem' = GetActiveBans /\ call' = [c \in Caller |-> NoCall]
        /\ snap' = [r \in Reloader |-> {}]
    BY <1>9 DEF Restart, Dies
  <2>2. \A i \in IP : Same(mem'[i], db[i])
    BY <2>1, ReadSame
  <2> QED BY <2>1, <2>2 DEF AloneInv, CallForm, Undisturbed, Same, Lasting, NoCall
<1>12. CASE RestartUnloaded
  <2>1. ~clean' /\ call' = [c \in Caller |-> NoCall]
    BY <1>12 DEF RestartUnloaded, Dies
  <2> QED BY <2>1 DEF AloneInv, CallForm, Undisturbed, NoCall
<1>10. CASE Tick
  <2>1. UNCHANGED <<mem, db, call, snap, clean>> /\ now' = now + 1
    BY <1>10 DEF Tick
  <2>2. ASSUME NEW a \in Entry, NEW b \in Entry, Same(a, b) PROVE Same(a, b)'
    BY <2>1, <2>2, EarlyType DEF Same, Lasting, Entry, Expiry, TypeOK
  <2>3. CallForm'
    BY <2>1 DEF AloneInv, CallForm
  <2>4. ASSUME NEW c \in Caller, Calling(c), clean PROVE Same(mem[call[c].ip], call[c].exp)'
    <3>1. mem[call[c].ip] \in Entry /\ call[c].exp \in Entry
      BY <2>4 DEF AloneInv, CallForm, TypeOK, Table, Call
    <3>2. Same(mem[call[c].ip], call[c].exp)
      BY <2>4 DEF AloneInv, Undisturbed
    <3> QED BY <2>1, <2>2, <3>1, <3>2 DEF Same, Lasting
  <2>5. ASSUME NEW i \in IP, clean, \A c \in Caller : Calling(c) => call[c].ip # i
        PROVE  Same(mem[i], db[i])'
    <3>1. mem[i] \in Entry /\ db[i] \in Entry
      BY DEF TypeOK, Table
    <3>2. Same(mem[i], db[i])
      BY <2>5 DEF AloneInv, Undisturbed
    <3> QED BY <2>1, <2>2, <3>1, <3>2 DEF Same, Lasting
  <2>6. ASSUME NEW r \in Reloader, NEW s \in snap[r], NEW i \in IP, clean PROVE Same(s[i], db[i])'
    <3>1. s[i] \in Entry /\ db[i] \in Entry
      BY <2>6 DEF TypeOK, Table
    <3>2. Same(s[i], db[i])
      BY <2>6 DEF AloneInv, Undisturbed
    <3> QED BY <2>1, <2>2, <3>1, <3>2 DEF Same, Lasting
  <2>7. Undisturbed'
    BY <2>1, <2>4, <2>5, <2>6 DEF AloneInv, Undisturbed
  <2> QED BY <2>3, <2>7 DEF AloneInv
<1>11. CASE UNCHANGED vars
  BY <1>11 DEF vars, AloneInv, CallForm, Undisturbed, Same, Lasting
<1> QED BY <1>1, <1>2, <1>3, <1>4, <1>5, <1>6, <1>7, <1>8, <1>9, <1>10, <1>11, <1>12 DEF Next

\* In every time zone, undisturbed calls leave the memory and the table with
\* the same lasting bans, however long they run out apart from each other,
\* through restarts, evictions, cleanups and reloads.
THEOREM AgreeAlone == Spec => []AgreeWhenAlone
<1>1. Init => AloneInv
  BY DEF Init, AloneInv, CallForm, Undisturbed, Calling, NoCall, Same
<1>2. TypeOK /\ TypeOK' /\ AloneInv /\ [Next]_vars => AloneInv'
  BY AloneStep
<1>3. AloneInv => AgreeWhenAlone
  <2> SUFFICES ASSUME AloneInv, clean, \A c \in Caller : call[c] = NoCall, NEW i \in IP
               PROVE  Lasting(mem[i]) <=> Lasting(db[i])
    BY DEF AgreeWhenAlone, Lasting
  <2>1. Same(mem[i], db[i])
    BY DEF AloneInv, Undisturbed, Calling, NoCall
  <2> QED BY <2>1 DEF Same
<1> QED BY <1>1, <1>2, <1>3, TypeInv, PTL DEF Spec
=============================================================================

---------------------------- MODULE TrafficProofs ---------------------------
(***************************************************************************)
(* Proofs about what passes through the proxy: the flows of UdpRelay, for  *)
(* any number of clients and descriptors, and the counters and the ring of *)
(* EventRing, for every capacity and any number of writers.                *)
(*                                                                         *)
(* NoLeak is not inductive: that no flow escapes the map rests on who      *)
(* holds which flow at every point of the loop and of the pumps (Custody), *)
(* the other two on what the loop has learnt so far (Screened) and on the  *)
(* age the reaper reads being no older than the truth, at its cutoff and   *)
(* throughout its sweep (AgesAgree).                                       *)
(***************************************************************************)
EXTENDS UdpRelay, EventRing, FiniteSetTheorems, WellFoundedInduction, TLAPS

\* The places of the loop with a packet of a client without a flow at hand.
Opening == {"check", "authorize", "dial", "store"}

\* The client of a packet is known until the loop reads the next one, and it
\* has no flow until StoreSession: only the loop adds to the map.
LoopHas ==
    /\ loop.at \in Opening \cup {"spawn", "write"} => loop.client \in Client
    /\ loop.at \in Opening => sessions[loop.client] = NoFlow

\* The flow at hand between net.Dial and the start of its pump.
InHand ==
    /\ loop.at \in {"store", "spawn"} =>
           pump[loop.flow] = "none" /\ owner[loop.flow] = loop.client
    /\ loop.at = "store" => ~InMap(loop.flow)

\* A flow in the map is there under its owner, and has a pump or is about to
\* get one.
Mapped ==
    \A c \in Client, f \in Flow : sessions[c] = f =>
        /\ owner[f] = c
        /\ pump[f] # "none" \/ (loop.at = "spawn" /\ loop.flow = f)

\* A pump has an owner to remove, and removes it only after it has closed the
\* socket.
Pumped ==
    \A f \in Flow : /\ pump[f] # "none" => owner[f] \in Client
                    /\ pump[f] = "removing" => sock[f] = "closed"

\* An open socket is found through the map or is in the hands of the loop.
Held ==
    \A f \in Flow : sock[f] = "open" =>
        /\ owner[f] \in Client
        /\ sessions[owner[f]] = f \/ (loop.at = "store" /\ loop.flow = f)

\* wg.Wait has returned.
Ended == loop.at = "returned" => \A f \in Flow : pump[f] = "none"

Custody == LoopHas /\ InHand /\ Mapped /\ Pumped /\ Held /\ Ended

\* What the gate has found of the client at hand.
Screened ==
    /\ loop.at \in {"check", "authorize"} => standing \subseteq seen
    /\ loop.at \in {"authorize", "dial", "store"} => "unbanned" \in seen
    /\ loop.at \in {"dial", "store"} => "permitted" \in seen

\* lastActive never makes a flow look more idle than it is.
AgesAgree ==
    /\ \A f \in Flow : lastActive[f] <= quiet[f]
    /\ \A f \in stale : sock[f] = "open" => quiet[f] > Timeout

Inv == TypeOK /\ Custody /\ Screened /\ AgesAgree
-----------------------------------------------------------------------------
\* The types need Custody: a flow in hand is a flow.
LEMMA TypeStep == TypeOK /\ Custody /\ [Next]_vars => TypeOK'
<1> SUFFICES ASSUME TypeOK, Custody, [Next]_vars PROVE TypeOK'
  OBVIOUS
<1> USE RelayAssumption DEF Timeout, Expired
<1>1. ASSUME NEW c \in Client, ReadFrom(c) PROVE TypeOK'
  BY <1>1 DEF ReadFrom, TypeOK, net, sweep, gate
<1>2. CASE DropBanned
  BY <1>2 DEF DropBanned, NextPacket, Reading, TypeOK, net, sweep, gate
<1>3. CASE PassBanned
  BY <1>3 DEF PassBanned, Goto, TypeOK, net, sweep, gate
<1>4. CASE DropUnauthorized
  BY <1>4 DEF DropUnauthorized, NextPacket, Reading, TypeOK, net, sweep, gate
<1>5. CASE Authorize
  BY <1>5 DEF Authorize, Goto, TypeOK, net, sweep, gate
<1>6. ASSUME NEW f \in Flow, Dial(f) PROVE TypeOK'
  <2>1. loop' = [loop EXCEPT !.at = "store", !.flow = f] /\ f # NoFlow
    BY <1>6 DEF Dial
  <2>2. loop' = [at |-> "store", client |-> loop.client, flow |-> f]
    BY <2>1 DEF TypeOK
  <2> QED
    BY <1>6, <2>1, <2>2 DEF Dial, Store, TypeOK, sweep, gate
<1>7. CASE DialFails
  BY <1>7 DEF DialFails, NextPacket, Reading, TypeOK, net, sweep, gate
<1>8. CASE StoreSession
  BY <1>8 DEF StoreSession, Goto, Custody, LoopHas, Opening, TypeOK, net, sweep, gate
<1>9. CASE SpawnPump
  BY <1>9 DEF SpawnPump, Goto, TypeOK, net, sweep, gate
<1>10. CASE WriteTarget
  BY <1>10 DEF WriteTarget, Store, NextPacket, Reading, TypeOK, net, sweep, gate
<1>11. CASE ReadFails
  BY <1>11 DEF ReadFails, Goto, TypeOK, net, sweep, gate
<1>12. CASE CloseSessions
  BY <1>12 DEF CloseSessions, Goto, Close, TypeOK, net, sweep, gate
<1>13. CASE Return
  BY <1>13 DEF Return, Goto, TypeOK, net, sweep, gate
<1>14. ASSUME NEW f \in Flow, Reply(f) PROVE TypeOK'
  BY <1>14 DEF Reply, Store, TypeOK, net, sweep, gate
<1>15. ASSUME NEW f \in Flow, PumpFails(f) PROVE TypeOK'
  BY <1>15 DEF PumpFails, TypeOK, net, sweep, gate
<1>16. ASSUME NEW f \in Flow, PumpCloses(f) PROVE TypeOK'
  BY <1>16 DEF PumpCloses, Close, TypeOK, net, sweep, gate
<1>17. ASSUME NEW f \in Flow, PumpRemoves(f) PROVE TypeOK'
  BY <1>17 DEF PumpRemoves, TypeOK, net, sweep, gate
<1>18. CASE SweepBegins \/ SweepLocks \/ SweepEnds
  <2>1. ticker' \in BOOLEAN
    BY <1>18 DEF SweepBegins, SweepLocks, SweepEnds, TypeOK
  <2> QED BY <1>18, <2>1 DEF SweepBegins, SweepLocks, SweepEnds, TypeOK, net, gate
<1>25. ASSUME NEW f \in Flow, SweepLoads(f) PROVE TypeOK'
  BY <1>25 DEF SweepLoads, TypeOK, net, gate
<1>26. CASE SweepCloses
  BY <1>26 DEF SweepCloses, Close, TypeOK, net, gate
<1>19. CASE ReaperReturns
  BY <1>19 DEF ReaperReturns, TypeOK, net, sweep, gate
<1>20. CASE Cancel
  BY <1>20 DEF Cancel, TypeOK, net, sweep, gate
<1>21. CASE CloseListen
  BY <1>21 DEF CloseListen, TypeOK, net, sweep, gate
<1>22. CASE Tick
  BY <1>22 DEF Tick, Older, TypeOK, net, sweep, gate
<1>23. CASE AccessChanges
  BY <1>23 DEF AccessChanges, TypeOK, net, sweep, gate
<1>24. CASE UNCHANGED vars
  BY <1>24 DEF vars, TypeOK, net, sweep, gate
<1> QED
  BY <1>1, <1>2, <1>3, <1>4, <1>5, <1>6, <1>7, <1>8, <1>9, <1>10, <1>11, <1>12,
     <1>13, <1>14, <1>15, <1>16, <1>17, <1>18, <1>19, <1>20, <1>21, <1>22, <1>23, <1>24,
     <1>25, <1>26
  DEF Next, LoopStep, Done

\* No step of the loop, a pump or the reaper loses track of a flow.
LEMMA CustodyStep == TypeOK /\ TypeOK' /\ Custody /\ [Next]_vars => Custody'
<1> SUFFICES ASSUME TypeOK, TypeOK', Custody, [Next]_vars PROVE Custody'
  OBVIOUS
<1> USE RelayAssumption DEF Custody, LoopHas, InHand, Mapped, Pumped, Held, Ended, Opening, InMap
<1>1. ASSUME NEW c \in Client, ReadFrom(c) PROVE Custody'
  BY <1>1 DEF ReadFrom, TypeOK, net, sweep, gate
<1>2. CASE DropBanned
  BY <1>2 DEF DropBanned, NextPacket, Reading, TypeOK, net, sweep, gate
<1>3. CASE PassBanned
  BY <1>3 DEF PassBanned, Goto, TypeOK, net, sweep, gate
<1>4. CASE DropUnauthorized
  BY <1>4 DEF DropUnauthorized, NextPacket, Reading, TypeOK, net, sweep, gate
<1>5. CASE Authorize
  BY <1>5 DEF Authorize, Goto, TypeOK, net, sweep, gate
<1>6. ASSUME NEW f \in Flow, Dial(f) PROVE Custody'
  BY <1>6 DEF Dial, Store, Free, TypeOK, net, sweep, gate
<1>7. CASE DialFails
  BY <1>7 DEF DialFails, NextPacket, Reading, TypeOK, net, sweep, gate
<1>8. CASE StoreSession
  BY <1>8 DEF StoreSession, Goto, TypeOK, net, sweep, gate
<1>9. CASE SpawnPump
  BY <1>9 DEF SpawnPump, Goto, TypeOK, net, sweep, gate
<1>10. CASE WriteTarget
  BY <1>10 DEF WriteTarget, Store, NextPacket, Reading, TypeOK, net, sweep, gate
<1>11. CASE ReadFails
  BY <1>11 DEF ReadFails, Goto, TypeOK, net, sweep, gate
<1>12. CASE CloseSessions
  BY <1>12 DEF CloseSessions, Goto, Close, TypeOK, net, sweep, gate
<1>13. CASE Return
  BY <1>13 DEF Return, Goto, TypeOK, net, sweep, gate
<1>14. ASSUME NEW f \in Flow, Reply(f) PROVE Custody'
  BY <1>14 DEF Reply, Store, TypeOK, net, sweep, gate
<1>15. ASSUME NEW f \in Flow, PumpFails(f) PROVE Custody'
  BY <1>15 DEF PumpFails, TypeOK, net, sweep, gate
<1>16. ASSUME NEW f \in Flow, PumpCloses(f) PROVE Custody'
  BY <1>16 DEF PumpCloses, Close, TypeOK, net, sweep, gate
<1>17. ASSUME NEW f \in Flow, PumpRemoves(f) PROVE Custody'
  BY <1>17 DEF PumpRemoves, TypeOK, net, sweep, gate
<1>18. CASE SweepBegins \/ SweepLocks \/ SweepEnds \/ \E f \in Flow : SweepLoads(f)
  BY <1>18 DEF SweepBegins, SweepLocks, SweepEnds, SweepLoads, TypeOK, net, gate
<1>26. CASE SweepCloses
  BY <1>26 DEF SweepCloses, Close, TypeOK, net, gate
<1>19. CASE ReaperReturns
  BY <1>19 DEF ReaperReturns, TypeOK, net, sweep, gate
<1>20. CASE Cancel
  BY <1>20 DEF Cancel, TypeOK, net, sweep, gate
<1>21. CASE CloseListen
  BY <1>21 DEF CloseListen, TypeOK, net, sweep, gate
<1>22. CASE Tick
  BY <1>22 DEF Tick, Older, TypeOK, net, sweep, gate
<1>23. CASE AccessChanges
  BY <1>23 DEF AccessChanges, TypeOK, net, sweep, gate
<1>24. CASE UNCHANGED vars
  BY <1>24 DEF vars, TypeOK, net, sweep, gate
<1> QED
  BY <1>1, <1>2, <1>3, <1>4, <1>5, <1>6, <1>7, <1>8, <1>9, <1>10, <1>11, <1>12,
     <1>13, <1>14, <1>15, <1>16, <1>17, <1>18, <1>19, <1>20, <1>21, <1>22, <1>23, <1>24,
     <1>26
  DEF Next, LoopStep, Done

\* What the gate has seen of a client is never forgotten before its flow is in
\* the map.
LEMMA ScreenedStep == TypeOK /\ Screened /\ [Next]_vars => Screened'
<1> SUFFICES ASSUME TypeOK, Screened, [Next]_vars PROVE Screened'
  OBVIOUS
<1> USE DEF Screened, TypeOK
<1>1. ASSUME NEW c \in Client, ReadFrom(c) PROVE Screened'
  BY <1>1 DEF ReadFrom
<1>2. CASE DropBanned \/ DropUnauthorized \/ DialFails \/ WriteTarget
  BY <1>2 DEF DropBanned, DropUnauthorized, DialFails, WriteTarget, NextPacket, Reading
<1>3. CASE PassBanned
  BY <1>3 DEF PassBanned, Goto, gate
<1>4. CASE Authorize
  BY <1>4 DEF Authorize, Goto, gate
<1>5. ASSUME NEW f \in Flow, Dial(f) PROVE Screened'
  BY <1>5 DEF Dial, gate
<1>6. CASE StoreSession \/ SpawnPump \/ ReadFails \/ CloseSessions \/ Return
  BY <1>6 DEF StoreSession, SpawnPump, ReadFails, CloseSessions, Return, Goto, gate
<1>7. CASE AccessChanges
  BY <1>7 DEF AccessChanges
<1>8. CASE UNCHANGED <<loop, gate>>
  BY <1>8 DEF gate
<1> QED
  BY <1>1, <1>2, <1>3, <1>4, <1>5, <1>6, <1>7, <1>8
  DEF Next, LoopStep, Done, vars, Reply, PumpFails, PumpCloses, PumpRemoves, SweepBegins,
      SweepLocks, SweepLoads, SweepCloses, SweepEnds, ReaperReturns, Cancel, CloseListen, Tick

\* Whatever resets the age of a flow resets the time it has been quiet, unless
\* its socket is closed.
LEMMA AgesStep == TypeOK /\ AgesAgree /\ [Next]_vars => AgesAgree'
<1> SUFFICES ASSUME TypeOK, AgesAgree, [Next]_vars PROVE AgesAgree'
  OBVIOUS
<1> USE DEF AgesAgree, TypeOK, Timeout, Expired
<1>1. ASSUME NEW f \in Flow, Dial(f) PROVE AgesAgree'
  BY <1>1 DEF Dial, Store
<1>2. CASE WriteTarget
  BY <1>2 DEF WriteTarget, Store
<1>3. ASSUME NEW S, Close(S), stale' = stale PROVE AgesAgree'
  BY <1>3 DEF Close
<1>4. ASSUME NEW f \in Flow, Reply(f) PROVE AgesAgree'
  BY <1>4 DEF Reply, Store
<1>5. CASE Tick
  BY <1>5 DEF Tick, Older
<1>6. CASE UNCHANGED <<lastActive, quiet, sock, stale>>
  BY <1>6
<1>7. CASE CloseSessions \/ SweepCloses \/ \E f \in Flow : PumpCloses(f)
  BY <1>3, <1>7 DEF CloseSessions, SweepCloses, PumpCloses, sweep
<1>8. CASE SweepBegins \/ SweepEnds
  BY <1>8 DEF SweepBegins, SweepEnds, net
<1> QED
  BY <1>1, <1>2, <1>4, <1>5, <1>6, <1>7, <1>8
  DEF Next, LoopStep, Done, vars, net, sweep, ReadFrom, DropBanned, PassBanned, DropUnauthorized,
      Authorize, DialFails, StoreSession, SpawnPump, ReadFails, Return, PumpFails, PumpRemoves,
      SweepLocks, SweepLoads, ReaperReturns, Cancel, CloseListen, AccessChanges

\* The inductive invariant holds throughout.
LEMMA InvInvariant == Spec => []Inv
<1>1. Init => Inv
  <2> SUFFICES ASSUME Init PROVE Inv
    OBVIOUS
  <2> USE RelayAssumption DEF Init, Reading
  <2>0. ticker \in BOOLEAN
    OBVIOUS
  <2>1. TypeOK
    BY <2>0 DEF TypeOK, Timeout, Expired
  <2>2. Custody
    BY DEF Custody, LoopHas, InHand, Mapped, Pumped, Held, Ended, Opening
  <2>3. Screened /\ AgesAgree
    BY DEF Screened, AgesAgree
  <2> QED BY <2>1, <2>2, <2>3 DEF Inv
<1>2. Inv /\ [Next]_vars => Inv'
  BY TypeStep, CustodyStep, ScreenedStep, AgesStep DEF Inv
<1> QED BY <1>1, <1>2, PTL DEF Spec

-----------------------------------------------------------------------------
\* The types of the relay hold in every reachable state; in particular the
\* read loop never stores, serves or writes to a flow it does not have.
THEOREM TypeCorrect == Spec => []TypeOK
<1>1. Inv => TypeOK
  BY DEF Inv
<1> QED BY <1>1, InvInvariant, PTL

\* No target socket is lost: every open one is in the map under its client, or
\* in the hands of the loop, and none is open, nor any pump running, when
\* runUDPProxy returns, however read loop, pumps and reaper interleave.
THEOREM NothingLeaks == Spec => []NoLeak
<1>1. Inv => NoLeak
  <2> SUFFICES ASSUME Inv PROVE NoLeak
    OBVIOUS
  <2>1. \A f \in Flow : sock[f] = "open" =>
            sessions[owner[f]] = f \/ (loop.at = "store" /\ loop.flow = f)
    BY DEF Inv, Custody, Held
  <2>2. ASSUME loop.at = "returned", NEW f \in Flow PROVE sock[f] # "open" /\ pump[f] = "none"
    BY <2>2 DEF Inv, Custody, Held, Mapped, Ended
  <2> QED BY <2>1, <2>2 DEF NoLeak
<1> QED BY <1>1, InvInvariant, PTL

\* The reaper condemns only flows that have carried no datagram in either
\* direction for longer than the timeout when it reads their lastActive, though
\* clients, targets and clock go on between its cutoff, its lock and its reads.
THEOREM OnlyIdleReaped == Spec => ReapedOnlyIdle
<1>1. Inv /\ [Next]_vars =>
        [\A f \in Flow : doomed # f /\ doomed' = f /\ sock[f] = "open" => quiet[f] > Timeout]_vars
  <2> SUFFICES ASSUME Inv, [Next]_vars, NEW f \in Flow, doomed # f, doomed' = f, sock[f] = "open"
               PROVE  quiet[f] > Timeout
    OBVIOUS
  <2>1. CASE SweepLoads(f)
    BY <2>1 DEF SweepLoads, Inv, AgesAgree
  <2>2. ASSUME NEW g \in Flow, SweepLoads(g) PROVE g = f
    BY <2>2 DEF SweepLoads
  <2>3. doomed' # NoFlow
    BY RelayAssumption
  <2> QED
    BY <2>1, <2>2, <2>3
    DEF Next, LoopStep, Done, vars, sweep, ReadFrom, DropBanned, PassBanned, DropUnauthorized,
        Authorize, Dial, DialFails, StoreSession, SpawnPump, WriteTarget, ReadFails, CloseSessions,
        Return, Reply, PumpFails, PumpCloses, PumpRemoves, SweepBegins, SweepLocks, SweepCloses,
        SweepEnds, ReaperReturns, Cancel, CloseListen, Tick, AccessChanges
<1> QED BY <1>1, InvInvariant, PTL DEF Spec, ReapedOnlyIdle

\* A flow is opened only for a client that IsBanned and authorizeIP have let
\* pass since its packet arrived, whatever changes in between.
THEOREM FlowsGated == Spec => FlowsAreGated
<1>1. Inv /\ [Next]_vars =>
        [\A c \in Client : sessions[c] = NoFlow /\ sessions'[c] # NoFlow =>
             seen = {"unbanned", "permitted"}]_vars
  <2> SUFFICES ASSUME Inv, [Next]_vars, NEW c \in Client,
                      sessions[c] = NoFlow, sessions'[c] # NoFlow
               PROVE  seen = {"unbanned", "permitted"}
    OBVIOUS
  <2>1. CASE StoreSession
    BY <2>1 DEF StoreSession, Inv, Screened, TypeOK
  <2>2. ASSUME NEW f \in Flow, PumpRemoves(f) PROVE FALSE
    BY <2>2 DEF PumpRemoves, Inv, TypeOK
  <2>3. ~SweepCloses
    BY DEF SweepCloses, Inv, TypeOK
  <2> QED
    BY <2>1, <2>2, <2>3
    DEF Next, LoopStep, Done, vars, ReadFrom, DropBanned, PassBanned, DropUnauthorized, Authorize,
        Dial, DialFails, SpawnPump, WriteTarget, ReadFails, CloseSessions, Return, Reply,
        PumpFails, PumpCloses, SweepBegins, SweepLocks, SweepLoads, SweepEnds, ReaperReturns,
        Cancel, CloseListen, Tick, AccessChanges
<1> QED BY <1>1, InvInvariant, PTL DEF Spec, FlowsAreGated

-----------------------------------------------------------------------------
\* The part of RingTypeOK that the ring needs, and the events of the calls.
RingType ==
    /\ eventRing \in [0 .. Cap - 1 -> Event \cup {NoEvent}]
    /\ eventHead \in 0 .. Cap - 1
    /\ eventCount \in 0 .. Cap
    /\ call \in [Writer -> [at : {"idle", "outcome", "route", "ring"},
                            event : Event \cup {NoEvent}]]
    /\ \A w \in Writer : call[w].at = "idle" <=> call[w].event = NoEvent

\* What % returns on the indices of the ring: at most one lap is taken off.
LEMMA OneLap ==
    ASSUME NEW C \in Nat \ {0}, NEW x \in 0 .. 2 * C - 1
    PROVE  x % C = IF x < C THEN x ELSE x - C
BY SMT

\* The slot after the last is the first.
LEMMA NextSlot ==
    ASSUME NEW C \in Nat \ {0}, NEW x \in 0 .. C - 1
    PROVE  (x + 1) % C = IF x + 1 < C THEN x + 1 ELSE 0
<1>1. CASE x + 1 < C
  BY <1>1
<1>2. CASE x + 1 = C
  BY <1>2
<1> QED
  BY <1>1, <1>2

\* The slot of the k-th newest event if the head is at h.
Slot(h, k) == IF k <= h THEN h - k ELSE h - k + Cap

\* The expression of GetRecentEvents is that slot, and lies in the ring.
LEMMA SlotOf ==
    ASSUME NEW h \in 0 .. Cap - 1, NEW k \in 1 .. Cap
    PROVE  /\ (h - 1 - (k - 1) + Cap) % Cap = Slot(h, k)
           /\ Slot(h, k) \in 0 .. Cap - 1
<1>1. h - 1 - (k - 1) + Cap = h - k + Cap
  BY RingAssumption
<1>2. h - k + Cap \in 0 .. 2 * Cap - 1
  BY RingAssumption
<1>3. (h - k + Cap) % Cap = IF h - k + Cap < Cap THEN h - k + Cap ELSE h - k + Cap - Cap
  BY <1>2, OneLap, RingAssumption
<1> QED
  BY <1>1, <1>3, RingAssumption DEF Slot

\* When the head moves on, the k-th newest event becomes the next one; the slot
\* it is in is not the one that was written.
LEMMA HeadMoves ==
    ASSUME NEW h \in 0 .. Cap - 1
    PROVE  /\ (h + 1) % Cap \in 0 .. Cap - 1
           /\ Slot((h + 1) % Cap, 1) = h
           /\ \A k \in 2 .. Cap : /\ Slot((h + 1) % Cap, k) = Slot(h, k - 1)
                                  /\ Slot(h, k - 1) # h
<1>1. (h + 1) % Cap = IF h + 1 < Cap THEN h + 1 ELSE 0
  BY NextSlot, RingAssumption
<1> QED
  BY <1>1, RingAssumption DEF Slot

-----------------------------------------------------------------------------
\* The empty ring of the package's variables has these types ...
LEMMA RingTypeInit == RingInit => RingType
BY RingAssumption DEF RingInit, RingType, Idle

\* ... and RecordEvent and the pages keep them: the head stays in the ring.
LEMMA RingTypeNext == RingType /\ [RingNext]_ringVars => RingType'
<1> SUFFICES ASSUME RingType, [RingNext]_ringVars PROVE RingType'
  OBVIOUS
<1> USE NoEventAssumption, RingAssumption DEF RingType
<1>1. ASSUME NEW w \in Writer, NEW e \in Event, RecordEvent(w, e) PROVE RingType'
  BY <1>1 DEF RecordEvent, ring
<1>2. ASSUME NEW w \in Writer, CountOutcome(w) PROVE RingType'
  BY <1>2 DEF CountOutcome, ring
<1>3. ASSUME NEW w \in Writer, CountRoute(w) PROVE RingType'
  BY <1>3 DEF CountRoute, ring
<1>4. ASSUME NEW w \in Writer, PushRing(w) PROVE RingType'
  <2>1. eventHead' \in 0 .. Cap - 1
    BY <1>4, HeadMoves DEF PushRing
  <2> QED
    BY <1>4, <2>1 DEF PushRing, Idle
<1>5. CASE UNCHANGED <<ring, call>>
  BY <1>5 DEF ring
<1> QED
  BY <1>1, <1>2, <1>3, <1>4, <1>5
  DEF RingNext, ringVars, ring, HandleAdminMetrics, GetRouteStats, GetEventStats, AnswerMetrics

-----------------------------------------------------------------------------
\* GetRecentEvents without the arithmetic.
LEMMA ListBySlot ==
    ASSUME RingType
    PROVE  /\ GetRecentEvents = [k \in 1 .. eventCount |-> eventRing[Slot(eventHead, k)]]
           /\ GetRecentEvents \in Seq(Event \cup {NoEvent})
           /\ Len(GetRecentEvents) = eventCount
<1>1. ASSUME NEW k \in 1 .. eventCount
      PROVE  /\ (eventHead - 1 - (k - 1) + Cap) % Cap = Slot(eventHead, k)
             /\ Slot(eventHead, k) \in 0 .. Cap - 1
  <2>1. k \in 1 .. Cap /\ eventHead \in 0 .. Cap - 1
    BY RingAssumption DEF RingType
  <2> QED
    BY <2>1, SlotOf
<1>2. GetRecentEvents = [k \in 1 .. eventCount |-> eventRing[Slot(eventHead, k)]]
  BY <1>1 DEF GetRecentEvents
<1>3. \A k \in 1 .. eventCount : eventRing[Slot(eventHead, k)] \in Event \cup {NoEvent}
  BY <1>1 DEF RingType
<1> QED
  BY <1>2, <1>3 DEF RingType

\* The locked section of RecordEvent is Record on the list.
LEMMA PushIsRecord ==
    ASSUME RingType, RingType', NEW w \in Writer, PushRing(w)
    PROVE  List!Record(call[w].event)
<1> DEFINE e == call[w].event
           n == IF eventCount < Cap THEN eventCount + 1 ELSE Cap
<1>1. eventCount' = n /\ n \in 1 .. Cap
  BY RingAssumption DEF RingType, PushRing
<1>2. GetRecentEvents' = [k \in 1 .. n |-> eventRing'[Slot(eventHead', k)]]
  <2>1. ASSUME NEW k \in 1 .. n
        PROVE  (eventHead' - 1 - (k - 1) + Cap) % Cap = Slot(eventHead', k)
    <3>1. k \in 1 .. Cap /\ eventHead' \in 0 .. Cap - 1
      BY <1>1, RingAssumption DEF RingType
    <3> QED
      BY <3>1, SlotOf
  <2> QED
    BY <1>1, <2>1 DEF GetRecentEvents
<1>3. ASSUME NEW k \in 1 .. n
      PROVE  eventRing'[Slot(eventHead', k)] = IF k = 1 THEN e ELSE GetRecentEvents[k - 1]
  <2>1. CASE k = 1
    BY <2>1, HeadMoves DEF PushRing, RingType
  <2>2. CASE k # 1
    <3>0. k \in 2 .. Cap /\ k - 1 \in 1 .. eventCount /\ k - 1 \in 1 .. Cap
      BY <1>1, <2>2, RingAssumption DEF RingType
    <3>1. /\ Slot((eventHead + 1) % Cap, k) = Slot(eventHead, k - 1)
          /\ Slot(eventHead, k - 1) # eventHead
      BY <3>0, HeadMoves DEF RingType
    <3>2. Slot(eventHead, k - 1) \in 0 .. Cap - 1
      BY <3>0, SlotOf DEF RingType
    <3> QED
      BY <2>2, <3>0, <3>1, <3>2, ListBySlot DEF PushRing, RingType
  <2> QED
    BY <2>1, <2>2
<1>4. n = IF Len(GetRecentEvents) < Cap THEN Len(GetRecentEvents) + 1 ELSE Cap
  BY ListBySlot
<1> QED
  BY <1>2, <1>3, <1>4 DEF List!Record, List!Pushed

\* Every other step leaves the list as it is.
LEMMA OthersStutter ==
    ASSUME UNCHANGED ring
    PROVE  UNCHANGED GetRecentEvents
BY DEF ring, GetRecentEvents

\* The array and the two indices of proxy/metrics.go implement the list of the
\* last Cap events, newest first, for every capacity and set of writers.
THEOREM RingImplementsList == RingSpec => ImplementsRecentEvents
<1>1. RingInit => List!Init
  BY DEF RingInit, List!Init, GetRecentEvents
<1>2. RingType /\ RingType' /\ [RingNext]_ringVars => [List!Next]_GetRecentEvents
  <2> SUFFICES ASSUME RingType, RingType', [RingNext]_ringVars
               PROVE  List!Next \/ UNCHANGED GetRecentEvents
    OBVIOUS
  <2>1. ASSUME NEW w \in Writer, PushRing(w) PROVE List!Next
    <3>1. call[w].event \in Event
      BY <2>1 DEF PushRing, RingType
    <3> QED
      BY <2>1, <3>1, PushIsRecord DEF List!Next
  <2>2. CASE UNCHANGED ring
    BY <2>2, OthersStutter
  <2> QED
    BY <2>1, <2>2 DEF RingNext, ringVars, ring, RecordEvent, CountOutcome, CountRoute,
       HandleAdminMetrics, GetRouteStats, GetEventStats, AnswerMetrics
<1> QED
  BY <1>1, <1>2, RingTypeInit, RingTypeNext, PTL
  DEF RingSpec, ImplementsRecentEvents, List!Spec

-----------------------------------------------------------------------------
(* The counters and the page.                                              *)

Page == [at : {"none", "reading", "answered"}, todo : SUBSET (Route \cup Outcome),
         stats : [Route -> Nat], eventStats : [Outcome -> Nat],
         recent : Seq(Event \cup {NoEvent})]

\* RingTypeOK with the page as a record: what a reload of it builds on.
RingInv ==
    /\ RingType
    /\ routeCounters \in [Route -> Nat] /\ eventCounters \in [Outcome -> Nat]
    /\ page \in Page
    /\ calls \in 0 .. MaxEvents

\* The call of RecordEvent that counts carries a route and an outcome.
LEMMA CountersNext ==
    ASSUME RingInv, [RingNext]_ringVars
    PROVE  /\ routeCounters' \in [Route -> Nat] /\ eventCounters' \in [Outcome -> Nat]
           /\ calls' \in 0 .. MaxEvents
<1> USE RingAssumption DEF RingInv
<1>1. ASSUME NEW w \in Writer, call[w].at # "idle"
      PROVE  call[w].event.route \in Route /\ call[w].event.outcome \in Outcome
  <2>1. call[w].event \in Event
    BY <1>1 DEF RingType
  <2> QED BY <2>1 DEF Event
<1>2. ASSUME NEW w \in Writer, NEW e \in Event, RecordEvent(w, e)
      PROVE  UNCHANGED <<routeCounters, eventCounters>> /\ calls' \in 0 .. MaxEvents
  BY <1>2 DEF RecordEvent
<1>3. ASSUME NEW w \in Writer, CountOutcome(w)
      PROVE  eventCounters' \in [Outcome -> Nat] /\ UNCHANGED <<routeCounters, calls>>
  BY <1>1, <1>3 DEF CountOutcome
<1>4. ASSUME NEW w \in Writer, CountRoute(w)
      PROVE  routeCounters' \in [Route -> Nat] /\ UNCHANGED <<eventCounters, calls>>
  BY <1>1, <1>4 DEF CountRoute
<1> QED
  BY <1>2, <1>3, <1>4
  DEF RingNext, ringVars, PushRing, HandleAdminMetrics, GetRouteStats, GetEventStats, AnswerMetrics

\* Every load of the page is of a counter, and its last one of the ring.
LEMMA PageNext == ASSUME RingInv, [RingNext]_ringVars PROVE page' \in Page
<1> USE DEF RingInv
<1>1. CASE HandleAdminMetrics
  <2>1. NoPage \in Page
    BY DEF NoPage, Page
  <2> QED BY <1>1, <2>1 DEF HandleAdminMetrics, Page
<1>2. ASSUME NEW r \in Route, GetRouteStats(r) PROVE page' \in Page
  <2>1. [page.stats EXCEPT ![r] = routeCounters[r]] \in [Route -> Nat]
    BY DEF Page
  <2>2. page' = [page EXCEPT !.stats = [page.stats EXCEPT ![r] = routeCounters[r]],
                             !.todo = page.todo \ {r}]
    BY <1>2 DEF GetRouteStats, Page
  <2> QED BY <2>1, <2>2 DEF Page
<1>3. ASSUME NEW o \in Outcome, GetEventStats(o) PROVE page' \in Page
  <2>1. [page.eventStats EXCEPT ![o] = eventCounters[o]] \in [Outcome -> Nat]
    BY DEF Page
  <2>2. page' = [page EXCEPT !.eventStats = [page.eventStats EXCEPT ![o] = eventCounters[o]],
                             !.todo = page.todo \ {o}]
    BY <1>3 DEF GetEventStats, Page
  <2> QED BY <2>1, <2>2 DEF Page
<1>4. CASE AnswerMetrics
  <2>1. GetRecentEvents \in Seq(Event \cup {NoEvent})
    BY ListBySlot
  <2> QED BY <1>4, <2>1 DEF AnswerMetrics, Page
<1> QED
  BY <1>1, <1>2, <1>3, <1>4
  DEF RingNext, ringVars, RecordEvent, CountOutcome, CountRoute, PushRing

\* It holds in every reachable state.
LEMMA RingInvariant == RingSpec => []RingInv
<1>1. RingInit => RingInv
  <2>1. NoPage \in Page
    BY DEF NoPage, Page
  <2> QED BY <2>1, RingTypeInit, RingAssumption DEF RingInit, RingInv
<1>2. RingInv /\ [RingNext]_ringVars => RingInv'
  BY RingTypeNext, CountersNext, PageNext DEF RingInv
<1> QED BY <1>1, <1>2, PTL DEF RingSpec

\* The types of EventRing hold in every reachable state: the head and the fill
\* stay within the ring, a call under way has an event, and a page only ever
\* holds loads of the counters.
THEOREM RingTypeCorrect == RingSpec => []RingTypeOK
<1>1. RingInv => RingTypeOK
  BY DEF RingInv, RingType, RingTypeOK, Page
<1> QED BY <1>1, RingInvariant, PTL

-----------------------------------------------------------------------------
(* Sums. Total folds over a set by removing an element that CHOOSE picks,  *)
(* so its value is that of a recursive function on the subsets of the      *)
(* domain. What the sum does is shown by looking at a smallest subset for  *)
(* which it would not.                                                     *)

Pick(s) == CHOOSE x \in s : TRUE

\* f is the function Total(c) is a value of.
IsSum(f, S, c) ==
    f = [s \in SUBSET S |-> IF s = {} THEN 0 ELSE c[Pick(s)] + f[s \ {Pick(s)}]]

\* The same up to subsets of n elements.
UpTo(S, n) == {s \in SUBSET S : Cardinality(s) <= n}
IsPartialSum(f, S, c, n) ==
    f = [s \in UpTo(S, n) |-> IF s = {} THEN 0 ELSE c[Pick(s)] + f[s \ {Pick(s)}]]

\* Every set of naturals that is not empty has a least element.
LEMMA LeastNatural ==
    ASSUME NEW S \in SUBSET Nat, S # {}
    PROVE  \E x \in S : \A y \in S : x <= y
<1> DEFINE R == {p \in Nat \X Nat : p[1] < p[2]}
<1>1. IsWellFoundedOn(R, Nat)
  BY NatLessThanWellFounded, Zenon DEF OpToRel
<1>2. PICK x \in S : \A y \in S : ~(<<y, x>> \in R)
  <2> HIDE DEF R
  <2> QED BY <1>1, WFMin
<1>3. ASSUME NEW y \in S PROVE x <= y
  <2>1. x \in Nat /\ y \in Nat /\ ~(<<y, x>> \in R)
    BY <1>2
  <2>2. y < x => <<y, x>> \in R
    BY <2>1
  <2> HIDE DEF R
  <2> QED BY <2>1, <2>2
<1> QED BY <1>3

\* A subset that is not empty has the element CHOOSE picks, and one fewer
\* without it.
LEMMA PickRemoves ==
    ASSUME NEW S, IsFiniteSet(S), NEW s \in SUBSET S, s # {}
    PROVE  /\ Pick(s) \in s /\ s \ {Pick(s)} \in SUBSET S
           /\ Cardinality(s) \in Nat \ {0}
           /\ Cardinality(s \ {Pick(s)}) = Cardinality(s) - 1
<1>1. Pick(s) \in s
  BY DEF Pick
<1>2. IsFiniteSet(s)
  BY FS_Subset
<1>3. Cardinality(s) \in Nat /\ Cardinality(s) # 0
  BY <1>2, FS_CardinalityType, FS_EmptySet
<1>4. Cardinality(s \ {Pick(s)}) = Cardinality(s) - 1
  BY <1>1, <1>2, FS_RemoveElement
<1> QED BY <1>1, <1>3, <1>4

\* Among any subsets of a finite set there is one that is not there without the
\* element CHOOSE picks from it.
LEMMA Smallest ==
    ASSUME NEW S, IsFiniteSet(S), NEW B \in SUBSET SUBSET S, B # {}
    PROVE  \E s \in B : s # {} => s \ {Pick(s)} \notin B
<1> DEFINE Sizes == {Cardinality(s) : s \in B}
<1>1. \A s \in B : Cardinality(s) \in Nat
  <2> TAKE s \in B
  <2>1. IsFiniteSet(s)
    BY FS_Subset
  <2> QED BY <2>1, FS_CardinalityType
<1>2. Sizes \in SUBSET Nat /\ Sizes # {}
  BY <1>1
<1>3. PICK n \in Sizes : \A m \in Sizes : n <= m
  <2> HIDE DEF Sizes
  <2> QED BY <1>2, LeastNatural
<1>4. PICK s \in B : Cardinality(s) = n
  BY <1>3
<1>5. ASSUME s # {}, s \ {Pick(s)} \in B PROVE FALSE
  <2>1. Cardinality(s \ {Pick(s)}) = n - 1 /\ n \in Nat
    BY <1>1, <1>4, <1>5, PickRemoves
  <2>2. n <= Cardinality(s \ {Pick(s)})
    BY <1>3, <1>5
  <2> QED BY <2>1, <2>2
<1> QED BY <1>4, <1>5

\* The recursion has a solution: one for subsets of n elements extends to
\* subsets of one more.
LEMMA SumExists ==
    ASSUME NEW S, IsFiniteSet(S), NEW c
    PROVE  \E f : IsSum(f, S, c)
<1> DEFINE Bad == {n \in Nat : ~ \E f : IsPartialSum(f, S, c, n)}
<1>1. Bad = {}
  <2> SUFFICES ASSUME Bad # {} PROVE FALSE
    OBVIOUS
  <2>1. PICK n \in Bad : \A m \in Bad : n <= m
    BY LeastNatural
  <2>2. CASE n = 0
    <3> DEFINE f == [s \in UpTo(S, 0) |-> 0]
    <3>1. \A s \in UpTo(S, 0) : s = {}
      <4> TAKE s \in UpTo(S, 0)
      <4>1. s \in SUBSET S /\ Cardinality(s) <= 0
        BY DEF UpTo
      <4>2. s # {} => Cardinality(s) \in Nat \ {0}
        BY <4>1, PickRemoves
      <4> QED BY <4>1, <4>2
    <3>2. IsPartialSum(f, S, c, 0)
      BY <3>1 DEF IsPartialSum
    <3> QED BY <2>1, <2>2, <3>2
  <2>3. CASE n # 0
    <3>1. n - 1 \in Nat /\ n - 1 \notin Bad
      BY <2>1, <2>3
    <3>2. PICK f : IsPartialSum(f, S, c, n - 1)
      BY <3>1
    <3> DEFINE Step(s) == IF s = {} THEN 0 ELSE c[Pick(s)] + f[s \ {Pick(s)}]
               g == [s \in UpTo(S, n) |-> Step(s)]
    <3>3. \A s \in UpTo(S, n) : s # {} => s \ {Pick(s)} \in UpTo(S, n - 1)
      <4> SUFFICES ASSUME NEW s \in UpTo(S, n), s # {} PROVE s \ {Pick(s)} \in UpTo(S, n - 1)
        OBVIOUS
      <4>1. s \in SUBSET S /\ Cardinality(s) <= n
        BY DEF UpTo
      <4> QED BY <4>1, <2>1, PickRemoves DEF UpTo
    <3>4. UpTo(S, n - 1) \subseteq UpTo(S, n)
      <4> SUFFICES ASSUME NEW s \in UpTo(S, n - 1) PROVE s \in UpTo(S, n)
        OBVIOUS
      <4>1. s \in SUBSET S /\ Cardinality(s) <= n - 1
        BY DEF UpTo
      <4>2. IsFiniteSet(s)
        BY <4>1, FS_Subset
      <4> QED BY <4>1, <4>2, FS_CardinalityType, <2>1 DEF UpTo
    <3>5. \A s \in UpTo(S, n - 1) : f[s] = Step(s)
      BY <3>2 DEF IsPartialSum
    <3>6. \A s \in UpTo(S, n - 1) : g[s] = f[s]
      BY <3>4, <3>5
    <3>7. \A s \in UpTo(S, n) : Step(s) = IF s = {} THEN 0 ELSE c[Pick(s)] + g[s \ {Pick(s)}]
      BY <3>3, <3>6
    <3>8. IsPartialSum(g, S, c, n)
      BY <3>7 DEF IsPartialSum
    <3> QED BY <2>1, <3>8
  <2> QED BY <2>2, <2>3
<1>2. Cardinality(S) \in Nat
  BY FS_CardinalityType
<1>3. PICK f : IsPartialSum(f, S, c, Cardinality(S))
  BY <1>1, <1>2
<1>4. UpTo(S, Cardinality(S)) = SUBSET S
  <2>1. \A s \in SUBSET S : Cardinality(s) <= Cardinality(S)
    BY FS_Subset
  <2> QED BY <2>1 DEF UpTo
<1> QED BY <1>3, <1>4 DEF IsSum, IsPartialSum

\* Total is a value of it.
LEMMA TotalIsSum ==
    ASSUME NEW S, IsFiniteSet(S), NEW c \in [S -> Nat]
    PROVE  \E f : IsSum(f, S, c) /\ Total(c) = f[S]
<1> DEFINE F == CHOOSE f : IsSum(f, S, c)
<1>1. DOMAIN c = S
  OBVIOUS
<1>2. Total(c) = F[S]
  BY <1>1 DEF Total, MapThenSumSet, MapThenFoldSet, IsSum, Pick
<1>3. IsSum(F, S, c)
  BY SumExists
<1> QED BY <1>2, <1>3

\* One step of the recursion.
LEMMA SumStep ==
    ASSUME NEW S, NEW c, NEW f, IsSum(f, S, c)
    PROVE  \A s \in SUBSET S : f[s] = IF s = {} THEN 0 ELSE c[Pick(s)] + f[s \ {Pick(s)}]
BY DEF IsSum

\* A sum of counters is a natural number.
LEMMA SumNat ==
    ASSUME NEW S, IsFiniteSet(S), NEW c \in [S -> Nat], NEW f, IsSum(f, S, c)
    PROVE  \A s \in SUBSET S : f[s] \in Nat
<1>a. \A s \in SUBSET S : f[s] = IF s = {} THEN 0 ELSE c[Pick(s)] + f[s \ {Pick(s)}]
  BY SumStep
<1> DEFINE B == {s \in SUBSET S : f[s] \notin Nat}
<1> SUFFICES ASSUME B # {} PROVE FALSE
  OBVIOUS
<1>1. PICK s \in B : s # {} => s \ {Pick(s)} \notin B
  BY Smallest
<1>2. CASE s = {}
  <2>1. s \in SUBSET S /\ f[s] \notin Nat
    OBVIOUS
  <2>2. f[s] = 0
    BY <1>a, <1>2, <2>1
  <2> QED BY <2>1, <2>2
<1>3. CASE s # {}
  <2>1. Pick(s) \in S /\ f[s \ {Pick(s)}] \in Nat
    BY <1>1, <1>3, PickRemoves
  <2> QED BY <1>1, <1>3, <2>1, <1>a
<1> QED BY <1>2, <1>3

\* Counters that only grew have a sum that is no smaller.
LEMMA SumMono ==
    ASSUME NEW S, IsFiniteSet(S), NEW c \in [S -> Nat], NEW d \in [S -> Nat],
           \A x \in S : c[x] <= d[x],
           NEW f, IsSum(f, S, c), NEW g, IsSum(g, S, d)
    PROVE  \A s \in SUBSET S : f[s] <= g[s]
<1>a. \A s \in SUBSET S : f[s] = IF s = {} THEN 0 ELSE c[Pick(s)] + f[s \ {Pick(s)}]
  BY SumStep
<1>b. \A s \in SUBSET S : g[s] = IF s = {} THEN 0 ELSE d[Pick(s)] + g[s \ {Pick(s)}]
  BY SumStep
<1> DEFINE B == {s \in SUBSET S : ~(f[s] <= g[s])}
<1> SUFFICES ASSUME B # {} PROVE FALSE
  OBVIOUS
<1>1. PICK s \in B : s # {} => s \ {Pick(s)} \notin B
  BY Smallest
<1>2. CASE s = {}
  <2>1. f[s] = 0
    BY <1>a, <1>1, <1>2
  <2>2. g[s] = 0
    BY <1>b, <1>1, <1>2
  <2> QED BY <1>1, <2>1, <2>2
<1>3. CASE s # {}
  <2>1. Pick(s) \in S /\ s \ {Pick(s)} \in SUBSET S
    BY <1>1, <1>3, PickRemoves
  <2>2. f[s \ {Pick(s)}] <= g[s \ {Pick(s)}]
    BY <1>1, <1>3, <2>1
  <2>3. f[s \ {Pick(s)}] \in Nat /\ g[s \ {Pick(s)}] \in Nat
    BY <2>1, SumNat
  <2>4. f[s] = c[Pick(s)] + f[s \ {Pick(s)}]
    BY <1>a, <1>1, <1>3
  <2>5. g[s] = d[Pick(s)] + g[s \ {Pick(s)}]
    BY <1>b, <1>1, <1>3
  <2>6. f[s] <= g[s]
    <3>1. c[Pick(s)] \in Nat /\ d[Pick(s)] \in Nat /\ c[Pick(s)] <= d[Pick(s)]
      BY <2>1
    <3> QED BY <2>2, <2>3, <2>4, <2>5, <3>1
  <2> QED BY <1>1, <2>6
<1> QED BY <1>2, <1>3

\* An addition to one counter is one to the sum of the sets it is in.
LEMMA SumBump ==
    ASSUME NEW S, IsFiniteSet(S), NEW c \in [S -> Nat], NEW d \in [S -> Nat], NEW k \in S,
           \A x \in S : d[x] = c[x] + IF x = k THEN 1 ELSE 0,
           NEW f, IsSum(f, S, c), NEW g, IsSum(g, S, d)
    PROVE  \A s \in SUBSET S : g[s] = f[s] + IF k \in s THEN 1 ELSE 0
<1>a. \A s \in SUBSET S : f[s] = IF s = {} THEN 0 ELSE c[Pick(s)] + f[s \ {Pick(s)}]
  BY SumStep
<1>b. \A s \in SUBSET S : g[s] = IF s = {} THEN 0 ELSE d[Pick(s)] + g[s \ {Pick(s)}]
  BY SumStep
<1> DEFINE B == {s \in SUBSET S : g[s] # f[s] + IF k \in s THEN 1 ELSE 0}
<1> SUFFICES ASSUME B # {} PROVE FALSE
  OBVIOUS
<1>1. PICK s \in B : s # {} => s \ {Pick(s)} \notin B
  BY Smallest
<1>2. CASE s = {}
  <2>1. f[s] = 0
    BY <1>a, <1>1, <1>2
  <2>2. g[s] = 0
    BY <1>b, <1>1, <1>2
  <2> QED BY <1>1, <1>2, <2>1, <2>2
<1>3. CASE s # {}
  <2>1. Pick(s) \in s /\ Pick(s) \in S /\ s \ {Pick(s)} \in SUBSET S
    BY <1>1, <1>3, PickRemoves
  <2>2. g[s \ {Pick(s)}] = f[s \ {Pick(s)}] + IF k \in s \ {Pick(s)} THEN 1 ELSE 0
    BY <1>1, <1>3, <2>1
  <2>3. f[s \ {Pick(s)}] \in Nat
    BY <2>1, SumNat
  <2>4. f[s] = c[Pick(s)] + f[s \ {Pick(s)}]
    BY <1>a, <1>1, <1>3
  <2>5. g[s] = d[Pick(s)] + g[s \ {Pick(s)}]
    BY <1>b, <1>1, <1>3
  <2>6. g[s] = f[s] + IF k \in s THEN 1 ELSE 0
    <3>1. c[Pick(s)] \in Nat /\ d[Pick(s)] = c[Pick(s)] + IF Pick(s) = k THEN 1 ELSE 0
      BY <2>1
    <3> QED BY <2>1, <2>2, <2>3, <2>4, <2>5, <3>1
  <2> QED BY <1>1, <2>6
<1> QED BY <1>2, <1>3

\* What the proofs below use of Total.
LEMMA TotalNat ==
    ASSUME NEW S, IsFiniteSet(S), NEW c \in [S -> Nat]
    PROVE  Total(c) \in Nat
<1>1. PICK f : IsSum(f, S, c) /\ Total(c) = f[S]
  BY TotalIsSum
<1> QED BY <1>1, SumNat

\* Larger counters have no smaller total.
LEMMA TotalMono ==
    ASSUME NEW S, IsFiniteSet(S), NEW c \in [S -> Nat], NEW d \in [S -> Nat],
           \A x \in S : c[x] <= d[x]
    PROVE  Total(c) <= Total(d)
<1>1. PICK f : IsSum(f, S, c) /\ Total(c) = f[S]
  BY TotalIsSum
<1>2. PICK g : IsSum(g, S, d) /\ Total(d) = g[S]
  BY TotalIsSum
<1>3. \A s \in SUBSET S : f[s] <= g[s]
  BY <1>1, <1>2, SumMono
<1> QED BY <1>1, <1>2, <1>3

\* One addition is one more in total.
LEMMA TotalBump ==
    ASSUME NEW S, IsFiniteSet(S), NEW c \in [S -> Nat], NEW k \in S
    PROVE  Total([c EXCEPT ![k] = @ + 1]) = Total(c) + 1
<1>1. PICK f : IsSum(f, S, c) /\ Total(c) = f[S]
  BY TotalIsSum
<1>2. PICK d : d = [c EXCEPT ![k] = @ + 1]
  OBVIOUS
<1>3. d \in [S -> Nat] /\ \A x \in S : d[x] = c[x] + IF x = k THEN 1 ELSE 0
  BY <1>2
<1>4. PICK g : IsSum(g, S, d) /\ Total(d) = g[S]
  BY <1>3, TotalIsSum
<1>5. \A s \in SUBSET S : g[s] = f[s] + IF k \in s THEN 1 ELSE 0
  BY <1>1, <1>3, <1>4, SumBump
<1>6. g[S] = f[S] + 1
  BY <1>5
<1> QED BY <1>1, <1>2, <1>4, <1>6

\* Counters at zero add up to zero.
LEMMA TotalZero ==
    ASSUME NEW S, IsFiniteSet(S)
    PROVE  Total([x \in S |-> 0]) = 0
<1>1. PICK z : z = [x \in S |-> 0]
  OBVIOUS
<1>2. z \in [S -> Nat] /\ \A x \in S : z[x] = 0
  BY <1>1
<1>3. PICK f : IsSum(f, S, z) /\ Total(z) = f[S]
  BY <1>2, TotalIsSum
<1>a. \A s \in SUBSET S : f[s] = IF s = {} THEN 0 ELSE z[Pick(s)] + f[s \ {Pick(s)}]
  BY <1>3, SumStep
<1> DEFINE B == {s \in SUBSET S : f[s] # 0}
<1>4. B = {}
  <2> SUFFICES ASSUME B # {} PROVE FALSE
    OBVIOUS
  <2>1. PICK s \in B : s # {} => s \ {Pick(s)} \notin B
    BY Smallest
  <2>2. s \in SUBSET S /\ f[s] # 0
    OBVIOUS
  <2>3. CASE s = {}
    BY <1>a, <2>2, <2>3
  <2>4. CASE s # {}
    <3>1. Pick(s) \in S /\ s \ {Pick(s)} \in SUBSET S
      BY <2>2, <2>4, PickRemoves
    <3>2. f[s] = z[Pick(s)] + f[s \ {Pick(s)}]
      BY <1>a, <2>2, <2>4
    <3>3. f[s \ {Pick(s)}] = 0
      BY <2>1, <2>4, <3>1
    <3> QED BY <1>2, <2>2, <3>1, <3>2, <3>3
  <2> QED BY <2>3, <2>4
<1> QED BY <1>1, <1>3, <1>4

-----------------------------------------------------------------------------
(* RecordEvent without a lock: what the counters owe to the calls under    *)
(* way, and what a page can see of it.                                     *)

\* A writer that moves joins or leaves the calls at the places it moves between.
LEMMA WriterMoves ==
    ASSUME NEW P, NEW w \in Writer,
           \A v \in Writer : v # w => call'[v].at = call[v].at
    PROVE  /\ Cardinality(At(P)) \in Nat /\ Cardinality(At(P)') \in Nat
           /\ Cardinality(At(P)') = Cardinality(At(P))
                  + (IF call'[w].at \in P THEN 1 ELSE 0) - (IF call[w].at \in P THEN 1 ELSE 0)
<1>1. PICK A, B : A = At(P) /\ B = At(P)'
  OBVIOUS
<1>2. A = {v \in Writer : call[v].at \in P} /\ B = {v \in Writer : call'[v].at \in P}
  BY <1>1 DEF At
<1>3. IsFiniteSet(A) /\ IsFiniteSet(B)
  <2>1. A \in SUBSET Writer /\ B \in SUBSET Writer
    BY <1>2
  <2> QED BY <2>1, FS_Subset, KeysAssumption
<1>4. Cardinality(A) \in Nat /\ Cardinality(B) \in Nat
  BY <1>3, FS_CardinalityType
<1>5. CASE (call'[w].at \in P) <=> (call[w].at \in P)
  <2>1. A = B
    BY <1>2, <1>5
  <2> QED BY <1>1, <1>4, <1>5, <2>1
<1>6. CASE call'[w].at \in P /\ call[w].at \notin P
  <2>1. B = A \cup {w} /\ w \notin A
    BY <1>2, <1>6
  <2>2. Cardinality(B) = Cardinality(A) + 1
    BY <1>3, <2>1, FS_AddElement
  <2> QED BY <1>1, <1>4, <1>6, <2>2
<1>7. CASE call'[w].at \notin P /\ call[w].at \in P
  <2>1. B = A \ {w} /\ w \in A
    BY <1>2, <1>7
  <2>2. Cardinality(B) = Cardinality(A) - 1
    BY <1>3, <2>1, FS_RemoveElement
  <2> QED BY <1>1, <1>4, <1>7, <2>2
<1> QED BY <1>5, <1>6, <1>7

\* The three numbers of calls in CountsAgree, when one writer moves.
LEMMA CallsMove ==
    ASSUME NEW w \in Writer, \A v \in Writer : v # w => call'[v].at = call[v].at
    PROVE  /\ Cardinality(At({"route"})) \in Nat
           /\ Cardinality(At({"route", "ring"})) \in Nat
           /\ Cardinality(At({"route", "ring", "outcome"})) \in Nat
           /\ Cardinality(At({"route"})') = Cardinality(At({"route"}))
                  + (IF call'[w].at = "route" THEN 1 ELSE 0)
                  - (IF call[w].at = "route" THEN 1 ELSE 0)
           /\ Cardinality(At({"route", "ring"})') = Cardinality(At({"route", "ring"}))
                  + (IF call'[w].at \in {"route", "ring"} THEN 1 ELSE 0)
                  - (IF call[w].at \in {"route", "ring"} THEN 1 ELSE 0)
           /\ Cardinality(At({"route", "ring", "outcome"})')
                  = Cardinality(At({"route", "ring", "outcome"}))
                  + (IF call'[w].at \in {"route", "ring", "outcome"} THEN 1 ELSE 0)
                  - (IF call[w].at \in {"route", "ring", "outcome"} THEN 1 ELSE 0)
<1>1. /\ Cardinality(At({"route"})) \in Nat
      /\ Cardinality(At({"route"})') = Cardinality(At({"route"}))
             + (IF call'[w].at \in {"route"} THEN 1 ELSE 0)
             - (IF call[w].at \in {"route"} THEN 1 ELSE 0)
  BY WriterMoves
<1>2. /\ Cardinality(At({"route", "ring"})) \in Nat
      /\ Cardinality(At({"route", "ring"})') = Cardinality(At({"route", "ring"}))
             + (IF call'[w].at \in {"route", "ring"} THEN 1 ELSE 0)
             - (IF call[w].at \in {"route", "ring"} THEN 1 ELSE 0)
  BY WriterMoves
<1>3. /\ Cardinality(At({"route", "ring", "outcome"})) \in Nat
      /\ Cardinality(At({"route", "ring", "outcome"})')
             = Cardinality(At({"route", "ring", "outcome"}))
             + (IF call'[w].at \in {"route", "ring", "outcome"} THEN 1 ELSE 0)
             - (IF call[w].at \in {"route", "ring", "outcome"} THEN 1 ELSE 0)
  BY WriterMoves
<1> QED BY <1>1, <1>2, <1>3

\* The counters in terms of numbers, as the steps change them.
Agree(served, byRoute, byOutcome, r, rr, rro, count, n) ==
    /\ served = byRoute + r
    /\ byOutcome - rr + rro = n
    /\ count = IF byOutcome - rr < Cap THEN byOutcome - rr ELSE Cap

\* CountsAgree is that statement about the state.
LEMMA CountsAsNumbers ==
    CountsAgree <=> Agree(eventCounters[Served], Total(routeCounters), Total(eventCounters),
                          Cardinality(At({"route"})), Cardinality(At({"route", "ring"})),
                          Cardinality(At({"route", "ring", "outcome"})), eventCount, calls)
BY DEF CountsAgree, Agree

\* The event of a call under way names a route and an outcome.
LEMMA CallHasEvent ==
    ASSUME RingInv, NEW w \in Writer, call[w].at # "idle"
    PROVE  call[w].event.route \in Route /\ call[w].event.outcome \in Outcome
<1>1. call[w].event \in Event
  BY DEF RingInv, RingType
<1> QED BY <1>1 DEF Event

\* At first nothing is counted and nobody is in RecordEvent.
LEMMA CountsInit == RingInit => CountsAgree
<1> SUFFICES ASSUME RingInit PROVE CountsAgree
  OBVIOUS
<1>1. Total(routeCounters) = 0 /\ Total(eventCounters) = 0
  BY TotalZero, KeysAssumption DEF RingInit
<1>2. ASSUME NEW P, "idle" \notin P PROVE Cardinality(At(P)) = 0
  <2>1. At(P) = {}
    BY <1>2 DEF RingInit, At, Idle
  <2> QED BY <2>1, FS_EmptySet
<1>3. /\ Cardinality(At({"route"})) = 0 /\ Cardinality(At({"route", "ring"})) = 0
      /\ Cardinality(At({"route", "ring", "outcome"})) = 0
  BY <1>2
<1>4. eventCounters[Served] = 0 /\ eventCount = 0 /\ calls = 0
  BY RingAssumption DEF RingInit
<1> QED BY <1>1, <1>3, <1>4, CountsAsNumbers, RingAssumption DEF Agree

\* Each of the additions and the push moves one call from one account to the
\* next, whatever the other writers do in between.
LEMMA CountsNext == ASSUME RingInv, CountsAgree, [RingNext]_ringVars PROVE CountsAgree'
<1>1. /\ Total(routeCounters) \in Nat /\ Total(eventCounters) \in Nat
      /\ eventCounters[Served] \in Nat /\ eventCount \in Nat /\ calls \in Nat /\ Cap \in Nat
  <2>1. Total(routeCounters) \in Nat
    BY TotalNat, KeysAssumption DEF RingInv
  <2>2. Total(eventCounters) \in Nat
    BY TotalNat, KeysAssumption DEF RingInv
  <2> QED BY <2>1, <2>2, RingAssumption DEF RingInv, RingType
<1>2. Agree(eventCounters[Served], Total(routeCounters), Total(eventCounters),
            Cardinality(At({"route"})), Cardinality(At({"route", "ring"})),
            Cardinality(At({"route", "ring", "outcome"})), eventCount, calls)
  BY CountsAsNumbers
<1>3. SUFFICES Agree(eventCounters'[Served], Total(routeCounters'), Total(eventCounters'),
            Cardinality(At({"route"})'), Cardinality(At({"route", "ring"})'),
            Cardinality(At({"route", "ring", "outcome"})'), eventCount', calls')
  BY DEF CountsAgree, Agree
<1>4. call \in [Writer -> [at : {"idle", "outcome", "route", "ring"},
                           event : Event \cup {NoEvent}]]
  BY DEF RingInv, RingType
<1>5. ASSUME NEW w \in Writer, NEW e \in Event, RecordEvent(w, e)
      PROVE  Agree(eventCounters'[Served], Total(routeCounters'), Total(eventCounters'),
            Cardinality(At({"route"})'), Cardinality(At({"route", "ring"})'),
            Cardinality(At({"route", "ring", "outcome"})'), eventCount', calls')
  <2>1. /\ call[w].at = "idle" /\ call'[w].at = "outcome"
        /\ \A v \in Writer : v # w => call'[v].at = call[v].at
        /\ UNCHANGED <<routeCounters, eventCounters, eventCount>> /\ calls' = calls + 1
    BY <1>4, <1>5 DEF RecordEvent, ring
  <2>2. /\ Cardinality(At({"route"})) \in Nat
        /\ Cardinality(At({"route", "ring"})) \in Nat
        /\ Cardinality(At({"route", "ring", "outcome"})) \in Nat
        /\ Cardinality(At({"route"})') = Cardinality(At({"route"}))
        /\ Cardinality(At({"route", "ring"})') = Cardinality(At({"route", "ring"}))
        /\ Cardinality(At({"route", "ring", "outcome"})')
               = Cardinality(At({"route", "ring", "outcome"})) + 1
    BY <2>1, CallsMove
  <2> QED BY <1>1, <1>2, <2>1, <2>2 DEF Agree
<1>6. ASSUME NEW w \in Writer, CountOutcome(w)
      PROVE  Agree(eventCounters'[Served], Total(routeCounters'), Total(eventCounters'),
            Cardinality(At({"route"})'), Cardinality(At({"route", "ring"})'),
            Cardinality(At({"route", "ring", "outcome"})'), eventCount', calls')
  <2>1. PICK o \in Outcome : o = call[w].event.outcome
    BY <1>6, CallHasEvent DEF CountOutcome
  <2>2. /\ call[w].at = "outcome" /\ call'[w].at = IF o = Served THEN "route" ELSE "ring"
        /\ \A v \in Writer : v # w => call'[v].at = call[v].at
    BY <1>4, <1>6, <2>1 DEF CountOutcome
  <2>3. /\ eventCounters' = [eventCounters EXCEPT ![o] = @ + 1]
        /\ UNCHANGED <<routeCounters, eventCount, calls>>
    BY <1>6, <2>1 DEF CountOutcome, ring
  <2>4. Total(eventCounters') = Total(eventCounters) + 1
    BY <2>3, TotalBump, KeysAssumption DEF RingInv
  <2>5. eventCounters'[Served] = eventCounters[Served] + IF o = Served THEN 1 ELSE 0
    BY <2>3, <1>1, RingAssumption DEF RingInv
  <2>6. CASE o = Served
    BY <1>1, <1>2, <2>2, <2>3, <2>4, <2>5, <2>6, CallsMove DEF Agree
  <2>7. CASE o # Served
    <3>1. /\ Cardinality(At({"route"})) \in Nat
          /\ Cardinality(At({"route", "ring"})) \in Nat
          /\ Cardinality(At({"route", "ring", "outcome"})) \in Nat
          /\ Cardinality(At({"route"})') = Cardinality(At({"route"}))
          /\ Cardinality(At({"route", "ring"})') = Cardinality(At({"route", "ring"})) + 1
          /\ Cardinality(At({"route", "ring", "outcome"})')
                 = Cardinality(At({"route", "ring", "outcome"}))
      BY <2>2, <2>7, CallsMove
    <3> QED BY <1>1, <1>2, <2>3, <2>4, <2>5, <2>7, <3>1 DEF Agree
  <2> QED BY <2>6, <2>7
<1>7. ASSUME NEW w \in Writer, CountRoute(w)
      PROVE  Agree(eventCounters'[Served], Total(routeCounters'), Total(eventCounters'),
            Cardinality(At({"route"})'), Cardinality(At({"route", "ring"})'),
            Cardinality(At({"route", "ring", "outcome"})'), eventCount', calls')
  <2>1. PICK r \in Route : r = call[w].event.route
    BY <1>7, CallHasEvent DEF CountRoute
  <2>2. /\ call[w].at = "route" /\ call'[w].at = "ring"
        /\ \A v \in Writer : v # w => call'[v].at = call[v].at
    BY <1>4, <1>7 DEF CountRoute
  <2>3. /\ routeCounters' = [routeCounters EXCEPT ![r] = @ + 1]
        /\ UNCHANGED <<eventCounters, eventCount, calls>>
    BY <1>7, <2>1 DEF CountRoute, ring
  <2>4. Total(routeCounters') = Total(routeCounters) + 1
    BY <2>3, TotalBump, KeysAssumption DEF RingInv
  <2> QED BY <1>1, <1>2, <2>2, <2>3, <2>4, CallsMove DEF Agree
<1>8. ASSUME NEW w \in Writer, PushRing(w)
      PROVE  Agree(eventCounters'[Served], Total(routeCounters'), Total(eventCounters'),
            Cardinality(At({"route"})'), Cardinality(At({"route", "ring"})'),
            Cardinality(At({"route", "ring", "outcome"})'), eventCount', calls')
  <2>1. /\ call[w].at = "ring" /\ call'[w].at = "idle"
        /\ \A v \in Writer : v # w => call'[v].at = call[v].at
    BY <1>4, <1>8 DEF PushRing, Idle
  <2>2. /\ eventCount' = IF eventCount < Cap THEN eventCount + 1 ELSE eventCount
        /\ UNCHANGED <<routeCounters, eventCounters, calls>>
    BY <1>8 DEF PushRing
  <2> QED BY <1>1, <1>2, <2>1, <2>2, CallsMove DEF Agree
<1>9. CASE UNCHANGED <<routeCounters, eventCounters, eventCount, call, calls>>
  <2>1. \A P : At(P)' = At(P)
    BY <1>9 DEF At
  <2> QED BY <1>2, <1>9, <2>1
<1> QED
  BY <1>5, <1>6, <1>7, <1>8, <1>9
  DEF RingNext, ringVars, ring, HandleAdminMetrics, GetRouteStats, GetEventStats, AnswerMetrics

\* The counters of RecordEvent agree in every reachable state, for any number of
\* writers, routes and outcomes and every capacity: no addition is lost or made
\* twice, and what is missing in one place belongs to a call under way.
THEOREM CountersAgree == RingSpec => []CountsAgree
<1>1. RingInv /\ CountsAgree /\ [RingNext]_ringVars => CountsAgree'
  BY CountsNext
<1> QED BY <1>1, CountsInit, RingInvariant, PTL DEF RingSpec

\* What a page has read of the routes is no more than the counters hold, and
\* once it has read the served requests it has read every route: the load of
\* Served came after them.
PageInv ==
    /\ \A r \in Route : page.stats[r] <= routeCounters[r]
    /\ page.at = "answered" => page.todo = {}
    /\ Served \notin page.todo =>
           page.todo \cap Route = {} /\ Total(page.stats) <= page.eventStats[Served]

\* Before the first page there is nothing to compare.
LEMMA PageInit == RingInit => PageInv
<1> SUFFICES ASSUME RingInit PROVE PageInv
  OBVIOUS
<1>1. Total(page.stats) = 0
  BY TotalZero, KeysAssumption DEF RingInit, NoPage
<1> QED BY <1>1, RingAssumption DEF RingInit, NoPage, PageInv

\* No load of the page and no addition of a writer breaks it.
LEMMA PageStep ==
    ASSUME RingInv, RingInv', CountsAgree, PageInv, [RingNext]_ringVars
    PROVE  PageInv'
<1>1. page \in Page /\ routeCounters \in [Route -> Nat] /\ eventCounters \in [Outcome -> Nat]
  BY DEF RingInv
<1>2. Served \notin Route /\ Served \in Outcome
  BY RingAssumption, KeysAssumption
<1>3. CASE UNCHANGED page /\ \A r \in Route : routeCounters[r] <= routeCounters'[r]
  <2>1. \A r \in Route : page'.stats[r] <= routeCounters'[r]
    <3> TAKE r \in Route
    <3>1. page'.stats[r] \in Nat /\ routeCounters[r] \in Nat /\ routeCounters'[r] \in Nat
      BY DEF RingInv, Page
    <3> QED BY <1>3, <3>1 DEF PageInv
  <2> QED BY <1>3, <2>1 DEF PageInv
<1>4. CASE HandleAdminMetrics
  <2>1. /\ page'.at = "reading" /\ page'.todo = Route \cup Outcome
        /\ page'.stats = [r \in Route |-> 0] /\ UNCHANGED routeCounters
    BY <1>4 DEF HandleAdminMetrics, NoPage
  <2> QED BY <1>1, <1>2, <2>1 DEF PageInv
<1>5. ASSUME NEW r \in Route, GetRouteStats(r) PROVE PageInv'
  <2>1. r \in page.todo /\ Served \in page.todo /\ page.at # "answered"
    BY <1>5 DEF GetRouteStats, PageInv
  <2>2. /\ page'.at = page.at /\ page'.todo = page.todo \ {r}
        /\ page'.stats = [page.stats EXCEPT ![r] = routeCounters[r]] /\ UNCHANGED routeCounters
    BY <1>1, <1>5 DEF GetRouteStats, Page
  <2>3. \A s \in Route : page'.stats[s] <= routeCounters[s]
    BY <1>1, <2>2 DEF PageInv, Page
  <2> QED BY <1>2, <2>1, <2>2, <2>3 DEF PageInv
<1>6. ASSUME NEW o \in Outcome, GetEventStats(o) PROVE PageInv'
  <2>1. o \in page.todo /\ page.todo \cap Route = {} /\ page.at # "answered"
    BY <1>6 DEF GetEventStats, PageInv
  <2>2. /\ page'.at = page.at /\ page'.todo = page.todo \ {o} /\ page'.stats = page.stats
        /\ page'.eventStats = [page.eventStats EXCEPT ![o] = eventCounters[o]]
        /\ UNCHANGED routeCounters
    BY <1>1, <1>6 DEF GetEventStats, Page
  <2>3. CASE o = Served
    <3>1. page.stats \in [Route -> Nat] /\ page'.eventStats[Served] = eventCounters[Served]
      BY <1>1, <2>2, <2>3 DEF Page
    <3>2. Total(page.stats) <= Total(routeCounters)
      BY <1>1, <3>1, TotalMono, KeysAssumption DEF PageInv
    <3>3. Total(page.stats) \in Nat
      BY <3>1, TotalNat, KeysAssumption
    <3>4. Total(routeCounters) \in Nat
      BY <1>1, TotalNat, KeysAssumption
    <3>5. Cardinality(At({"route"})) \in Nat
      <4>1. At({"route"}) \in SUBSET Writer
        BY DEF At
      <4>2. IsFiniteSet(At({"route"}))
        BY <4>1, FS_Subset, KeysAssumption
      <4> QED BY <4>2, FS_CardinalityType
    <3>6. Total(page.stats) <= eventCounters[Served]
      BY <3>2, <3>3, <3>4, <3>5 DEF CountsAgree
    <3> QED BY <2>1, <2>2, <3>1, <3>6 DEF PageInv
  <2>4. CASE o # Served
    <3>1. page'.eventStats[Served] = page.eventStats[Served]
      BY <1>1, <1>2, <2>2, <2>4 DEF Page
    <3> QED BY <2>1, <2>2, <2>4, <3>1 DEF PageInv
  <2> QED BY <2>3, <2>4
<1>7. CASE AnswerMetrics
  <2>1. /\ page.todo = {} /\ page'.todo = page.todo /\ page'.stats = page.stats
        /\ page'.eventStats = page.eventStats /\ UNCHANGED routeCounters
    BY <1>1, <1>7 DEF AnswerMetrics, Page
  <2> QED BY <2>1 DEF PageInv
<1>8. ASSUME NEW w \in Writer, CountRoute(w) PROVE PageInv'
  <2>1. PICK r \in Route : r = call[w].event.route
    BY <1>8, CallHasEvent DEF CountRoute
  <2>2. UNCHANGED page /\ routeCounters' = [routeCounters EXCEPT ![r] = @ + 1]
    BY <1>8, <2>1 DEF CountRoute
  <2>3. \A s \in Route : routeCounters[s] <= routeCounters'[s]
    BY <1>1, <2>2
  <2> QED BY <1>3, <2>2, <2>3
<1>9. CASE UNCHANGED <<page, routeCounters>>
  BY <1>1, <1>3, <1>9
<1> QED
  BY <1>4, <1>5, <1>6, <1>7, <1>8, <1>9
  DEF RingNext, ringVars, RecordEvent, CountOutcome, PushRing

\* The admin page adds up though it takes no lock, whatever is recorded while it
\* reads and in whatever order it visits the keys of a map: it never shows more
\* requests by route than it shows as served.
THEOREM PagesAddUp == RingSpec => []PageAddsUp
<1>1. RingInv /\ RingInv' /\ CountsAgree /\ PageInv /\ [RingNext]_ringVars => PageInv'
  BY PageStep
<1>2. PageInv => PageAddsUp
  BY DEF PageInv, PageAddsUp
<1> QED BY <1>1, <1>2, PageInit, RingInvariant, CountersAgree, PTL DEF RingSpec
=============================================================================

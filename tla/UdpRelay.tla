------------------------------ MODULE UdpRelay ------------------------------
(***************************************************************************)
(* One UDP relay of proxy/udp.go: the loop that reads datagrams and opens  *)
(* a flow (a socket dialled to the target) per client address, one reply   *)
(* pump per flow, the reaper of idle flows, and the way all of them end    *)
(* when the context is cancelled. They share the map of flows, under mu,   *)
(* which only the reaper holds for longer than a step, and the sockets and *)
(* times of activity, which they use without it.                           *)
(*                                                                         *)
(* lastActive is kept as the age of the time stored, in half timeouts (the *)
(* period of the reaper's ticker), and stops growing once past the         *)
(* timeout. A client stands for its address and its IP. The tier, the      *)
(* event and the access log entry of a packet are the state of Limiter,    *)
(* EventRing and Lifecycle. Bans and permissions are read only while the   *)
(* first packet of a flow is handled, so only its sender's are kept.       *)
(***************************************************************************)
EXTENDS Naturals

CONSTANTS
    Client,
    Flow,       \* udpSession values; as many as there are descriptors
    NoClient, NoFlow

ASSUME RelayAssumption == NoClient \notin Client /\ NoFlow \notin Flow

Timeout == 2            \* udpSessionTimeout, in ticks of its half
Expired == Timeout + 1  \* any age beyond the timeout

VARIABLES
    ctx,         \* "live" or "cancelled"
    listen,      \* listenConn
    sessions,    \* client -> its flow, or NoFlow
    sock,        \* flow -> targetConn
    owner,       \* flow -> the client address its pump answers to
    lastActive,  \* flow -> age of the last activity
    pump,        \* flow -> where its goroutine is
    loop,        \* where the read loop is, with the client and flow at hand
    reaper,      \* where the reaper is
    stale,       \* the flows whose lastActive is before the reaper's cutoff
    doomed,      \* the flow the reaper is about to close, or NoFlow
    ticker,      \* a tick is waiting in the ticker's channel
    standing,    \* what IsBanned and authorizeIP would say of the client at hand
    quiet,       \* history: flow -> time without a datagram either way
    seen         \* history: all that standing has held since its packet arrived

net  == <<sock, owner, lastActive, quiet>>
gate == <<standing, seen>>
sweep == <<reaper, stale, doomed, ticker>>
vars == <<ctx, listen, sessions, net, pump, loop, sweep, gate>>

Reading == [at |-> "read", client |-> NoClient, flow |-> NoFlow]

\* The types of the state; in particular the loop never goes on to store, serve
\* or write to a flow it does not have.
TypeOK ==
    /\ ctx \in {"live", "cancelled"} /\ listen \in {"open", "closed"}
    /\ sessions \in [Client -> Flow \cup {NoFlow}]
    /\ sock \in [Flow -> {"open", "closed"}]
    /\ owner \in [Flow -> Client \cup {NoClient}]
    /\ lastActive \in [Flow -> 0 .. Expired] /\ quiet \in [Flow -> 0 .. Expired]
    /\ pump \in [Flow -> {"none", "reading", "closing", "removing"}]
    /\ loop \in [at : {"read", "check", "authorize", "dial", "store", "spawn", "write",
                       "close", "wait", "returned"},
                 client : Client \cup {NoClient}, flow : Flow \cup {NoFlow}]
    /\ loop.at \in {"store", "spawn", "write"} => loop.flow # NoFlow
    /\ reaper \in {"running", "locking", "sweeping", "returned"} /\ ticker \in BOOLEAN
    /\ stale \subseteq Flow /\ doomed \in Flow \cup {NoFlow}
    /\ standing \subseteq {"unbanned", "permitted"} /\ seen \subseteq {"unbanned", "permitted"}

Init ==
    /\ ctx = "live" /\ listen = "open"
    /\ sessions = [c \in Client |-> NoFlow]
    /\ sock = [f \in Flow |-> "closed"] /\ owner = [f \in Flow |-> NoClient]
    /\ lastActive = [f \in Flow |-> 0] /\ quiet = [f \in Flow |-> 0]
    /\ pump = [f \in Flow |-> "none"]
    /\ loop = Reading
    /\ reaper = "running" /\ ticker = FALSE /\ stale = {} /\ doomed = NoFlow
    /\ standing = {} /\ seen = {}

\* targetConn.Close on some flows; the age of a closed flow does not matter.
Close(flows) ==
    /\ sock' = [f \in Flow |-> IF f \in flows THEN "closed" ELSE sock[f]]
    /\ lastActive' = [f \in Flow |-> IF f \in flows THEN 0 ELSE lastActive[f]]
    /\ quiet' = [f \in Flow |-> IF f \in flows THEN 0 ELSE quiet[f]]

\* lastActive.Store(time.Now())
Store(f) ==
    /\ lastActive' = [lastActive EXCEPT ![f] = 0]
    /\ stale' = stale \ {f}

InMap(f) == \E c \in Client : sessions[c] = f

\* mu can be taken.
Unlocked == reaper # "sweeping"

-----------------------------------------------------------------------------
\* The read loop.
Goto(place) == loop' = [loop EXCEPT !.at = place]
NextPacket  == loop' = Reading /\ standing' = {} /\ seen' = {}

\* Fault: a client without a flow is not told from one that has one.
ReadFrom_Fault(c) ==
    /\ loop.at = "read" /\ listen = "open" /\ Unlocked
    /\ loop' = [at |-> "write", client |-> c, flow |-> sessions[c]]
    /\ UNCHANGED <<ctx, listen, sessions, net, pump, sweep, gate>>

\* ReadFrom returns a datagram, and the flow of its sender is looked up.
ReadFrom(c) ==
    /\ loop.at = "read" /\ listen = "open" /\ Unlocked
    /\ loop' = [at |-> IF sessions[c] = NoFlow THEN "check" ELSE "write",
                client |-> c, flow |-> sessions[c]]
    /\ standing' \in IF sessions[c] = NoFlow THEN SUBSET {"unbanned", "permitted"} ELSE {{}}
    /\ seen' = standing'
    /\ UNCHANGED <<ctx, listen, sessions, net, pump, sweep>>

\* IsBanned: the packet is dropped.
DropBanned ==
    /\ loop.at = "check" /\ "unbanned" \notin standing
    /\ NextPacket
    /\ UNCHANGED <<ctx, listen, sessions, net, pump, sweep>>

PassBanned ==
    /\ loop.at = "check" /\ "unbanned" \in standing
    /\ Goto("authorize")
    /\ UNCHANGED <<ctx, listen, sessions, net, pump, sweep, gate>>

\* authorizeIP refuses: the access log, the event and RecordFailure, which may
\* ban the client (its next packet may find it banned in any case).
DropUnauthorized ==
    /\ loop.at = "authorize" /\ "permitted" \notin standing
    /\ NextPacket
    /\ UNCHANGED <<ctx, listen, sessions, net, pump, sweep>>

\* Fault: the verdict of authorizeIP is only logged.
Authorize_Fault ==
    /\ loop.at = "authorize"
    /\ Goto("dial")
    /\ UNCHANGED <<ctx, listen, sessions, net, pump, sweep, gate>>

Authorize ==
    /\ loop.at = "authorize" /\ "permitted" \in standing
    /\ Goto("dial")
    /\ UNCHANGED <<ctx, listen, sessions, net, pump, sweep, gate>>

\* A flow of which nothing is left.
Free(f) == pump[f] = "none" /\ sock[f] = "closed" /\ ~InMap(f)

\* net.Dial; lastActive is set before the flow is shared.
Dial(f) ==
    /\ loop.at = "dial" /\ Free(f)
    /\ sock' = [sock EXCEPT ![f] = "open"]
    /\ owner' = [owner EXCEPT ![f] = loop.client]
    /\ Store(f)
    /\ quiet' = [quiet EXCEPT ![f] = 0]
    /\ loop' = [loop EXCEPT !.at = "store", !.flow = f]
    /\ UNCHANGED <<ctx, listen, sessions, pump, reaper, doomed, ticker, gate>>

DialFails ==
    /\ loop.at = "dial"
    /\ NextPacket
    /\ UNCHANGED <<ctx, listen, sessions, net, pump, sweep>>

StoreSession ==
    /\ loop.at = "store" /\ Unlocked
    /\ sessions' = [sessions EXCEPT ![loop.client] = loop.flow]
    /\ Goto("spawn")
    /\ UNCHANGED <<ctx, listen, net, pump, sweep, gate>>

\* wg.Add and the pump's goroutine.
SpawnPump ==
    /\ loop.at = "spawn"
    /\ pump' = [pump EXCEPT ![loop.flow] = "reading"]
    /\ Goto("write")
    /\ UNCHANGED <<ctx, listen, sessions, net, sweep, gate>>

\* The packet goes to the target; on a closed socket it is lost.
WriteTarget ==
    /\ loop.at = "write"
    /\ LET f == loop.flow
       IN  /\ Store(f)
           /\ quiet' = [quiet EXCEPT ![f] = IF sock[f] = "open" THEN 0 ELSE @]
    /\ NextPacket
    /\ UNCHANGED <<ctx, listen, sessions, sock, owner, pump, reaper, doomed, ticker>>

\* ReadFrom fails: listenConn was closed, or an error of the socket.
ReadFails ==
    /\ loop.at = "read"
    /\ Goto("close")
    /\ UNCHANGED <<ctx, listen, sessions, net, pump, sweep, gate>>

\* Fault: the flows are left to the reaper, which ends with the context.
CloseSessions_Fault ==
    /\ loop.at = "close" /\ Unlocked
    /\ Goto("wait")
    /\ UNCHANGED <<ctx, listen, sessions, net, pump, sweep, gate>>

\* Every target socket in the map is closed, so that the pumps end.
CloseSessions ==
    /\ loop.at = "close" /\ Unlocked
    /\ Close({f \in Flow : InMap(f)})
    /\ Goto("wait")
    /\ UNCHANGED <<ctx, listen, sessions, owner, pump, sweep, gate>>

\* wg.Wait, and the deferred close of listenConn.
Return ==
    /\ loop.at = "wait" /\ reaper = "returned" /\ \A f \in Flow : pump[f] = "none"
    /\ Goto("returned")
    /\ listen' = "closed"
    /\ UNCHANGED <<ctx, sessions, net, pump, sweep, gate>>

-----------------------------------------------------------------------------
\* The reply pump of a flow.
\* Fault: only the client's packets count as activity.
Reply_Fault(f) ==
    /\ pump[f] = "reading" /\ sock[f] = "open"
    /\ quiet' = [quiet EXCEPT ![f] = 0]
    /\ pump' = [pump EXCEPT ![f] = IF listen = "open" THEN @ ELSE "closing"]
    /\ UNCHANGED <<ctx, listen, sessions, sock, owner, lastActive, loop, sweep, gate>>

\* A datagram of the target goes back to the client over listenConn; it counts
\* as activity from the moment lastActive is stored.
Reply(f) ==
    /\ pump[f] = "reading" /\ sock[f] = "open"
    /\ Store(f)
    /\ quiet' = [quiet EXCEPT ![f] = 0]
    /\ pump' = [pump EXCEPT ![f] = IF listen = "open" THEN @ ELSE "closing"]
    /\ UNCHANGED <<ctx, listen, sessions, sock, owner, loop, reaper, doomed, ticker, gate>>

\* Read fails: the socket was closed, or the target refused a packet.
PumpFails(f) ==
    /\ pump[f] = "reading"
    /\ pump' = [pump EXCEPT ![f] = "closing"]
    /\ UNCHANGED <<ctx, listen, sessions, net, loop, sweep, gate>>

PumpCloses(f) ==
    /\ pump[f] = "closing"
    /\ Close({f})
    /\ pump' = [pump EXCEPT ![f] = "removing"]
    /\ UNCHANGED <<ctx, listen, sessions, owner, loop, sweep, gate>>

\* Fault: the entry of the client is deleted whichever flow it holds.
PumpRemoves_Fault(f) ==
    /\ pump[f] = "removing" /\ Unlocked
    /\ sessions' = [sessions EXCEPT ![owner[f]] = NoFlow]
    /\ pump' = [pump EXCEPT ![f] = "none"]
    /\ owner' = [owner EXCEPT ![f] = NoClient]
    /\ UNCHANGED <<ctx, listen, sock, lastActive, quiet, loop, sweep, gate>>

\* The entry of the client is deleted if it still holds this flow.
PumpRemoves(f) ==
    /\ pump[f] = "removing" /\ Unlocked
    /\ sessions' = [sessions EXCEPT ![owner[f]] = IF @ = f THEN NoFlow ELSE @]
    /\ pump' = [pump EXCEPT ![f] = "none"]
    /\ owner' = [owner EXCEPT ![f] = NoClient]
    /\ UNCHANGED <<ctx, listen, sock, lastActive, quiet, loop, sweep, gate>>

-----------------------------------------------------------------------------
\* The reaper. A tick has come, and the cutoff is computed.
SweepBegins ==
    /\ reaper = "running" /\ ticker
    /\ reaper' = "locking" /\ ticker' = FALSE
    /\ stale' = {f \in Flow : lastActive[f] > Timeout}
    /\ UNCHANGED <<ctx, listen, sessions, net, pump, loop, doomed, gate>>

SweepLocks ==
    /\ reaper = "locking"
    /\ reaper' = "sweeping"
    /\ UNCHANGED <<ctx, listen, sessions, net, pump, loop, stale, doomed, ticker, gate>>

\* lastActive.Load finds a flow idle. (A flow it finds active is passed over.)
SweepLoads(f) ==
    /\ reaper = "sweeping" /\ doomed = NoFlow
    /\ InMap(f) /\ f \in stale
    /\ doomed' = f
    /\ UNCHANGED <<ctx, listen, sessions, net, pump, loop, reaper, stale, ticker, gate>>

\* Fault: the flow is deleted and left to its pump to close.
SweepCloses_Fault ==
    /\ doomed # NoFlow
    /\ sessions' = [c \in Client |-> IF sessions[c] = doomed THEN NoFlow ELSE sessions[c]]
    /\ doomed' = NoFlow
    /\ UNCHANGED <<ctx, listen, net, pump, loop, reaper, stale, ticker, gate>>

\* It is closed and deleted, whatever has passed through it since.
SweepCloses ==
    /\ doomed # NoFlow
    /\ Close({doomed})
    /\ sessions' = [c \in Client |-> IF sessions[c] = doomed THEN NoFlow ELSE sessions[c]]
    /\ doomed' = NoFlow
    /\ UNCHANGED <<ctx, listen, owner, pump, loop, reaper, stale, ticker, gate>>

\* Every flow has been looked at, and mu is released.
SweepEnds ==
    /\ reaper = "sweeping" /\ doomed = NoFlow
    /\ \A f \in stale : ~InMap(f)
    /\ reaper' = "running" /\ stale' = {}
    /\ UNCHANGED <<ctx, listen, sessions, net, pump, loop, doomed, ticker, gate>>

ReaperReturns ==
    /\ reaper = "running" /\ ctx = "cancelled"
    /\ reaper' = "returned"
    /\ UNCHANGED <<ctx, listen, sessions, net, pump, loop, stale, doomed, ticker, gate>>

-----------------------------------------------------------------------------
\* The context ends (shutdown, or the route is deleted or replaced).
Cancel ==
    /\ ctx = "live"
    /\ ctx' = "cancelled"
    /\ UNCHANGED <<listen, sessions, net, pump, loop, sweep, gate>>

\* The goroutine that waits for ctx.Done closes listenConn.
CloseListen ==
    /\ ctx = "cancelled" /\ listen = "open"
    /\ listen' = "closed"
    /\ UNCHANGED <<ctx, sessions, net, pump, loop, sweep, gate>>

Older(age) == [f \in Flow |-> IF sock[f] = "open" /\ age[f] < Expired THEN age[f] + 1 ELSE age[f]]

\* Half a timeout passes; the ticker's channel holds one tick.
Tick ==
    /\ reaper # "returned"
    /\ lastActive' = Older(lastActive) /\ quiet' = Older(quiet)
    /\ ticker' = TRUE
    /\ UNCHANGED <<ctx, listen, sessions, sock, owner, pump, loop, reaper, stale, doomed, gate>>

\* Bans and sessions come and go elsewhere.
AccessChanges ==
    /\ loop.at \in {"check", "authorize"}
    /\ standing' \in SUBSET {"unbanned", "permitted"} \ {standing}
    /\ seen' = seen \cup standing'
    /\ UNCHANGED <<ctx, listen, sessions, net, pump, loop, sweep>>

Done == loop.at = "returned" /\ UNCHANGED vars

LoopStep == \/ DropBanned \/ PassBanned \/ DropUnauthorized \/ Authorize
            \/ (\E f \in Flow : Dial(f)) \/ DialFails \/ StoreSession \/ SpawnPump
            \/ WriteTarget \/ CloseSessions \/ Return
Next ==
    \/ \E c \in Client : ReadFrom(c)
    \/ LoopStep \/ ReadFails
    \/ \E f \in Flow : Reply(f) \/ PumpFails(f) \/ PumpCloses(f) \/ PumpRemoves(f)
    \/ SweepBegins \/ SweepLocks \/ (\E f \in Flow : SweepLoads(f)) \/ SweepCloses \/ SweepEnds
    \/ ReaperReturns
    \/ Cancel \/ CloseListen \/ Tick \/ AccessChanges
    \/ Done

\* The scheduler runs every goroutine that is not blocked. No waiter starves at
\* mu (sync.Mutex hands it over after a while) nor a case of the reaper's select
\* (it takes one of those ready at random).
Fairness ==
    /\ SF_vars(LoopStep) /\ WF_vars(listen = "closed" /\ ReadFails)
    /\ \A f \in Flow : /\ WF_vars(sock[f] = "closed" /\ PumpFails(f))
                       /\ WF_vars(PumpCloses(f)) /\ SF_vars(PumpRemoves(f))
    /\ WF_vars(SweepBegins) /\ WF_vars(SweepLocks) /\ WF_vars(\E f \in Flow : SweepLoads(f))
    /\ WF_vars(SweepCloses) /\ WF_vars(SweepEnds)
    /\ SF_vars(ReaperReturns) /\ WF_vars(CloseListen)

Spec == Init /\ [][Next]_vars /\ Fairness

-----------------------------------------------------------------------------
\* No socket is lost: one that is open is in the map, where the reaper and the
\* shutdown find it, or in the hands of the loop that is about to put it there.
\* In particular the pump of a flow that was reaped never removes the flow its
\* client has opened since; and nothing is left when runUDPProxy has returned.
NoLeak ==
    /\ \A f \in Flow : sock[f] = "open" =>
           sessions[owner[f]] = f \/ (loop.at = "store" /\ loop.flow = f)
    /\ loop.at = "returned" =>
           \A f \in Flow : sock[f] # "open" /\ pump[f] = "none"

\* The reaper goes on to close no open flow that has carried a datagram, in
\* either direction, within the timeout of the moment it reads lastActive. (The
\* sockets are not under mu: a datagram carried between that moment and the
\* Close does not save the flow, so one may be closed right after it.)
ReapedOnlyIdle ==
    [][\A f \in Flow : doomed # f /\ doomed' = f /\ sock[f] = "open" => quiet[f] > Timeout]_vars

\* A flow is opened only for a client that was seen unbanned, and permitted, at
\* some time while its packet was handled: a ban or a revocation that was in
\* force before is never passed by, though one that comes later does not end
\* the flow.
FlowsAreGated ==
    [][\A c \in Client : sessions[c] = NoFlow /\ sessions'[c] # NoFlow =>
           seen = {"unbanned", "permitted"}]_vars

\* A flow that stays idle is closed.
IdleIsReaped ==
    \A f \in Flow : (sock[f] = "open" /\ lastActive[f] > Timeout)
                        ~> (sock[f] # "open" \/ lastActive[f] <= Timeout)

\* A cancelled relay comes to its end, whatever its clients and targets do.
CancelEnds == (ctx = "cancelled") ~> (loop.at = "returned")
=============================================================================

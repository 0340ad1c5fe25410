------------------------------ MODULE Limiter -------------------------------
(***************************************************************************)
(* The per-address buckets of proxy/limiter.go: tier, token bucket and     *)
(* failure window, used by concurrent requests through pointers that       *)
(* bucketFor hands out, while sweepBuckets evicts idle buckets from the    *)
(* map. A bucket evicted while a request holds its pointer lives on,       *)
(* detached: the next request on the address starts with a new one.        *)
(*                                                                         *)
(* Tokens are counted in parts of a token: a request takes Unit parts and  *)
(* a policy of r tokens per second refills rate = r * Unit parts per unit  *)
(* of the clock. Never stands for the zero time.Time.                      *)
(***************************************************************************)
EXTENDS Integers, Sequences, FiniteSets

CONSTANTS
    IP, Worker,
    Bucket,       \* the heap objects
    Tier, Anonymous,
    Policies,     \* the policy tables the administrator may save
    Unit, Idle,   \* parts per token; ipBucketIdle
    None,
    MaxBurst, MaxThreshold,  \* no saved policy exceeds these
    Span,         \* no longer than Idle, nor than the window of a policy
    MaxTime,      \* bound: the clock stops here
    LogLength     \* bound: failures the history remembers

Never == -1

Policy == [enabled : BOOLEAN, rate : Nat, burst : Nat,
           banEnabled : BOOLEAN, threshold : Nat, window : Nat]

\* The API stores what it is sent: numbers below zero act like zero, a burst
\* of zero like one of one, and a burst may take longer than Idle to refill.
ASSUME LimiterAssumption ==
    /\ Anonymous \in Tier
    /\ None \notin Bucket \cup IP
    /\ Policies \subseteq [Tier -> Policy]
    /\ Unit \in Nat \ {0} /\ Idle \in Nat /\ MaxTime \in Nat /\ LogLength \in Nat

\* The bounds on policies, and a history long enough to justify a ban.
ASSUME PoliciesAssumption ==
    /\ MaxBurst \in Nat \ {0} /\ MaxThreshold \in Nat \ {0}
    /\ Span \in Nat \ {0} /\ Span <= Idle
    /\ \A p \in Policies, t \in Tier :
         /\ p[t].burst <= MaxBurst
         /\ p[t].threshold <= MaxThreshold /\ p[t].threshold <= LogLength
         /\ p[t].window = 0 \/ Span <= p[t].window

VARIABLES
    now,
    policies,   \* the snapshot of throttle_policies
    map,        \* ipBuckets: address -> bucket
    bkt,        \* bucket -> its fields
    req,        \* worker -> pc, address and the pointer it holds
    sweep,      \* the ticker: the address it is about to delete, or None
    ideal,      \* history: a token bucket per address that is never evicted and
                \* goes through what the bucket in the map does
    detached,   \* history: buckets of the address evicted while in use
    failLog,    \* history: times of the latest failures that were counted
    fresh,      \* history: how many of them came after the last ban
    lastTrip    \* history: what the latest automatic ban was based on

vars == <<now, policies, map, bkt, req, sweep, ideal, detached, failLog, fresh, lastTrip>>

IdleReq == [pc |-> "idle", ip |-> None, b |-> None]
NoTrip  == [failures |-> 0, threshold |-> 0]

Blank == [tier |-> Anonymous, tokens |-> 0, lastRefill |-> Never,
          failCount |-> 0, windowStart |-> Never, lastSeen |-> 0]

Init ==
    /\ now = 0
    /\ policies \in Policies
    /\ map = [i \in IP |-> None]
    /\ bkt = [b \in Bucket |-> Blank]
    /\ req = [w \in Worker |-> IdleReq]
    /\ sweep = None
    /\ ideal = [i \in IP |-> [tokens |-> 0, lastRefill |-> Never, loans |-> 0]]
    /\ detached = [i \in IP |-> 0]
    /\ failLog = [i \in IP |-> << >>]
    /\ fresh = [i \in IP |-> 0]
    /\ lastTrip = NoTrip

-----------------------------------------------------------------------------
InUse(b) == (\E i \in IP : map[i] = b) \/ (\E w \in Worker : req[w].b = b)

\* bucketFor: Load, or LoadOrStore of a new bucket; w goes on with the
\* pointer. Objects nobody refers to are collected.
bucketFor(w, i, next) ==
    \/ /\ map[i] # None
       /\ req' = [req EXCEPT ![w] = [pc |-> next, ip |-> i, b |-> map[i]]]
       /\ UNCHANGED <<map, bkt>>
    \/ /\ map[i] = None
       /\ \E b \in Bucket :
            /\ ~InUse(b)
            /\ map' = [map EXCEPT ![i] = b]
            /\ bkt' = [x \in Bucket |-> CASE x = b    -> [Blank EXCEPT !.lastSeen = now]
                                          [] InUse(x) -> bkt[x]
                                          [] OTHER    -> Blank]
            /\ req' = [req EXCEPT ![w] = [pc |-> next, ip |-> i, b |-> b]]

\* Fault: no ceiling at the burst.
Refill_Fault(x, p) ==
    [x EXCEPT !.tokens = IF x.lastRefill = Never THEN p.burst * Unit
                         ELSE x.tokens + (now - x.lastRefill) * p.rate,
              !.lastRefill = now]

\* Token arithmetic of Allow on a record with tokens and lastRefill.
Refill(x, p) ==
    LET cap == IF p.burst < 1 THEN Unit ELSE p.burst * Unit
        sum == IF x.lastRefill = Never THEN cap
               ELSE x.tokens + (now - x.lastRefill) * p.rate
    IN  [x EXCEPT !.tokens = IF sum > cap THEN cap ELSE sum, !.lastRefill = now]

Spend(x) == [x EXCEPT !.tokens = @ - Unit]

\* A policy whose burst takes longer to refill than an idle bucket is kept.
Slow(p) == p.rate * Idle < p.burst * Unit \/ p.rate * Idle < Unit

\* History: what a request that asks for cost parts leaves in a bucket that
\* was full when the address was first seen and has gained the rate of the
\* policy in force from each request to the next. A loan is a new bucket
\* filled under a slow policy before this one is full.
IdealSpend(x, p, cost, new) ==
    LET full == IF p.burst = 0 THEN Unit ELSE p.burst * Unit
        gained == IF x.lastRefill = Never THEN full
                  ELSE x.tokens + (now - x.lastRefill) * p.rate
    IN  [tokens |-> (IF gained < full THEN gained ELSE full) - cost,
         lastRefill |-> now,
         loans |-> IF new /\ Slow(p) /\ gained < full THEN x.loans + 1 ELSE x.loans]

\* b.tokens >= 1
Enough(x) == x.tokens >= Unit

Unlimited(p) == ~p.enabled \/ p.rate = 0

Goto(w, pc) == req' = [req EXCEPT ![w] = [@ EXCEPT !.pc = pc, !.b = None]]

\* withAuthForKey calls Allow.
Arrive(w, i) ==
    /\ req[w].pc = "idle"
    /\ bucketFor(w, i, "allow")
    /\ UNCHANGED <<now, policies, sweep, ideal, detached, failLog, fresh, lastTrip>>

\* The locked part of Allow.
Allow(w) ==
    /\ req[w].pc = "allow"
    /\ LET b == req[w].b
           p == policies[bkt[b].tier]
           full == Refill(bkt[b], p)
           Ideal(cost) ==
               ideal' = [ideal EXCEPT ![req[w].ip] =
                            IF map[req[w].ip] = b THEN IdealSpend(@, p, cost, bkt[b].lastRefill = Never) ELSE @]
       IN  \/ /\ Unlimited(p)
              /\ bkt' = [bkt EXCEPT ![b].lastSeen = now]
              /\ Goto(w, "admitted")
              /\ UNCHANGED ideal
           \/ /\ ~Unlimited(p) /\ Enough(full)
              /\ bkt' = [bkt EXCEPT ![b] = [Spend(full) EXCEPT !.lastSeen = now]]
              /\ Ideal(Unit)
              /\ Goto(w, "admitted")
           \/ /\ ~Unlimited(p) /\ ~Enough(full)
              /\ bkt' = [bkt EXCEPT ![b] = [full EXCEPT !.lastSeen = now]]
              /\ Ideal(0)
              /\ Goto(w, "failed")
    /\ UNCHANGED <<now, policies, map, sweep, detached, failLog, fresh, lastTrip>>

\* The rest of the request: served without a session, denied, or served on a
\* session, which calls SetTier with a tier ResolveTier may return.
Serve(w) ==
    /\ req[w].pc = "admitted"
    /\ req' = [req EXCEPT ![w] = IdleReq]
    /\ UNCHANGED <<now, policies, map, bkt, sweep, ideal, detached, failLog, fresh, lastTrip>>

Deny(w) ==
    /\ req[w].pc = "admitted"
    /\ Goto(w, "failed")
    /\ UNCHANGED <<now, policies, map, bkt, sweep, ideal, detached, failLog, fresh, lastTrip>>

Authenticate(w) ==
    /\ req[w].pc = "admitted"
    /\ bucketFor(w, req[w].ip, "tier")
    /\ UNCHANGED <<now, policies, sweep, ideal, detached, failLog, fresh, lastTrip>>

\* The locked part of SetTier.
SetTier(w, t) ==
    /\ req[w].pc = "tier"
    /\ t # Anonymous
    /\ bkt' = [bkt EXCEPT ![req[w].b] = [@ EXCEPT !.tier = t, !.lastSeen = now]]
    /\ req' = [req EXCEPT ![w] = IdleReq]
    /\ UNCHANGED <<now, policies, map, sweep, ideal, detached, failLog, fresh, lastTrip>>

\* A failure that does not come from Allow: a rejected raw connection, an
\* unknown host, a TLS handshake error.
OtherFailure(w, i) ==
    /\ req[w].pc = "idle"
    /\ req' = [req EXCEPT ![w] = [pc |-> "failed", ip |-> i, b |-> None]]
    /\ UNCHANGED <<now, policies, map, bkt, sweep, ideal, detached, failLog, fresh, lastTrip>>

\* RecordFailure: bucketFor again, then the locked part.
FailureBegins(w) ==
    /\ req[w].pc = "failed"
    /\ bucketFor(w, req[w].ip, "count")
    /\ UNCHANGED <<now, policies, sweep, ideal, detached, failLog, fresh, lastTrip>>

\* The latest n elements of a sequence.
LastOf(log, n) == IF Len(log) > n THEN SubSeq(log, Len(log) - n + 1, Len(log)) ELSE log

\* A failure is counted: history only.
Remember(i, n) ==
    /\ failLog' = [failLog EXCEPT ![i] = LastOf(Append(@, now), LogLength)]
    /\ fresh' = [fresh EXCEPT ![i] = IF n > LogLength THEN LogLength ELSE n]

\* Fault: the count survives the end of the window.
Window_Fault(x, p) ==
    IF x.windowStart = Never \/ (p.window > 0 /\ now - x.windowStart > p.window)
    THEN [x EXCEPT !.windowStart = now, !.failCount = @ + 1]
    ELSE [x EXCEPT !.failCount = @ + 1]

\* Fault: the test of the window is inverted.
WindowInverted_Fault(x, p) ==
    IF x.windowStart = Never \/ (p.window > 0 /\ now - x.windowStart <= p.window)
    THEN [x EXCEPT !.windowStart = now, !.failCount = 1]
    ELSE [x EXCEPT !.failCount = @ + 1]

\* The window is restarted when it is over, not moved along.
Window(x, p) ==
    IF x.windowStart = Never \/ (p.window > 0 /\ now - x.windowStart > p.window)
    THEN [x EXCEPT !.windowStart = now, !.failCount = 1]
    ELSE [x EXCEPT !.failCount = @ + 1]

\* How many of the times in log are within the window that ends now.
Within(log, window) ==
    Cardinality({k \in 1 .. Len(log) : window = 0 \/ now - log[k] <= window})

RecordFailure(w) ==
    /\ req[w].pc = "count"
    /\ LET b == req[w].b
           i == req[w].ip
           p == policies[bkt[b].tier]
           x == [Window(bkt[b], p) EXCEPT !.lastSeen = now]
       IN  \/ /\ ~p.banEnabled \/ p.threshold = 0
              /\ bkt' = [bkt EXCEPT ![b].lastSeen = now]
              /\ UNCHANGED <<failLog, fresh, lastTrip>>
           \/ /\ p.banEnabled /\ p.threshold > 0 /\ x.failCount < p.threshold
              /\ bkt' = [bkt EXCEPT ![b] = x]
              /\ Remember(i, fresh[i] + 1)
              /\ UNCHANGED lastTrip
           \/ /\ p.banEnabled /\ p.threshold > 0 /\ x.failCount >= p.threshold
              /\ bkt' = [bkt EXCEPT ![b] =
                            [x EXCEPT !.failCount = 0, !.windowStart = Never]]
              /\ Remember(i, 0)
              /\ lastTrip' = [failures |-> Within(failLog'[i], p.window),
                              threshold |-> p.threshold]
    /\ req' = [req EXCEPT ![w] = IdleReq]
    /\ UNCHANGED <<now, policies, map, sweep, ideal, detached>>

-----------------------------------------------------------------------------
\* sweepBuckets: the test is made under the bucket's lock, the deletion
\* after it has been released.
SweepTest(i) ==
    /\ sweep = None
    /\ map[i] # None
    /\ bkt[map[i]].lastSeen < now - Idle
    /\ sweep' = i
    /\ UNCHANGED <<now, policies, map, bkt, req, ideal, detached, failLog, fresh, lastTrip>>

\* The bucket may have been used since the test, or be held by a request.
SweepDelete ==
    /\ sweep # None
    /\ LET b == map[sweep]
       IN  detached' = [detached EXCEPT ![sweep] =
               IF b # None /\ (bkt[b].lastSeen >= now - Idle \/ \E w \in Worker : req[w].b = b)
               THEN @ + 1 ELSE @]
    /\ map' = [map EXCEPT ![sweep] = None]
    /\ sweep' = None
    /\ UNCHANGED <<now, policies, bkt, req, ideal, failLog, fresh, lastTrip>>

\* reloadThrottle after an administrator saved a policy.
ReloadPolicies(p) ==
    /\ policies' = p
    /\ UNCHANGED <<now, map, bkt, req, sweep, ideal, detached, failLog, fresh, lastTrip>>

Tick ==
    /\ now < MaxTime
    /\ now' = now + 1
    /\ UNCHANGED <<policies, map, bkt, req, sweep, ideal, detached, failLog, fresh, lastTrip>>

Next ==
    \/ \E w \in Worker :
        \/ \E i \in IP : Arrive(w, i) \/ OtherFailure(w, i)
        \/ Allow(w) \/ Serve(w) \/ Deny(w) \/ Authenticate(w)
        \/ \E t \in Tier : SetTier(w, t)
        \/ FailureBegins(w) \/ RecordFailure(w)
    \/ \E i \in IP : SweepTest(i)
    \/ SweepDelete
    \/ \E p \in Policies : ReloadPolicies(p)
    \/ Tick

Spec == Init /\ [][Next]_vars

-----------------------------------------------------------------------------
(* Properties                                                              *)

\* No address is admitted more often than one token bucket that is never
\* evicted would admit it, whatever tiers and policies it goes through. One
\* more burst is the most that is gained when a bucket is evicted while in
\* use, or when a policy that takes longer than Idle to refill its burst
\* fills a new one; the eviction of an idle bucket gains nothing under the
\* other policies. (Requests that still hold an evicted bucket, one each,
\* are not counted.)
RateBound ==
    \A i \in IP : ideal[i].tokens + (detached[i] + ideal[i].loans) * (MaxBurst * Unit) >= 0

\* An automatic ban is based on as many failures within the policy's window
\* as the policy demands, whatever tier the address was in when they
\* happened and whatever buckets were evicted.
BanJustified == lastTrip.failures >= lastTrip.threshold

\* What the restarted window still guarantees: without a ban, an address
\* gets at most twice (threshold - 1) failures past in a time as short as
\* every window and as the idle time of an eviction, as long as no bucket of
\* it was evicted in use.
BanBound ==
    \A i \in IP : detached[i] = 0 =>
        Within(LastOf(failLog[i], fresh[i]), Span) <= 2 * (MaxThreshold - 1)
=============================================================================

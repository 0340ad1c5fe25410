---------------------------- MODULE LimiterProofs ---------------------------
(***************************************************************************)
(* Proofs about Limiter, for any number of addresses, workers and buckets, *)
(* any tiers and any policies.                                             *)
(*                                                                         *)
(* Owned says that a bucket belongs to one address, whether the map or a   *)
(* request refers to it. Then RateBound needs that the bucket in the map   *)
(* has never more tokens than the one that is never evicted, or that it is *)
(* new and the other one has been idle long enough to be evicted (Paced);  *)
(* BanJustified that the failures a bucket counts are the latest ones of   *)
(* its address, none older than its window (Counted); BanBound that what   *)
(* was counted in earlier windows is over (Passed).                        *)
(***************************************************************************)
EXTENDS Limiter, FiniteSetTheorems, TLAPS

PC == {"idle", "allow", "admitted", "tier", "failed", "count"}

BucketRec == [tier : Tier, tokens : Nat, lastRefill : Int,
              failCount : Nat, windowStart : Int, lastSeen : Nat]
Request == [pc : PC, ip : IP \cup {None}, b : Bucket \cup {None}]
IdealRec == [tokens : Int, lastRefill : Int, loans : Nat]

Typed ==
    /\ now \in Nat /\ policies \in Policies
    /\ map \in [IP -> Bucket \cup {None}]
    /\ bkt \in [Bucket -> BucketRec]
    /\ req \in [Worker -> Request]
    /\ sweep \in IP \cup {None}
    /\ ideal \in [IP -> IdealRec]
    /\ detached \in [IP -> Nat]
    /\ failLog \in [IP -> Seq(Nat)]
    /\ fresh \in [IP -> Nat]

\* What a request refers to at each pc.
Stage(q) ==
    /\ q.pc # "idle" => q.ip \in IP
    /\ IF q.pc \in {"allow", "tier", "count"} THEN q.b \in Bucket ELSE q.b = None

Stages == \A w \in Worker : Stage(req[w])

\* Nothing happened in the future.
Clocked(x) == x.lastRefill <= now /\ x.windowStart <= now /\ x.lastSeen <= now
Times ==
    /\ \A b \in Bucket : Clocked(bkt[b])
    /\ \A i \in IP : ideal[i].lastRefill <= now

\* The map or a request on the address i refers to the bucket b.
Of(b, i) == map[i] = b \/ \E w \in Worker : req[w].b = b /\ req[w].ip = i

Owned == \A b \in Bucket : \A i, j \in IP : Of(b, i) /\ Of(b, j) => i = j

\* A burst of every policy fits into Full; what evictions in use and slow
\* policies have cost.
Full == MaxBurst * Unit
Owing(d, x) == (d + x.loans) * Full
Debt(i) == Owing(detached[i], ideal[i])

\* The burst of a policy, in parts of a token.
Cap(p) == IF p.burst < 1 THEN Unit ELSE p.burst * Unit

\* The address has a bucket that has been asked for tokens.
Drawn(i) == map[i] # None /\ bkt[map[i]].lastRefill # Never

Paced(i) ==
    /\ ideal[i].tokens + Debt(i) >= 0
    /\ map[i] # None => ideal[i].lastRefill <= bkt[map[i]].lastSeen
    /\ IF Drawn(i)
       THEN /\ ideal[i].lastRefill = bkt[map[i]].lastRefill
            /\ bkt[map[i]].tokens <= ideal[i].tokens + Debt(i)
       ELSE \/ ideal[i].lastRefill = Never
            \/ ideal[i].lastRefill < now - Idle
            \/ ideal[i].tokens + Debt(i) >= Full

\* The j-th latest entry of a log.
Late(log, j) == log[Len(log) - j + 1]

\* The failures that a bucket x of an address with this log has counted.
Counts(x, log) ==
    /\ x.windowStart = Never <=> x.failCount = 0
    /\ \A j \in 1 .. x.failCount : j <= LogLength =>
          j <= Len(log) /\ x.windowStart <= Late(log, j)

Counted == \A b \in Bucket, i \in IP : Of(b, i) => Counts(bkt[b], failLog[i])

\* The logs hold times, and the failures since the latest ban.
Logged(i) ==
    /\ fresh[i] <= Len(failLog[i]) /\ Len(failLog[i]) <= LogLength
    /\ \A j \in 1 .. Len(failLog[i]) : Late(failLog[i], j) <= now

\* The n latest failures of a log: those the bucket x counts in its window,
\* and before them at most MaxThreshold - 1 that may be recent.
Settled(x, log, n) ==
    IF x.failCount = 0
    THEN \A j \in 1 .. n : Late(log, j) + Span < now
    ELSE /\ x.failCount < MaxThreshold
         /\ \A j \in 1 .. n :
              /\ x.failCount <= j => Late(log, j) <= x.windowStart
              /\ x.failCount + MaxThreshold <= j => Late(log, j) + Span < x.windowStart

\* The failures since the latest ban of an address of which no bucket was
\* evicted in use.
Passed(i) ==
    /\ \A w \in Worker : req[w].b # None /\ req[w].ip = i => map[i] = req[w].b
    /\ map[i] # None => \A j \in 1 .. fresh[i] : Late(failLog[i], j) <= bkt[map[i]].lastSeen
    /\ IF map[i] = None
       THEN \A j \in 1 .. fresh[i] : Late(failLog[i], j) + Span < now
       ELSE Settled(bkt[map[i]], failLog[i], fresh[i])

Inv ==
    /\ Typed /\ Stages /\ Times /\ Owned /\ Counted /\ BanJustified
    /\ \A i \in IP : Paced(i) /\ Logged(i) /\ (detached[i] = 0 => Passed(i))

-----------------------------------------------------------------------------
(* Arithmetic, policies and logs                                           *)

\* A longer time gains no less.
LEMMA Longer ==
    ASSUME NEW a \in Nat, NEW b \in Nat, NEW c \in Nat, b <= a
    PROVE  b * c <= a * c /\ a * c \in Nat /\ b * c \in Nat
<1>1. a = b + (a - b) /\ a - b \in Nat
  OBVIOUS
<1>2. (a - b) * c \in Nat
  BY <1>1
<1>3. a * c = b * c + (a - b) * c
  BY <1>1
<1> QED BY <1>2, <1>3

\* The largest burst, in parts of a token.
LEMMA FullOK == Full \in Nat
  BY LimiterAssumption, PoliciesAssumption DEF Full

\* What evictions have cost is a multiple of Full.
LEMMA DebtOK ==
    ASSUME NEW d \in Nat
    PROVE  d * Full \in Nat /\ (d + 1) * Full = d * Full + Full
  BY FullOK

\* The debt of an address, and of one more eviction or loan.
LEMMA OwingOK ==
    ASSUME NEW d \in Nat, NEW x \in IdealRec
    PROVE  Owing(d, x) \in Nat /\ Owing(d + 1, x) = Owing(d, x) + Full
<1>1. x.loans \in Nat
  BY DEF IdealRec
<1>2. d + x.loans \in Nat /\ d + 1 + x.loans = (d + x.loans) + 1
  BY <1>1
<1> QED BY <1>2, DebtOK DEF Owing

\* A policy that limits: its burst is between one token and Full, and refilled
\* within Idle unless it is slow.
LEMMA LimitOK ==
    ASSUME NEW t \in Tier, policies \in Policies, ~Unlimited(policies[t])
    PROVE  /\ policies[t].rate \in Nat /\ policies[t].burst \in Nat
           /\ Cap(policies[t]) \in Nat
           /\ Cap(policies[t]) = (IF policies[t].burst = 0 THEN Unit ELSE policies[t].burst * Unit)
           /\ Cap(policies[t]) <= Full
           /\ ~Slow(policies[t]) => Cap(policies[t]) <= Idle * policies[t].rate
<1>1. policies[t] \in Policy
  BY LimiterAssumption
<1>2. policies[t].rate \in Nat /\ policies[t].burst \in Nat /\ policies[t].burst <= MaxBurst
  BY <1>1, PoliciesAssumption DEF Policy
<1>3. Unit \in Nat /\ MaxBurst \in Nat /\ 1 <= MaxBurst /\ Idle \in Nat
  BY LimiterAssumption, PoliciesAssumption
<1>4. /\ 1 * Unit <= MaxBurst * Unit /\ policies[t].burst * Unit <= MaxBurst * Unit
      /\ policies[t].burst * Unit \in Nat
  BY <1>2, <1>3, Longer
<1>5. policies[t].rate * Idle = Idle * policies[t].rate /\ policies[t].rate * Idle \in Nat
  BY <1>2, <1>3
<1>6. policies[t].burst < 1 <=> policies[t].burst = 0
  BY <1>2
<1>7. Cap(policies[t]) \in {Unit, policies[t].burst * Unit}
  BY DEF Cap
<1>8. Cap(policies[t]) \in Nat /\ Cap(policies[t]) <= Full
  BY <1>3, <1>4, <1>7 DEF Full
<1>9. ~Slow(policies[t]) => Cap(policies[t]) <= Idle * policies[t].rate
  BY <1>3, <1>4, <1>5, <1>7 DEF Slow
<1> QED BY <1>2, <1>6, <1>8, <1>9 DEF Cap

\* A log that gets one more entry and keeps the latest LogLength.
LEMMA Logging ==
    ASSUME NEW L \in Seq(Nat), NEW t \in Nat, LogLength \in Nat \ {0}, Len(L) <= LogLength,
           NEW M, M = LastOf(Append(L, t), LogLength)
    PROVE  /\ M \in Seq(Nat)
           /\ Len(M) = IF Len(L) < LogLength THEN Len(L) + 1 ELSE LogLength
           /\ Late(M, 1) = t
           /\ \A j \in 2 .. Len(M) : j - 1 \in 1 .. Len(L) /\ Late(M, j) = Late(L, j - 1)
<1> DEFINE A == Append(L, t)
<1>1. /\ A \in Seq(Nat) /\ Len(A) = Len(L) + 1 /\ Len(L) \in Nat /\ A[Len(L) + 1] = t
      /\ \A k \in 1 .. Len(L) : A[k] = L[k]
  OBVIOUS
<1> HIDE DEF A
<1>2. CASE Len(L) < LogLength
  <2>1. M = A
    BY <1>1, <1>2 DEF LastOf, A
  <2>2. Len(M) = Len(L) + 1 /\ M \in Seq(Nat) /\ M[Len(M)] = t
    BY <1>1, <2>1
  <2>3. ASSUME NEW j \in 2 .. Len(M)
        PROVE  j - 1 \in 1 .. Len(L) /\ Late(M, j) = Late(L, j - 1)
    <3>1. Len(L) - (j - 1) + 1 \in 1 .. Len(L) /\ j - 1 \in 1 .. Len(L)
      BY <1>1, <2>2
    <3>2. Len(M) - j + 1 = Len(L) - (j - 1) + 1
      BY <1>1, <2>2
    <3> QED BY <1>1, <2>1, <3>1, <3>2 DEF Late
  <2>4. Late(M, 1) = t
    BY <1>1, <2>2 DEF Late
  <2> QED BY <1>2, <2>2, <2>3, <2>4
<1>3. CASE Len(L) = LogLength
  <2>1. M = SubSeq(A, 2, Len(A))
    BY <1>1, <1>3 DEF LastOf, A
  <2>2. /\ M \in Seq(Nat) /\ Len(M) = LogLength
        /\ \A k \in 1 .. LogLength : M[k] = A[k + 1]
    BY <1>1, <1>3, <2>1
  <2> QED BY <1>1, <1>3, <2>2 DEF Late
<1> QED BY <1>2, <1>3

\* The latest n entries, in the order of the log.
LEMMA LatestOf ==
    ASSUME NEW L \in Seq(Nat), NEW n \in Nat, n <= Len(L), NEW F, F = LastOf(L, n)
    PROVE  /\ F \in Seq(Nat) /\ Len(F) = n
           /\ \A k \in 1 .. n : F[k] = Late(L, n - k + 1)
<1>1. CASE Len(L) > n
  <2>1. F = SubSeq(L, Len(L) - n + 1, Len(L))
    BY <1>1 DEF LastOf
  <2>2. /\ F \in Seq(Nat) /\ Len(F) = n
        /\ \A k \in 1 .. n : F[k] = L[Len(L) - n + k]
    BY <1>1, <2>1
  <2> QED BY <2>2 DEF Late
<1>2. CASE Len(L) = n
  <2>1. F = L
    BY <1>2 DEF LastOf
  <2> QED BY <1>2, <2>1 DEF Late
<1> QED BY <1>1, <1>2

\* What cannot be more than the n latest is at most n,
LEMMA AtMost ==
    ASSUME NEW S, NEW m \in Nat, NEW n \in Nat, \A k \in S : k \in 1 .. m /\ m - k < n
    PROVE  IsFiniteSet(S) /\ Cardinality(S) <= n
<1>1. S \subseteq (m - n + 1) .. m
  OBVIOUS
<1>2. IsFiniteSet((m - n + 1) .. m) /\ Cardinality((m - n + 1) .. m) = n
  BY FS_Interval, m - n + 1 \in Int
<1> QED BY <1>1, <1>2, FS_Subset

\* and what contains them is at least n.
LEMMA AtLeast ==
    ASSUME NEW m \in Nat, NEW n \in Nat, n <= m, NEW S \in SUBSET (1 .. m),
           \A j \in 1 .. n : m - j + 1 \in S
    PROVE  Cardinality(S) \in Nat /\ n <= Cardinality(S)
<1>1. (m - n + 1) .. m \subseteq S
  <2> SUFFICES ASSUME NEW k \in (m - n + 1) .. m PROVE k \in S
    OBVIOUS
  <2>1. m - k + 1 \in 1 .. n /\ k = m - (m - k + 1) + 1
    OBVIOUS
  <2> QED BY <2>1
<1>2. Cardinality((m - n + 1) .. m) = n
  BY FS_Interval, m - n + 1 \in Int
<1>3. IsFiniteSet(1 .. m)
  BY FS_Interval
<1>4. IsFiniteSet(S)
  BY <1>3, FS_Subset
<1> QED BY <1>1, <1>2, <1>4, FS_Subset, FS_CardinalityType

-----------------------------------------------------------------------------
(* Types, stages and times                                                 *)

\* A worker without a request.
LEMMA IdleOK == IdleReq \in Request /\ Stage(IdleReq) /\ IdleReq.b = None
  BY DEF IdleReq, Request, PC, Stage

\* A bucket as bucketFor makes it.
LEMMA BlankOK == Blank \in BucketRec
  BY LimiterAssumption DEF Blank, BucketRec, Never

\* The parts of the invariant that every action keeps by what it writes.
Basics == Typed /\ Stages /\ Times

\* A request that lets go of its bucket, or that has none.
LEMMA LetGo ==
    ASSUME Typed, Stages, NEW w \in Worker, NEW q \in Request, Stage(q), req' = [req EXCEPT ![w] = q]
    PROVE  req' \in [Worker -> Request] /\ Stages'
  BY DEF Typed, Stages

\* A request that moves on to its next stage.
LEMMA GotoOK ==
    ASSUME Typed, Stages, NEW w \in Worker, req[w].pc # "idle",
           NEW pc \in {"admitted", "failed"}, Goto(w, pc)
    PROVE  /\ req' \in [Worker -> Request] /\ Stages' /\ req'[w].b = None
           /\ \A v \in Worker \ {w} : req'[v] = req[v]
<1>1. PICK q : q = [req[w] EXCEPT !.pc = pc, !.b = None]
  OBVIOUS
<1>2. req' = [req EXCEPT ![w] = q]
  BY <1>1 DEF Goto, Typed
<1>3. req[w] \in Request
  BY DEF Typed
<1>4. q.pc = pc /\ q.b = None /\ q.ip = req[w].ip /\ q \in Request
  BY <1>1, <1>3 DEF Request, PC
<1>5. Stage(q)
  BY <1>4 DEF Stages, Stage
<1> QED BY <1>2, <1>4, <1>5, LetGo DEF Typed

\* A step that leaves the buckets and the map alone.
Calm ==
    /\ now' \in Nat /\ now <= now'
    /\ policies' \in Policies /\ sweep' \in IP \cup {None}
    /\ UNCHANGED <<map, bkt, ideal, detached, failLog, fresh, lastTrip>>
    /\ req' \in [Worker -> Request] /\ Stages'
    /\ \A w \in Worker :
         \/ req'[w].b = None
         \/ req'[w].b = req[w].b /\ req'[w].ip = req[w].ip
         \/ req'[w].ip \in IP /\ req'[w].b = map[req'[w].ip]

\* The address gets a new bucket.
Create(w, i, b) ==
    /\ map[i] = None /\ ~InUse(b)
    /\ map' = [map EXCEPT ![i] = b]
    /\ bkt' = [x \in Bucket |-> CASE x = b    -> [Blank EXCEPT !.lastSeen = now]
                                  [] InUse(x) -> bkt[x]
                                  [] OTHER    -> Blank]
    /\ req' \in [Worker -> Request] /\ Stages'
    /\ req'[w].ip = i /\ req'[w].b = b
    /\ \A v \in Worker \ {w} : req'[v] = req[v]
    /\ UNCHANGED <<now, policies, sweep, ideal, detached, failLog, fresh, lastTrip>>

\* bucketFor finds a bucket or creates one.
LEMMA BucketFor ==
    ASSUME Typed, Stages, NEW w \in Worker, NEW i \in IP,
           NEW pc \in {"allow", "tier", "count"}, bucketFor(w, i, pc),
           UNCHANGED <<now, policies, sweep, ideal, detached, failLog, fresh, lastTrip>>
    PROVE  Calm \/ \E b \in Bucket : Create(w, i, b)
<1>1. CASE /\ map[i] # None
           /\ req' = [req EXCEPT ![w] = [pc |-> pc, ip |-> i, b |-> map[i]]]
           /\ UNCHANGED <<map, bkt>>
  <2>1. PICK q : q = [pc |-> pc, ip |-> i, b |-> map[i]]
    OBVIOUS
  <2>2. q \in Request /\ q.pc = pc /\ q.ip = i /\ q.b = map[i] /\ q.b \in Bucket
    BY <1>1, <2>1 DEF Typed, Request, PC
  <2>3. Stage(q)
    BY <2>2 DEF Stage
  <2>4. req' = [req EXCEPT ![w] = q]
    BY <1>1, <2>1
  <2>5. req' \in [Worker -> Request] /\ Stages'
    BY <2>2, <2>3, <2>4, LetGo
  <2>6. req'[w] = q /\ \A v \in Worker \ {w} : req'[v] = req[v]
    BY <2>4 DEF Typed
  <2> QED BY <1>1, <2>2, <2>5, <2>6 DEF Calm, Typed
<1>2. CASE /\ map[i] = None
           /\ \E b \in Bucket :
                /\ ~InUse(b)
                /\ map' = [map EXCEPT ![i] = b]
                /\ bkt' = [x \in Bucket |-> CASE x = b    -> [Blank EXCEPT !.lastSeen = now]
                                              [] InUse(x) -> bkt[x]
                                              [] OTHER    -> Blank]
                /\ req' = [req EXCEPT ![w] = [pc |-> pc, ip |-> i, b |-> b]]
  <2>1. PICK b \in Bucket :
                /\ ~InUse(b)
                /\ map' = [map EXCEPT ![i] = b]
                /\ bkt' = [x \in Bucket |-> CASE x = b    -> [Blank EXCEPT !.lastSeen = now]
                                              [] InUse(x) -> bkt[x]
                                              [] OTHER    -> Blank]
                /\ req' = [req EXCEPT ![w] = [pc |-> pc, ip |-> i, b |-> b]]
    BY <1>2
  <2>2. PICK q : q = [pc |-> pc, ip |-> i, b |-> b]
    OBVIOUS
  <2>3. q \in Request /\ q.pc = pc /\ q.ip = i /\ q.b = b
    BY <2>2 DEF Request, PC
  <2>4. Stage(q)
    BY <2>3 DEF Stage
  <2>5. req' = [req EXCEPT ![w] = q]
    BY <2>1, <2>2
  <2>6. req' \in [Worker -> Request] /\ Stages'
    BY <2>3, <2>4, <2>5, LetGo
  <2>7. req'[w] = q /\ \A v \in Worker \ {w} : req'[v] = req[v]
    BY <2>5 DEF Typed
  <2> QED BY <1>2, <2>1, <2>3, <2>6, <2>7 DEF Create
<1> QED BY <1>1, <1>2 DEF bucketFor

\* What Refill does to a bucket under a policy that limits.
LEMMA Refilled ==
    ASSUME now \in Nat, policies \in Policies, NEW t \in Tier, ~Unlimited(policies[t]),
           NEW x \in BucketRec, x.lastRefill <= now, NEW r, r = Refill(x, policies[t])
    PROVE  /\ r \in BucketRec /\ r.lastRefill = now /\ r.tier = x.tier
           /\ r.failCount = x.failCount /\ r.windowStart = x.windowStart
           /\ r.lastSeen = x.lastSeen
           /\ r.tokens <= Cap(policies[t])
           /\ x.lastRefill # Never =>
                r.tokens <= x.tokens + (now - x.lastRefill) * policies[t].rate
<1> DEFINE cap == Cap(policies[t])
           gain == (now - x.lastRefill) * policies[t].rate
           sum == IF x.lastRefill = Never THEN cap ELSE x.tokens + gain
<1>1. policies[t].rate \in Nat /\ cap \in Nat
  BY LimitOK
<1>2. x.tokens \in Nat /\ x.lastRefill \in Int /\ now - x.lastRefill \in Nat
  BY DEF BucketRec
<1>3. gain \in Nat
  BY <1>1, <1>2, Longer
<1>4. r = [x EXCEPT !.tokens = IF sum > cap THEN cap ELSE sum, !.lastRefill = now]
  BY DEF Refill, Cap
<1>5. /\ r.tokens = (IF sum > cap THEN cap ELSE sum) /\ r.lastRefill = now /\ r.tier = x.tier
      /\ r.failCount = x.failCount /\ r.windowStart = x.windowStart
      /\ r.lastSeen = x.lastSeen
  BY <1>4 DEF BucketRec
<1>6. sum \in Nat
  BY <1>1, <1>2, <1>3
<1> HIDE DEF cap, gain
<1>7. (IF sum > cap THEN cap ELSE sum) \in Nat
  BY <1>1, <1>6
<1>8. r \in BucketRec
  <2>1. PICK n : n = IF sum > cap THEN cap ELSE sum
    OBVIOUS
  <2>2. n \in Nat
    BY <1>7, <2>1
  <2> HIDE DEF sum
  <2>3. r = [x EXCEPT !.tokens = n, !.lastRefill = now]
    BY <1>4, <2>1
  <2>4. now \in Int
    OBVIOUS
  <2> QED BY <2>2, <2>3, <2>4 DEF BucketRec
<1>9. /\ r.tokens <= cap /\ (x.lastRefill # Never => r.tokens <= x.tokens + gain)
  BY <1>1, <1>2, <1>3, <1>5
<1> QED BY <1>5, <1>8, <1>9 DEF cap, gain

\* The bucket that is never evicted keeps up with it, up to the debt.
LEMMA KeepsUp ==
    ASSUME now \in Nat, policies \in Policies, NEW t \in Tier, ~Unlimited(policies[t]),
           NEW x \in BucketRec, x.lastRefill <= now, NEW r, r = Refill(x, policies[t]),
           NEW y \in IdealRec, y.lastRefill <= now, NEW d \in Nat, y.tokens + Owing(d, y) >= 0,
           IF x.lastRefill # Never
           THEN y.lastRefill = x.lastRefill /\ x.tokens <= y.tokens + Owing(d, y)
           ELSE \/ y.lastRefill = Never
                \/ y.lastRefill < now - Idle
                \/ y.tokens + Owing(d, y) >= Full,
           NEW cost \in Nat, NEW z,
           z = IdealSpend(y, policies[t], cost, x.lastRefill = Never)
    PROVE  z \in IdealRec /\ z.lastRefill = now /\ r.tokens - cost <= z.tokens + Owing(d, z)
<1> DEFINE cap == Cap(policies[t])
           gain == (now - y.lastRefill) * policies[t].rate
           sum == IF y.lastRefill = Never THEN cap ELSE y.tokens + gain
           loan == x.lastRefill = Never /\ Slow(policies[t]) /\ sum < cap
           D == Owing(d, y)
           E == Owing(d, z)
<1>1. policies[t].rate \in Nat /\ cap \in Nat /\ cap <= Full /\ Full \in Nat
  BY LimitOK, FullOK
<1>2. y.tokens \in Int /\ y.lastRefill \in Int /\ now - y.lastRefill \in Nat /\ y.loans \in Nat
  BY DEF IdealRec
<1>3. gain \in Nat
  BY <1>1, <1>2, Longer
<1>4. z = [tokens |-> (IF sum < cap THEN sum ELSE cap) - cost, lastRefill |-> now,
           loans |-> IF loan THEN y.loans + 1 ELSE y.loans]
  BY LimitOK DEF IdealSpend
<1>5. /\ z.tokens = (IF sum < cap THEN sum ELSE cap) - cost /\ z.lastRefill = now
      /\ z.loans = IF loan THEN y.loans + 1 ELSE y.loans
  BY <1>4
<1>6. /\ r.tokens \in Nat /\ r.tokens <= cap
      /\ x.lastRefill # Never => r.tokens <= x.tokens + (now - x.lastRefill) * policies[t].rate
  BY Refilled DEF BucketRec
<1>7. Idle \in Nat /\ (~Slow(policies[t]) => cap <= Idle * policies[t].rate)
  BY LimitOK, LimiterAssumption
<1>8. ASSUME y.lastRefill < now - Idle, ~Slow(policies[t]) PROVE cap <= gain
  <2>1. Idle <= now - y.lastRefill
    BY <1>2, <1>7, <1>8
  <2>2. Idle * policies[t].rate <= gain /\ Idle * policies[t].rate \in Nat
    BY <1>1, <1>2, <1>7, <2>1, Longer
  <2> QED BY <1>1, <1>3, <1>7, <1>8, <2>2
<1>14. D \in Nat /\ (loan => E = D + Full) /\ (~loan => E = D)
  <2>1. D \in Nat /\ Owing(d + 1, y) = D + Full
    BY OwingOK
  <2>2. ~loan => E = D
    BY <1>5 DEF Owing
  <2>3. loan => E = Owing(d + 1, y)
    <3>1. d + (y.loans + 1) = (d + 1) + y.loans
      BY <1>2
    <3> QED BY <1>5, <3>1 DEF Owing
  <2> QED BY <2>1, <2>2, <2>3
<1>9. x.lastRefill # Never => r.tokens <= y.tokens + D + gain /\ y.lastRefill # Never
  <2> SUFFICES ASSUME x.lastRefill # Never
               PROVE  r.tokens <= y.tokens + D + gain /\ y.lastRefill # Never
    OBVIOUS
  <2>1. r.tokens <= x.tokens + gain
    BY <1>6
  <2>2. x.tokens \in Nat /\ x.tokens <= y.tokens + D
    BY DEF BucketRec
  <2> HIDE DEF D
  <2> QED BY <1>2, <1>3, <1>6, <1>14, <2>1, <2>2
<1>15. y.tokens + D >= 0 /\ (x.lastRefill = Never => \/ y.lastRefill = Never
                                                    \/ y.lastRefill < now - Idle
                                                    \/ y.tokens + D >= Full)
  OBVIOUS
<1>16. z \in IdealRec
  <2>1. sum \in Int /\ (IF sum < cap THEN sum ELSE cap) - cost \in Int
    BY <1>1, <1>2, <1>3
  <2>2. (IF loan THEN y.loans + 1 ELSE y.loans) \in Nat
    BY <1>2
  <2> HIDE DEF sum, loan, cap
  <2>3. now \in Int
    OBVIOUS
  <2> QED BY <1>4, <2>1, <2>2, <2>3 DEF IdealRec
<1> HIDE DEF cap, gain, D, E
<1>10. sum \in Int
  BY <1>1, <1>2, <1>3
<1>11. r.tokens <= sum + E
  <2>1. CASE x.lastRefill # Never
    BY <1>2, <1>3, <1>6, <1>9, <1>14, <2>1
  <2>2. CASE loan
    <3>1. sum = y.tokens + gain
      BY <1>1, <2>2
    <3>2. sum + D >= 0
      BY <1>2, <1>3, <1>14, <1>15, <3>1
    <3> HIDE DEF sum, loan
    <3> QED BY <1>1, <1>6, <1>10, <1>14, <2>2, <3>2
  <2>3. CASE x.lastRefill = Never /\ ~loan
    <3>1. CASE y.lastRefill = Never
      BY <1>1, <1>6, <1>14, <2>3, <3>1
    <3>2. CASE y.lastRefill # Never /\ Slow(policies[t])
      <4>1. sum >= cap
        BY <1>1, <1>10, <2>3, <3>2
      <4> HIDE DEF sum, loan
      <4> QED BY <1>1, <1>6, <1>10, <1>14, <2>3, <4>1
    <3>3. CASE y.lastRefill # Never /\ ~Slow(policies[t]) /\ y.lastRefill < now - Idle
      <4>1. cap <= gain /\ sum = y.tokens + gain
        BY <1>8, <3>3
      <4> HIDE DEF sum, loan
      <4> QED BY <1>1, <1>2, <1>3, <1>6, <1>14, <1>15, <2>3, <4>1
    <3>4. CASE y.lastRefill # Never /\ y.tokens + D >= Full
      <4>1. sum = y.tokens + gain
        BY <3>4
      <4> HIDE DEF sum, loan
      <4> QED BY <1>1, <1>2, <1>3, <1>6, <1>14, <2>3, <3>4, <4>1
    <3> QED BY <1>15, <2>3, <3>1, <3>2, <3>3, <3>4
  <2> QED BY <2>1, <2>2, <2>3 DEF loan
<1>17. E \in Nat
  BY <1>1, <1>14
<1> HIDE DEF sum, loan
<1>13. r.tokens - cost <= z.tokens + E
  BY <1>1, <1>5, <1>6, <1>10, <1>11, <1>17
<1> QED BY <1>5, <1>13, <1>16 DEF E

-----------------------------------------------------------------------------
(* The three locked sections: Allow, SetTier, RecordFailure                *)

\* The bucket that w holds becomes x, and w lets go of it.
Touch(w, x) ==
    /\ req[w].b \in Bucket /\ req[w].ip \in IP
    /\ x \in BucketRec /\ Clocked(x) /\ x.lastSeen = now
    /\ bkt' = [bkt EXCEPT ![req[w].b] = x]
    /\ req' \in [Worker -> Request] /\ Stages' /\ req'[w].b = None
    /\ \A v \in Worker \ {w} : req'[v] = req[v]
    /\ UNCHANGED <<now, policies, map, sweep, detached>>

Held(w) == bkt[req[w].b]
PolicyOf(w) == policies[Held(w).tier]

SameTokens(w, x) ==
    x.tokens = Held(w).tokens /\ x.lastRefill = Held(w).lastRefill /\ ideal' = ideal

SameCount(w, x) ==
    /\ x.failCount = Held(w).failCount /\ x.windowStart = Held(w).windowStart
    /\ UNCHANGED <<failLog, fresh, lastTrip>>

\* A request is answered, at a cost if it is admitted.
Draws(w, x) ==
    /\ ~Unlimited(PolicyOf(w))
    /\ x.lastRefill = now
    /\ \E cost \in Nat :
        /\ x.tokens = Refill(Held(w), PolicyOf(w)).tokens - cost
        /\ ideal' = [ideal EXCEPT ![req[w].ip] =
                        IF map[req[w].ip] = req[w].b
                        THEN IdealSpend(ideal[req[w].ip], PolicyOf(w), cost,
                                        Held(w).lastRefill = Never)
                        ELSE ideal[req[w].ip]]

\* Allow touches the bucket in hand: it draws tokens or leaves them alone,
LEMMA AllowTouches ==
    ASSUME Typed, Stages, Times, NEW w \in Worker, Allow(w)
    PROVE  \E x : Touch(w, x) /\ SameCount(w, x) /\ (SameTokens(w, x) \/ Draws(w, x))
<1> DEFINE b == req[w].b
           p == PolicyOf(w)
           full == Refill(bkt[b], p)
<1>1. /\ req[w] \in Request /\ b \in Bucket /\ req[w].ip \in IP /\ req[w].pc = "allow"
      /\ bkt[b] \in BucketRec /\ Clocked(bkt[b]) /\ bkt[b].tier \in Tier
  BY DEF Allow, Typed, Stages, Stage, Times, BucketRec
<1>2. /\ UNCHANGED <<now, policies, map, sweep, detached, failLog, fresh, lastTrip>>
      /\ now \in Nat /\ policies \in Policies
  BY DEF Allow, Typed
<1>3. CASE /\ Unlimited(p)
           /\ bkt' = [bkt EXCEPT ![b].lastSeen = now]
           /\ Goto(w, "admitted")
           /\ UNCHANGED ideal
  <2>1. PICK x : x = [bkt[b] EXCEPT !.lastSeen = now]
    OBVIOUS
  <2>2. /\ x \in BucketRec /\ x.lastSeen = now /\ x.tokens = bkt[b].tokens
        /\ x.lastRefill = bkt[b].lastRefill
        /\ x.failCount = bkt[b].failCount /\ x.windowStart = bkt[b].windowStart
    BY <1>1, <1>2, <2>1 DEF BucketRec
  <2>3. bkt' = [bkt EXCEPT ![b] = x]
    BY <1>3, <2>1
  <2>4. Clocked(x)
    BY <1>1, <1>2, <2>2 DEF Clocked
  <2>5. Touch(w, x)
    BY <1>1, <1>2, <1>3, <2>2, <2>3, <2>4, GotoOK DEF Touch
  <2> QED BY <1>2, <1>3, <2>2, <2>5 DEF SameCount, SameTokens, Held
<1>4. ASSUME ~Unlimited(p), NEW cost \in Nat, cost <= full.tokens,
             NEW x, x = [full EXCEPT !.tokens = @ - cost, !.lastSeen = now],
             bkt' = [bkt EXCEPT ![b] = x],
             NEW pc \in {"admitted", "failed"}, Goto(w, pc),
             ideal' = [ideal EXCEPT ![req[w].ip] =
                          IF map[req[w].ip] = b
                          THEN IdealSpend(@, p, cost, bkt[b].lastRefill = Never) ELSE @]
      PROVE  Touch(w, x) /\ SameCount(w, x) /\ Draws(w, x)
  <2>1. bkt[b].lastRefill <= now
    BY <1>1 DEF Clocked
  <2>2. p = policies[bkt[b].tier]
    BY DEF PolicyOf, Held
  <2>3. /\ full \in BucketRec /\ full.lastRefill = now
        /\ full.failCount = bkt[b].failCount /\ full.windowStart = bkt[b].windowStart
    BY <1>1, <1>2, <1>4, <2>1, <2>2, Refilled
  <2>4. PICK f : f = full
    OBVIOUS
  <2> HIDE DEF full
  <2>5. f.tokens - cost \in Nat
    BY <1>4, <2>3, <2>4 DEF BucketRec
  <2>6. x = [f EXCEPT !.tokens = f.tokens - cost, !.lastSeen = now]
    BY <1>4, <2>3, <2>4 DEF BucketRec
  <2>7. f \in BucketRec
    BY <2>3, <2>4
  <2>8. /\ x.tokens = f.tokens - cost /\ x.lastSeen = now /\ x.lastRefill = f.lastRefill
        /\ x.failCount = f.failCount /\ x.windowStart = f.windowStart
    BY <2>6, <2>7 DEF BucketRec
  <2>9. x \in BucketRec
    BY <1>2, <2>5, <2>6, <2>7 DEF BucketRec
  <2>10. Clocked(x)
    BY <1>1, <1>2, <2>3, <2>4, <2>8 DEF Clocked
  <2>11. Touch(w, x)
    BY <1>1, <1>2, <1>4, <2>8, <2>9, <2>10, GotoOK DEF Touch
  <2>12. SameCount(w, x)
    BY <1>2, <2>3, <2>4, <2>8 DEF SameCount, Held
  <2>13. Draws(w, x)
    <3>1. x.tokens = Refill(Held(w), PolicyOf(w)).tokens - cost /\ x.lastRefill = now
      BY <2>3, <2>4, <2>8 DEF full, Held
    <3> QED BY <1>4, <3>1 DEF Draws, Held
  <2> QED BY <2>11, <2>12, <2>13
<1>5. ~Unlimited(p) => full \in BucketRec /\ full.tokens \in Nat
  <2>1. bkt[b].lastRefill <= now /\ p = policies[bkt[b].tier]
    BY <1>1 DEF Clocked, PolicyOf, Held
  <2> QED BY <1>1, <1>2, <2>1, Refilled DEF BucketRec
<1>6. CASE /\ ~Unlimited(p) /\ Enough(full)
           /\ bkt' = [bkt EXCEPT ![b] = [Spend(full) EXCEPT !.lastSeen = now]]
           /\ ideal' = [ideal EXCEPT ![req[w].ip] =
                           IF map[req[w].ip] = b
                          THEN IdealSpend(@, p, Unit, bkt[b].lastRefill = Never) ELSE @]
           /\ Goto(w, "admitted")
  <2>1. PICK x : x = [full EXCEPT !.tokens = @ - Unit, !.lastSeen = now]
    OBVIOUS
  <2>2. x = [Spend(full) EXCEPT !.lastSeen = now]
    BY <2>1 DEF Spend
  <2>3. Unit \in Nat /\ Unit <= full.tokens
    BY <1>5, <1>6, LimiterAssumption DEF Enough
  <2>4. Touch(w, x) /\ SameCount(w, x) /\ Draws(w, x)
    BY <1>4, <1>6, <2>1, <2>2, <2>3
  <2> QED BY <2>4
<1>7. CASE /\ ~Unlimited(p) /\ ~Enough(full)
           /\ bkt' = [bkt EXCEPT ![b] = [full EXCEPT !.lastSeen = now]]
           /\ ideal' = [ideal EXCEPT ![req[w].ip] =
                           IF map[req[w].ip] = b
                          THEN IdealSpend(@, p, 0, bkt[b].lastRefill = Never) ELSE @]
           /\ Goto(w, "failed")
  <2>1. PICK x : x = [full EXCEPT !.tokens = @ - 0, !.lastSeen = now]
    OBVIOUS
  <2>2. x = [full EXCEPT !.lastSeen = now]
    <3>1. PICK f : f = full
      OBVIOUS
    <3>2. f \in BucketRec
      BY <1>5, <1>7, <3>1
    <3> HIDE DEF full
    <3>3. f.tokens - 0 = f.tokens
      BY <3>2 DEF BucketRec
    <3>4. x = [f EXCEPT !.tokens = f.tokens, !.lastSeen = now]
      BY <2>1, <3>1, <3>3
    <3>5. x = [f EXCEPT !.lastSeen = now]
      BY <3>2, <3>4 DEF BucketRec
    <3> QED BY <3>1, <3>5
  <2>3. 0 <= full.tokens
    BY <1>5, <1>7
  <2>4. Touch(w, x) /\ SameCount(w, x) /\ Draws(w, x)
    BY <1>4, <1>7, <2>1, <2>2, <2>3
  <2> QED BY <2>4
<1> QED BY <1>3, <1>6, <1>7 DEF Allow, PolicyOf, Held

\* SetTier changes neither tokens nor counts,
LEMMA SetTierTouches ==
    ASSUME Typed, Stages, Times, NEW w \in Worker, NEW t \in Tier, SetTier(w, t)
    PROVE  \E x : Touch(w, x) /\ SameCount(w, x) /\ SameTokens(w, x)
<1> DEFINE b == req[w].b
<1>1. /\ b \in Bucket /\ req[w].ip \in IP
      /\ bkt[b] \in BucketRec /\ Clocked(bkt[b])
  BY DEF SetTier, Typed, Stages, Stage, Times
<1>2. /\ UNCHANGED <<now, policies, map, sweep, ideal, detached, failLog, fresh, lastTrip>>
      /\ now \in Nat /\ req' = [req EXCEPT ![w] = IdleReq]
  BY DEF SetTier, Typed
<1>3. PICK x : x = [bkt[b] EXCEPT !.tier = t, !.lastSeen = now]
  OBVIOUS
<1>4. /\ x \in BucketRec /\ x.lastSeen = now /\ x.tokens = bkt[b].tokens
      /\ x.lastRefill = bkt[b].lastRefill
      /\ x.failCount = bkt[b].failCount /\ x.windowStart = bkt[b].windowStart
  BY <1>1, <1>2, <1>3 DEF BucketRec
<1>5. bkt' = [bkt EXCEPT ![b] = x]
  BY <1>3 DEF SetTier
<1>6. Clocked(x)
  BY <1>1, <1>2, <1>4 DEF Clocked
<1>7. req' \in [Worker -> Request] /\ Stages'
  BY <1>2, LetGo, IdleOK
<1>8. req'[w].b = None /\ \A v \in Worker \ {w} : req'[v] = req[v]
  BY <1>2, IdleOK DEF Typed
<1>9. Touch(w, x)
  BY <1>1, <1>2, <1>4, <1>5, <1>6, <1>7, <1>8 DEF Touch
<1> QED BY <1>2, <1>4, <1>9 DEF SameCount, SameTokens, Held

\* A failure is counted; at the threshold the address is banned.
Fails(w, x) ==
    LET win == Window(Held(w), PolicyOf(w))
    IN  /\ PolicyOf(w).threshold > 0
        /\ \/ /\ win.failCount < PolicyOf(w).threshold
              /\ x.failCount = win.failCount /\ x.windowStart = win.windowStart
              /\ Remember(req[w].ip, fresh[req[w].ip] + 1)
              /\ UNCHANGED lastTrip
           \/ /\ win.failCount >= PolicyOf(w).threshold
              /\ x.failCount = 0 /\ x.windowStart = Never
              /\ Remember(req[w].ip, 0)
              /\ lastTrip' = [failures |-> Within(failLog'[req[w].ip], PolicyOf(w).window),
                              threshold |-> PolicyOf(w).threshold]

\* The window of a bucket is new or goes on.
LEMMA WindowOK ==
    ASSUME now \in Nat, policies \in Policies, NEW y \in BucketRec, Clocked(y),
           y.tier \in Tier, NEW x, x = Window(y, policies[y.tier])
    PROVE  /\ x \in BucketRec /\ Clocked(x)
           /\ x.tokens = y.tokens /\ x.lastRefill = y.lastRefill
           /\ \/ /\ \/ y.windowStart = Never
                    \/ /\ policies[y.tier].window > 0
                       /\ now - y.windowStart > policies[y.tier].window
                 /\ x.windowStart = now /\ x.failCount = 1
              \/ /\ y.windowStart # Never
                 /\ policies[y.tier].window = 0 \/ now - y.windowStart <= policies[y.tier].window
                 /\ x.windowStart = y.windowStart /\ x.failCount = y.failCount + 1
<1>1. policies[y.tier] \in Policy
  BY LimiterAssumption
<1>2. policies[y.tier].window \in Nat /\ y.failCount \in Nat /\ y.windowStart \in Int
  BY <1>1 DEF Policy, BucketRec
<1>3. CASE y.windowStart = Never
              \/ (policies[y.tier].window > 0 /\ now - y.windowStart > policies[y.tier].window)
  <2>1. x = [y EXCEPT !.windowStart = now, !.failCount = 1]
    BY <1>3 DEF Window
  <2>2. PICK n, one : n = now /\ one = 1
    OBVIOUS
  <2>3. n \in Int /\ one \in Nat /\ x = [y EXCEPT !.windowStart = n, !.failCount = one]
    BY <2>1, <2>2
  <2>4. x \in BucketRec
    BY <2>3 DEF BucketRec
  <2>5. /\ x.windowStart = now /\ x.failCount = 1 /\ x.tokens = y.tokens
        /\ x.lastRefill = y.lastRefill /\ x.lastSeen = y.lastSeen
    BY <2>1 DEF BucketRec
  <2>6. Clocked(x)
    BY <2>5 DEF Clocked
  <2> QED BY <1>3, <2>4, <2>5, <2>6
<1>4. CASE ~(y.windowStart = Never
              \/ (policies[y.tier].window > 0 /\ now - y.windowStart > policies[y.tier].window))
  <2>1. x = [y EXCEPT !.failCount = y.failCount + 1]
    BY <1>4 DEF Window, BucketRec
  <2>2. y.failCount + 1 \in Nat
    BY <1>2
  <2>3. x \in BucketRec
    BY <2>1, <2>2 DEF BucketRec
  <2>4. /\ x.windowStart = y.windowStart /\ x.failCount = y.failCount + 1 /\ x.tokens = y.tokens
        /\ x.lastRefill = y.lastRefill /\ x.lastSeen = y.lastSeen
    BY <2>1 DEF BucketRec
  <2>5. policies[y.tier].window = 0 \/ now - y.windowStart <= policies[y.tier].window
    BY <1>2, <1>4
  <2> QED BY <1>4, <2>3, <2>4, <2>5 DEF Clocked
<1> QED BY <1>3, <1>4

\* and RecordFailure counts the failure or finds nothing enabled.
LEMMA FailureTouches ==
    ASSUME Typed, Stages, Times, NEW w \in Worker, RecordFailure(w)
    PROVE  \E x : Touch(w, x) /\ SameTokens(w, x) /\ (SameCount(w, x) \/ Fails(w, x))
<1> DEFINE b == req[w].b
           p == PolicyOf(w)
<1>1. /\ b \in Bucket /\ req[w].ip \in IP
      /\ bkt[b] \in BucketRec /\ Clocked(bkt[b]) /\ bkt[b].tier \in Tier
  BY DEF RecordFailure, Typed, Stages, Stage, Times, BucketRec
<1>2. /\ UNCHANGED <<now, policies, map, sweep, ideal, detached>>
      /\ now \in Nat /\ policies \in Policies /\ req' = [req EXCEPT ![w] = IdleReq]
  BY DEF RecordFailure, Typed
<1>3. req' \in [Worker -> Request] /\ Stages'
  BY <1>2, LetGo, IdleOK
<1>4. req'[w].b = None /\ \A v \in Worker \ {w} : req'[v] = req[v]
  BY <1>2, IdleOK DEF Typed
<1>5. ASSUME NEW x \in BucketRec, Clocked(x), x.lastSeen = now, bkt' = [bkt EXCEPT ![b] = x]
      PROVE  Touch(w, x)
  BY <1>1, <1>2, <1>3, <1>4, <1>5 DEF Touch
<1>6. PICK win : win = Window(bkt[b], p)
  OBVIOUS
<1>7. /\ win \in BucketRec /\ Clocked(win)
      /\ win.tokens = bkt[b].tokens /\ win.lastRefill = bkt[b].lastRefill
  <2>1. p = policies[bkt[b].tier]
    BY DEF PolicyOf, Held
  <2> QED BY <1>1, <1>2, <1>6, <2>1, WindowOK
<1>8. PICK x : x = [win EXCEPT !.lastSeen = now]
  OBVIOUS
<1>9. /\ x \in BucketRec /\ x.lastSeen = now /\ x.tokens = win.tokens
      /\ x.lastRefill = win.lastRefill
      /\ x.failCount = win.failCount /\ x.windowStart = win.windowStart
  BY <1>2, <1>7, <1>8 DEF BucketRec
<1>10. Clocked(x)
  BY <1>2, <1>7, <1>9 DEF Clocked
<1>11. CASE /\ bkt' = [bkt EXCEPT ![b].lastSeen = now]
            /\ UNCHANGED <<failLog, fresh, lastTrip>>
  <2>1. PICK z : z = [bkt[b] EXCEPT !.lastSeen = now]
    OBVIOUS
  <2>2. /\ z \in BucketRec /\ z.lastSeen = now /\ z.tokens = bkt[b].tokens
        /\ z.lastRefill = bkt[b].lastRefill
        /\ z.failCount = bkt[b].failCount /\ z.windowStart = bkt[b].windowStart
    BY <1>1, <1>2, <2>1 DEF BucketRec
  <2>3. bkt' = [bkt EXCEPT ![b] = z]
    BY <1>11, <2>1
  <2>4. Clocked(z)
    BY <1>1, <1>2, <2>2 DEF Clocked
  <2>5. Touch(w, z)
    BY <1>5, <2>2, <2>3, <2>4
  <2> QED BY <1>2, <1>11, <2>2, <2>5 DEF SameCount, SameTokens, Held
<1>12. CASE /\ p.banEnabled /\ p.threshold > 0 /\ x.failCount < p.threshold
            /\ bkt' = [bkt EXCEPT ![b] = x]
            /\ Remember(req[w].ip, fresh[req[w].ip] + 1)
            /\ UNCHANGED lastTrip
  <2>1. Touch(w, x) /\ SameTokens(w, x)
    BY <1>2, <1>5, <1>7, <1>9, <1>10, <1>12 DEF SameTokens, Held
  <2>2. Fails(w, x)
    BY <1>6, <1>9, <1>12 DEF Fails, Held
  <2> QED BY <2>1, <2>2
<1>13. CASE /\ p.banEnabled /\ p.threshold > 0 /\ x.failCount >= p.threshold
            /\ bkt' = [bkt EXCEPT ![b] = [x EXCEPT !.failCount = 0, !.windowStart = Never]]
            /\ Remember(req[w].ip, 0)
            /\ lastTrip' = [failures |-> Within(failLog'[req[w].ip], p.window),
                            threshold |-> p.threshold]
  <2>1. PICK z : z = [x EXCEPT !.failCount = 0, !.windowStart = Never]
    OBVIOUS
  <2>2. Never \in Int /\ Never <= now
    BY <1>2 DEF Never
  <2>3. /\ z \in BucketRec /\ z.lastSeen = now /\ z.tokens = x.tokens
        /\ z.lastRefill = x.lastRefill /\ z.failCount = 0 /\ z.windowStart = Never
    BY <1>9, <2>1, <2>2 DEF BucketRec
  <2>4. Clocked(z)
    BY <1>10, <2>2, <2>3, <1>9 DEF Clocked
  <2>5. Touch(w, z) /\ SameTokens(w, z)
    BY <1>2, <1>5, <1>7, <1>9, <1>13, <2>1, <2>3, <2>4 DEF SameTokens, Held
  <2>6. Fails(w, z)
    BY <1>6, <1>9, <1>13, <2>3 DEF Fails, Held
  <2> QED BY <2>5, <2>6
<1> QED BY <1>6, <1>8, <1>11, <1>12, <1>13 DEF RecordFailure, PolicyOf, Held

-----------------------------------------------------------------------------
(* Who refers to which bucket                                              *)

\* No address gets hold of another bucket.
Shrinks == \A b \in Bucket, i \in IP : Of(b, i)' => Of(b, i)

\* No step but the creation of a bucket makes a reference to one:
\* not the steps that touch no bucket,
LEMMA CalmShrinks == ASSUME Typed, Calm PROVE Shrinks
<1> SUFFICES ASSUME NEW b \in Bucket, NEW i \in IP, Of(b, i)' PROVE Of(b, i)
  BY DEF Shrinks
<1>1. CASE map'[i] = b
  BY <1>1 DEF Calm, Of
<1>2. CASE \E w \in Worker : req'[w].b = b /\ req'[w].ip = i
  <2>1. PICK w \in Worker : req'[w].b = b /\ req'[w].ip = i
    BY <1>2
  <2>2. b # None
    BY LimiterAssumption
  <2>3. (req[w].b = b /\ req[w].ip = i) \/ b = map[i]
    BY <2>1, <2>2 DEF Calm
  <2> QED BY <2>3 DEF Of
<1> QED BY <1>1, <1>2 DEF Of

\* not those that touch the one in hand,
LEMMA TouchShrinks == ASSUME Typed, NEW w \in Worker, NEW x, Touch(w, x) PROVE Shrinks
<1> SUFFICES ASSUME NEW b \in Bucket, NEW i \in IP, Of(b, i)' PROVE Of(b, i)
  BY DEF Shrinks
<1>1. CASE map'[i] = b
  BY <1>1 DEF Touch, Of
<1>2. CASE \E v \in Worker : req'[v].b = b /\ req'[v].ip = i
  <2>1. PICK v \in Worker : req'[v].b = b /\ req'[v].ip = i
    BY <1>2
  <2>2. b # None
    BY LimiterAssumption
  <2>3. v # w
    BY <2>1, <2>2 DEF Touch
  <2> QED BY <2>1, <2>3 DEF Of, Touch
<1> QED BY <1>1, <1>2 DEF Of

\* not an eviction.
LEMMA SweepShrinks == ASSUME Typed, SweepDelete PROVE Shrinks
<1> SUFFICES ASSUME NEW b \in Bucket, NEW i \in IP, Of(b, i)' PROVE Of(b, i)
  BY DEF Shrinks
<1>1. b # None
  BY LimiterAssumption
<1>2. map'[i] = b => map[i] = b
  BY <1>1 DEF SweepDelete, Typed
<1> QED BY <1>2 DEF Of, SweepDelete

\* So they leave every bucket with the one address it had,
LEMMA ShrinksOwned == ASSUME Owned, Shrinks PROVE Owned'
  BY DEF Owned, Shrinks

\* A new bucket belongs to the address it was made for.
LEMMA CreateRefs ==
    ASSUME Typed, NEW w \in Worker, NEW i \in IP, NEW b \in Bucket, Create(w, i, b)
    PROVE  /\ \A j \in IP : Of(b, j)' => j = i
           /\ \A c \in Bucket \ {b}, j \in IP : Of(c, j)' => Of(c, j) /\ bkt'[c] = bkt[c]
<1>1. ASSUME NEW j \in IP, Of(b, j)' PROVE j = i
  <2>1. \A k \in IP : map[k] # b
    BY DEF Create, InUse
  <2>2. \A v \in Worker : req[v].b # b
    BY DEF Create, InUse
  <2>3. CASE map'[j] = b
    BY <2>1, <2>3 DEF Create, Typed
  <2>4. CASE \E v \in Worker : req'[v].b = b /\ req'[v].ip = j
    <3>1. PICK v \in Worker : req'[v].b = b /\ req'[v].ip = j
      BY <2>4
    <3>2. v = w
      BY <2>2, <3>1 DEF Create
    <3> QED BY <3>1, <3>2 DEF Create
  <2> QED BY <1>1, <2>3, <2>4 DEF Of
<1>2. ASSUME NEW c \in Bucket \ {b}, NEW j \in IP, Of(c, j)'
      PROVE  Of(c, j) /\ bkt'[c] = bkt[c]
  <2>1. Of(c, j)
    <3>1. CASE map'[j] = c
      BY <3>1 DEF Create, Typed, Of
    <3>2. CASE \E v \in Worker : req'[v].b = c /\ req'[v].ip = j
      <4>1. PICK v \in Worker : req'[v].b = c /\ req'[v].ip = j
        BY <3>2
      <4>2. v # w
        BY <4>1 DEF Create
      <4> QED BY <4>1, <4>2 DEF Create, Of
    <3> QED BY <1>2, <3>1, <3>2 DEF Of
  <2>2. InUse(c)
    BY <2>1 DEF InUse, Of
  <2> QED BY <2>1, <2>2 DEF Create
<1> QED BY <1>1, <1>2

\* The new bucket itself.
LEMMA CreateNew ==
    ASSUME Typed, NEW w \in Worker, NEW i \in IP, NEW b \in Bucket, Create(w, i, b)
    PROVE  /\ bkt'[b] \in BucketRec /\ bkt'[b].lastSeen = now /\ bkt'[b].lastRefill = Never
           /\ bkt'[b].failCount = 0 /\ bkt'[b].windowStart = Never
<1>1. PICK x : x = [Blank EXCEPT !.lastSeen = now]
  OBVIOUS
<1>2. bkt'[b] = x
  BY <1>1 DEF Create
<1>3. now \in Nat
  BY DEF Typed
<1>4. x \in BucketRec
  BY <1>1, <1>3, BlankOK DEF BucketRec
<1>5. /\ x.lastSeen = now /\ x.lastRefill = Blank.lastRefill
      /\ x.failCount = Blank.failCount /\ x.windowStart = Blank.windowStart
  BY <1>1, BlankOK DEF BucketRec
<1>6. Blank.lastRefill = Never /\ Blank.failCount = 0 /\ Blank.windowStart = Never
  BY DEF Blank
<1> QED BY <1>2, <1>4, <1>5, <1>6

\* and a new one has the address it was created for.
LEMMA CreateOwned ==
    ASSUME Typed, Owned, NEW w \in Worker, NEW i \in IP, NEW b \in Bucket, Create(w, i, b)
    PROVE  Owned'
<1> SUFFICES ASSUME NEW c \in Bucket, NEW j \in IP, NEW k \in IP, Of(c, j)', Of(c, k)'
             PROVE  j = k
  BY DEF Owned
<1>1. CASE c = b
  BY <1>1, CreateRefs
<1>2. CASE c # b
  BY <1>2, CreateRefs DEF Owned
<1> QED BY <1>1, <1>2

-----------------------------------------------------------------------------
(* Types, stages and times: the steps                                      *)

\* A step that touches no bucket,
LEMMA CalmBasics == ASSUME Basics, Calm PROVE Basics'
<1>1. Typed'
  BY DEF Basics, Typed, Calm
<1>2. Times'
  <2>1. \A b \in Bucket :
            bkt[b].lastRefill \in Int /\ bkt[b].windowStart \in Int /\ bkt[b].lastSeen \in Int
    BY DEF Basics, Typed, BucketRec
  <2>2. \A i \in IP : ideal[i].lastRefill \in Int
    BY DEF Basics, Typed, IdealRec
  <2>3. now \in Nat /\ now' \in Nat /\ now <= now' /\ bkt' = bkt /\ ideal' = ideal
    BY DEF Basics, Typed, Calm
  <2> QED BY <2>1, <2>2, <2>3 DEF Basics, Times, Clocked
<1> QED BY <1>1, <1>2 DEF Basics, Calm

\* the creation of a bucket,
LEMMA CreateBasics ==
    ASSUME Basics, NEW w \in Worker, NEW i \in IP, NEW b \in Bucket, Create(w, i, b)
    PROVE  Basics'
<1>1. \A c \in Bucket : bkt'[c] = bkt[c] \/ bkt'[c] = Blank \/ c = b
  BY DEF Create
<1>2. bkt'[b] \in BucketRec /\ Clocked(bkt[b])'
  <2>1. now \in Nat /\ now' = now
    BY DEF Basics, Typed, Create
  <2>2. /\ bkt'[b] \in BucketRec /\ bkt'[b].lastSeen = now /\ bkt'[b].lastRefill = Never
        /\ bkt'[b].windowStart = Never
    BY CreateNew DEF Basics
  <2> QED BY <2>1, <2>2 DEF Clocked, Never
<1>3. Clocked(Blank) /\ now' = now
  <2>1. now \in Nat /\ now' = now
    BY DEF Basics, Typed, Create
  <2>2. Blank.lastRefill = Never /\ Blank.windowStart = Never /\ Blank.lastSeen = 0
    BY DEF Blank
  <2> QED BY <2>1, <2>2 DEF Clocked, Never
<1>4. \A c \in Bucket : bkt'[c] \in BucketRec /\ Clocked(bkt[c])'
  <2> TAKE c \in Bucket
  <2>1. CASE c = b
    BY <1>2, <2>1
  <2>2. CASE bkt'[c] = bkt[c]
    BY <1>3, <2>2 DEF Basics, Typed, Times, Clocked
  <2>3. CASE bkt'[c] = Blank
    BY <1>3, <2>3, BlankOK DEF Clocked
  <2> QED BY <1>1, <2>1, <2>2, <2>3
<1>5. bkt' = [c \in Bucket |-> bkt'[c]]
  BY DEF Create
<1>6. bkt' \in [Bucket -> BucketRec]
  BY <1>4, <1>5
<1>7. Typed'
  BY <1>6 DEF Basics, Typed, Create
<1>8. Times'
  BY <1>3, <1>4 DEF Basics, Times, Create
<1> QED BY <1>7, <1>8 DEF Basics, Create

\* a touch,
LEMMA TouchBasics ==
    ASSUME Basics, NEW w \in Worker, NEW x, Touch(w, x),
           ideal' \in [IP -> IdealRec], \A i \in IP : ideal'[i].lastRefill <= now,
           failLog' \in [IP -> Seq(Nat)], fresh' \in [IP -> Nat]
    PROVE  Basics'
<1>1. Typed'
  BY DEF Basics, Typed, Touch
<1>2. now' = now
  BY DEF Touch
<1>3. \A c \in Bucket : Clocked(bkt[c])'
  <2> TAKE c \in Bucket
  <2>1. bkt'[c] = x \/ bkt'[c] = bkt[c]
    BY DEF Basics, Typed, Touch
  <2>2. Clocked(x) /\ Clocked(bkt[c])
    BY DEF Touch, Basics, Times
  <2> QED BY <1>2, <2>1, <2>2 DEF Clocked
<1>4. Times'
  BY <1>2, <1>3 DEF Times
<1> QED BY <1>1, <1>4 DEF Basics, Touch

\* an eviction.
LEMMA SweepBasics == ASSUME Basics, SweepDelete PROVE Basics'
<1>1. sweep \in IP
  BY DEF Basics, Typed, SweepDelete
<1>2. map' \in [IP -> Bucket \cup {None}] /\ sweep' \in IP \cup {None}
  BY DEF Basics, Typed, SweepDelete
<1>3. detached' \in [IP -> Nat]
  BY <1>1 DEF Basics, Typed, SweepDelete
<1>4. Typed'
  BY <1>2, <1>3 DEF Basics, Typed, SweepDelete
<1> QED BY <1>4 DEF Basics, Stages, Times, Clocked, SweepDelete

-----------------------------------------------------------------------------
(* RateBound                                                               *)

\* The address whose bucket w holds is the only one that can have it.
LEMMA HeldByOne ==
    ASSUME Basics, Owned, NEW w \in Worker, NEW x, Touch(w, x), NEW i \in IP
    PROVE  /\ map[i] = req[w].b => i = req[w].ip
           /\ Of(req[w].b, req[w].ip)
<1>1. Of(req[w].b, req[w].ip)
  BY DEF Of
<1>2. map[i] = req[w].b => Of(req[w].b, i)
  BY DEF Of
<1> QED BY <1>1, <1>2 DEF Owned, Touch

\* The bucket in the map of an address under a touch of some bucket.
LEMMA TouchMap ==
    ASSUME Basics, Owned, NEW w \in Worker, NEW x, Touch(w, x), NEW i \in IP
    PROVE  /\ map'[i] = map[i] /\ detached'[i] = detached[i] /\ now' = now
           /\ map[i] = req[w].b => bkt'[map[i]] = x /\ i = req[w].ip
           /\ map[i] # None /\ map[i] # req[w].b => bkt'[map[i]] = bkt[map[i]]
<1>1. map[i] \in Bucket \cup {None} /\ bkt \in [Bucket -> BucketRec]
  BY DEF Basics, Typed
<1>2. /\ bkt' = [bkt EXCEPT ![req[w].b] = x] /\ req[w].b \in Bucket
      /\ map' = map /\ detached' = detached /\ now' = now
  BY DEF Touch
<1>3. map[i] = req[w].b => i = req[w].ip
  BY HeldByOne
<1> QED BY <1>1, <1>2, <1>3

\* A step that touches no bucket.
LEMMA CalmPaced == ASSUME Basics, NEW i \in IP, Paced(i), Calm PROVE Paced(i)'
<1>1. /\ map' = map /\ bkt' = bkt /\ ideal' = ideal /\ detached' = detached
      /\ now \in Nat /\ now' \in Nat /\ now <= now'
  BY DEF Basics, Typed, Calm
<1>2. ideal[i].lastRefill \in Int /\ Idle \in Nat
  BY LimiterAssumption DEF Basics, Typed, IdealRec
<1>3. ideal[i].lastRefill < now - Idle => ideal[i].lastRefill < now' - Idle
  BY <1>1, <1>2
<1> QED BY <1>1, <1>3 DEF Paced, Debt, Owing, Drawn

\* The bucket is new, and the other one was full or has been idle.
LEMMA CreatePaced ==
    ASSUME Basics, NEW j \in IP, Paced(j),
           NEW w \in Worker, NEW i \in IP, NEW b \in Bucket, Create(w, i, b)
    PROVE  Paced(j)'
<1>1. /\ ideal' = ideal /\ detached' = detached /\ now' = now /\ None \notin Bucket
      /\ now \in Nat /\ ideal[j].lastRefill <= now
  BY LimiterAssumption DEF Basics, Typed, Times, Create
<1>2. CASE j = i
  <2>1. map[j] = None /\ map'[j] = b
    BY <1>2 DEF Create, Basics, Typed
  <2>2. bkt'[b].lastSeen = now /\ bkt'[b].lastRefill = Never
    BY CreateNew DEF Basics
  <2>3. ~Drawn(j) /\ ~Drawn(j)'
    BY <2>1, <2>2 DEF Drawn
  <2> QED BY <1>1, <2>1, <2>2, <2>3 DEF Paced, Debt, Owing
<1>3. CASE j # i
  <2>1. map'[j] = map[j] /\ map[j] \in Bucket \cup {None}
    BY <1>3 DEF Create, Basics, Typed
  <2>2. CASE map[j] = None
    BY <1>1, <2>1, <2>2 DEF Paced, Debt, Owing, Drawn
  <2>3. CASE map[j] # None
    <3>1. map[j] # b
      BY <2>3 DEF Create, InUse
    <3>2. Of(map[j], j)'
      BY <2>1 DEF Of
    <3>3. bkt'[map[j]] = bkt[map[j]]
      BY <2>1, <2>3, <3>1, <3>2, CreateRefs DEF Basics
    <3> QED BY <1>1, <2>1, <3>3 DEF Paced, Debt, Owing, Drawn
  <2> QED BY <2>2, <2>3
<1> QED BY <1>2, <1>3

\* A touch that leaves the tokens alone.
LEMMA SamePaced ==
    ASSUME Basics, Owned, NEW i \in IP, Paced(i), NEW w \in Worker, NEW x, Touch(w, x),
           SameTokens(w, x)
    PROVE  Paced(i)'
<1>1. /\ map'[i] = map[i] /\ detached'[i] = detached[i] /\ now' = now /\ ideal' = ideal
      /\ now \in Nat /\ ideal[i].lastRefill <= now
  BY TouchMap DEF SameTokens, Basics, Times, Typed
<1>2. CASE map[i] = req[w].b
  <2>1. bkt'[map[i]] = x
    BY <1>2, TouchMap
  <2>2. /\ x.tokens = bkt[map[i]].tokens /\ x.lastRefill = bkt[map[i]].lastRefill
        /\ x.lastSeen = now
    BY <1>2 DEF SameTokens, Held, Touch
  <2> QED BY <1>1, <2>1, <2>2 DEF Paced, Debt, Owing, Drawn
<1>3. CASE map[i] # req[w].b
  <2>1. map[i] # None => bkt'[map[i]] = bkt[map[i]]
    BY <1>3, TouchMap
  <2> QED BY <1>1, <2>1 DEF Paced, Debt, Owing, Drawn
<1> QED BY <1>2, <1>3

\* A request that is answered.
LEMMA DrawsPaced ==
    ASSUME Basics, Owned, NEW w \in Worker, NEW x, Touch(w, x), Draws(w, x), 
           \A i \in IP : Paced(i)
    PROVE  /\ ideal' \in [IP -> IdealRec] /\ \A i \in IP : ideal'[i].lastRefill <= now
           /\ \A i \in IP : Paced(i)'
<1> DEFINE a == req[w].ip
           b == req[w].b
           p == PolicyOf(w)
<1>1. PICK cost \in Nat :
        /\ x.tokens = Refill(Held(w), p).tokens - cost
        /\ ideal' = [ideal EXCEPT ![a] = IF map[a] = b THEN IdealSpend(ideal[a], p, cost, Held(w).lastRefill = Never)
                                        ELSE ideal[a]]
  BY DEF Draws
<1>2. /\ a \in IP /\ b \in Bucket /\ x \in BucketRec /\ x.lastSeen = now /\ x.lastRefill = now
      /\ ideal \in [IP -> IdealRec] /\ now \in Nat /\ policies \in Policies
      /\ bkt[b] \in BucketRec /\ bkt[b].lastRefill <= now /\ bkt[b].tier \in Tier
      /\ None \notin Bucket
  BY LimiterAssumption DEF Touch, Basics, Typed, Times, Clocked, BucketRec, Draws
<1>3. CASE map[a] # b
  <2>1. ideal' = ideal
    BY <1>1, <1>2, <1>3
  <2>2. ASSUME NEW i \in IP PROVE Paced(i)'
    <3>1. map[i] # b
      BY <1>3, HeldByOne
    <3>2. /\ map'[i] = map[i] /\ detached'[i] = detached[i] /\ now' = now
          /\ map[i] # None => bkt'[map[i]] = bkt[map[i]]
      BY <3>1, TouchMap
    <3>3. Paced(i)
      OBVIOUS
    <3> QED BY <2>1, <3>2, <3>3 DEF Paced, Debt, Owing, Drawn
  <2> QED BY <1>2, <2>1, <2>2 DEF Basics, Times
<1>4. CASE map[a] = b
  <2>1. PICK z : z = IdealSpend(ideal[a], p, cost, bkt[b].lastRefill = Never)
    OBVIOUS
  <2>2. PICK r : r = Refill(bkt[b], p)
    OBVIOUS
  <2>3. PICK d : d = detached[a]
    OBVIOUS
  <2>4. d \in Nat
    BY <1>2, <2>3 DEF Basics, Typed
  <2>5. /\ ideal[a] \in IdealRec /\ ideal[a].lastRefill <= now /\ ideal[a].tokens + Owing(d, ideal[a]) >= 0
        /\ IF bkt[b].lastRefill # Never
           THEN ideal[a].lastRefill = bkt[b].lastRefill /\ bkt[b].tokens <= ideal[a].tokens + Owing(d, ideal[a])
           ELSE \/ ideal[a].lastRefill = Never
                \/ ideal[a].lastRefill < now - Idle
                \/ ideal[a].tokens + Owing(d, ideal[a]) >= Full
    <3>1. Paced(a)
      BY <1>2
    <3> QED BY <1>2, <1>4, <2>3, <3>1 DEF Paced, Debt, Owing, Drawn, Basics, Times
  <2>6. ~Unlimited(p) /\ p = policies[bkt[b].tier]
    BY DEF Draws, PolicyOf, Held
  <2>7. z \in IdealRec /\ z.lastRefill = now /\ r.tokens - cost <= z.tokens + Owing(d, z)
    <3>1. PICK y : y = ideal[a]
      OBVIOUS
    <3>2. PICK h : h = bkt[b]
      OBVIOUS
    <3>3. PICK t : t = h.tier
      OBVIOUS
    <3>4. /\ now \in Nat /\ policies \in Policies /\ t \in Tier /\ ~Unlimited(policies[t])
          /\ h \in BucketRec /\ h.lastRefill <= now
      BY <1>2, <2>6, <3>2, <3>3
    <3>5. r = Refill(h, policies[t]) /\ z = IdealSpend(y, policies[t], cost, h.lastRefill = Never)
      BY <2>1, <2>2, <2>6, <3>1, <3>2, <3>3
    <3>6. y \in IdealRec /\ y.lastRefill <= now /\ y.tokens + Owing(d, y) >= 0
      BY <2>5, <3>1
    <3>7. IF h.lastRefill # Never
          THEN y.lastRefill = h.lastRefill /\ h.tokens <= y.tokens + Owing(d, y)
          ELSE \/ y.lastRefill = Never
               \/ y.lastRefill < now - Idle
               \/ y.tokens + Owing(d, y) >= Full
      BY <2>5, <3>1, <3>2
    <3> QED BY <2>4, <3>4, <3>5, <3>6, <3>7, KeepsUp
  <2>8. x.tokens = r.tokens - cost /\ x.tokens \in Nat
    BY <1>1, <1>2, <2>2 DEF Held, BucketRec
  <2>9. ideal' = [ideal EXCEPT ![a] = z]
    BY <1>1, <1>4, <2>1 DEF Held
  <2>10. ideal' \in [IP -> IdealRec] /\ \A i \in IP : ideal'[i].lastRefill <= now
    BY <1>2, <2>7, <2>9 DEF Basics, Times
  <2>11. ASSUME NEW i \in IP PROVE Paced(i)'
    <3>1. CASE i = a
      <4>1. /\ map'[i] = b /\ bkt'[b] = x /\ detached'[i] = detached[i] /\ now' = now
        BY <1>4, <3>1, TouchMap
      <4>2. ideal'[i] = z
        BY <1>2, <2>9, <3>1
      <4>3. Debt(i)' = Owing(d, z)
        BY <2>3, <3>1, <4>1, <4>2 DEF Debt, Owing
      <4>4. Drawn(i)'
        BY <1>2, <4>1 DEF Drawn, Never
      <4>5. z.tokens + Owing(d, z) >= 0 /\ z.tokens \in Int
        BY <2>4, <2>7, <2>8, OwingOK DEF IdealRec
      <4> QED BY <1>2, <2>7, <2>8, <4>1, <4>2, <4>3, <4>4, <4>5 DEF Paced
    <3>2. CASE i # a
      <4>1. map[i] # b
        BY <3>2, HeldByOne
      <4>2. /\ map'[i] = map[i] /\ detached'[i] = detached[i] /\ now' = now
            /\ map[i] # None => bkt'[map[i]] = bkt[map[i]]
        BY <4>1, TouchMap
      <4>3. Paced(i) /\ ideal'[i] = ideal[i]
        BY <1>2, <2>9, <3>2
      <4> QED BY <4>2, <4>3 DEF Paced, Debt, Owing, Drawn
    <3> QED BY <3>1, <3>2
  <2> QED BY <2>10, <2>11
<1> QED BY <1>3, <1>4

\* An eviction: the bucket that is never evicted has been idle as well, else the
\* eviction is paid for.
LEMMA SweepPaced == ASSUME Basics, NEW i \in IP, Paced(i), SweepDelete PROVE Paced(i)'
<1>1. /\ sweep \in IP /\ bkt' = bkt /\ ideal' = ideal /\ now' = now
      /\ ideal[i].tokens \in Int /\ ideal[i].lastRefill \in Int /\ Idle \in Nat /\ now \in Nat
  BY LimiterAssumption DEF Basics, Typed, SweepDelete, IdealRec
<1>2. CASE i # sweep
  <2>1. map'[i] = map[i] /\ detached'[i] = detached[i]
    BY <1>1, <1>2 DEF SweepDelete, Basics, Typed
  <2> QED BY <1>1, <2>1 DEF Paced, Debt, Drawn
<1>3. CASE i = sweep
  <2>1. map'[i] = None
    BY <1>1, <1>3 DEF SweepDelete, Basics, Typed
  <2>2. ~Drawn(i)'
    BY <2>1 DEF Drawn
  <2>3. detached[i] \in Nat /\ Debt(i) \in Nat /\ Full \in Nat
    BY OwingOK, FullOK DEF Debt, Basics, Typed
  <2>4. CASE detached'[i] = detached[i] + 1
    <3>1. Debt(i)' = Debt(i) + Full
      BY <1>1, <2>3, <2>4, OwingOK DEF Debt, Owing, Basics, Typed
    <3>2. ideal[i].tokens + Debt(i) >= 0
      BY DEF Paced
    <3>3. ideal[i].tokens + Debt(i)' >= Full
      BY <1>1, <2>3, <3>1, <3>2
    <3>4. ideal[i].tokens + Debt(i)' >= 0
      BY <1>1, <2>3, <3>1, <3>2
    <3> QED BY <1>1, <2>1, <2>2, <3>3, <3>4 DEF Paced
  <2>5. CASE detached'[i] # detached[i] + 1
    <3>1. /\ detached'[i] = detached[i]
          /\ map[i] # None => ~(bkt[map[i]].lastSeen >= now - Idle)
      BY <1>1, <1>3, <2>5 DEF SweepDelete, Basics, Typed
    <3>2. Debt(i)' = Debt(i)
      BY <1>1, <3>1 DEF Debt, Owing
    <3>3. map[i] # None => ideal[i].lastRefill < now - Idle
      <4> SUFFICES ASSUME map[i] # None PROVE ideal[i].lastRefill < now - Idle
        OBVIOUS
      <4>1. bkt[map[i]].lastSeen \in Nat
        BY DEF Basics, Typed, BucketRec
      <4> QED BY <1>1, <3>1, <4>1 DEF Paced
    <3>4. map[i] = None => ~Drawn(i)
      BY DEF Drawn
    <3> QED BY <1>1, <2>1, <2>2, <3>2, <3>3, <3>4 DEF Paced
  <2> QED BY <2>4, <2>5
<1> QED BY <1>2, <1>3

-----------------------------------------------------------------------------
(* BanJustified                                                            *)

\* Steps that give no bucket to an address and change no count.
LEMMA KeptCounted ==
    ASSUME Counted, Shrinks, bkt' = bkt, failLog' = failLog PROVE Counted'
  BY DEF Counted, Shrinks, Counts

\* A new bucket has counted nothing.
LEMMA CreateCounted ==
    ASSUME Basics, Counted, NEW w \in Worker, NEW i \in IP, NEW b \in Bucket, Create(w, i, b)
    PROVE  Counted'
<1> SUFFICES ASSUME NEW c \in Bucket, NEW j \in IP, Of(c, j)'
             PROVE  Counts(bkt[c], failLog[j])'
  BY DEF Counted
<1>1. failLog' = failLog
  BY DEF Create
<1>2. CASE c = b
  <2>1. bkt'[c].failCount = 0 /\ bkt'[c].windowStart = Never
    BY <1>2, CreateNew DEF Basics
  <2> QED BY <2>1 DEF Counts
<1>3. CASE c # b
  <2>1. Of(c, j) /\ bkt'[c] = bkt[c]
    BY <1>3, CreateRefs DEF Basics
  <2> QED BY <1>1, <2>1 DEF Counted, Counts
<1> QED BY <1>2, <1>3

\* A touch that counts nothing.
LEMMA SameCounted ==
    ASSUME Basics, Counted, NEW w \in Worker, NEW x, Touch(w, x), SameCount(w, x)
    PROVE  Counted'
<1> SUFFICES ASSUME NEW c \in Bucket, NEW j \in IP, Of(c, j)'
             PROVE  Counts(bkt[c], failLog[j])'
  BY DEF Counted
<1>1. failLog' = failLog /\ Counts(bkt[c], failLog[j])
  BY TouchShrinks DEF SameCount, Counted, Shrinks, Basics
<1>2. bkt'[c].failCount = bkt[c].failCount /\ bkt'[c].windowStart = bkt[c].windowStart
  BY DEF Touch, SameCount, Held, Basics, Typed
<1> QED BY <1>1, <1>2 DEF Counts

\* One more entry in the log, M: older counts still are of the latest entries.
LEMMA CountsShift ==
    ASSUME NEW L \in Seq(Nat), now \in Nat, LogLength \in Nat \ {0}, Len(L) <= LogLength,
           NEW M, M = LastOf(Append(L, now), LogLength),
           NEW x \in BucketRec, NEW y \in BucketRec, x.windowStart = y.windowStart,
           x.windowStart <= now, Counts(y, L),
           \/ x.failCount = y.failCount
           \/ x.failCount = y.failCount + 1 /\ y.windowStart # Never
    PROVE  Counts(x, M)
<1>1. /\ Len(M) = IF Len(L) < LogLength THEN Len(L) + 1 ELSE LogLength
      /\ Late(M, 1) = now
      /\ \A j \in 2 .. Len(M) : j - 1 \in 1 .. Len(L) /\ Late(M, j) = Late(L, j - 1)
  BY Logging
<1>2. x.failCount \in Nat /\ y.failCount \in Nat /\ Len(L) \in Nat
  BY DEF BucketRec
<1>3. x.windowStart = Never <=> x.failCount = 0
  BY <1>2 DEF Counts
<1>4. ASSUME NEW j \in 1 .. x.failCount, j <= LogLength
      PROVE  j <= Len(M) /\ x.windowStart <= Late(M, j)
  <2>1. CASE j = 1
    BY <1>1, <1>2, <1>4, <2>1
  <2>2. CASE j # 1
    <3>1. j - 1 \in 1 .. y.failCount /\ j - 1 <= LogLength
      BY <1>2, <1>4, <2>2
    <3>2. j - 1 <= Len(L) /\ y.windowStart <= Late(L, j - 1)
      BY <3>1 DEF Counts
    <3>3. j <= Len(M)
      BY <1>1, <1>2, <1>4, <3>2
    <3>4. j \in 2 .. Len(M)
      BY <1>1, <1>2, <1>4, <2>2, <3>3
    <3> QED BY <1>1, <3>2, <3>3, <3>4
  <2> QED BY <2>1, <2>2
<1> QED BY <1>3, <1>4 DEF Counts

\* A count that begins.
LEMMA CountsFirst ==
    ASSUME NEW L \in Seq(Nat), now \in Nat, LogLength \in Nat \ {0}, Len(L) <= LogLength,
           NEW M, M = LastOf(Append(L, now), LogLength),
           NEW x \in BucketRec, x.windowStart = now, x.failCount = 1
    PROVE  Counts(x, M)
<1>1. /\ Len(M) = IF Len(L) < LogLength THEN Len(L) + 1 ELSE LogLength
      /\ Late(M, 1) = now /\ Len(L) \in Nat
  BY Logging
<1>2. x.windowStart # Never
  BY DEF Never
<1>3. 1 <= Len(M)
  BY <1>1
<1>4. \A j \in 1 .. x.failCount : j = 1
  OBVIOUS
<1> QED BY <1>1, <1>2, <1>3, <1>4 DEF Counts

\* The window with the failure that is being recorded.
LEMMA CountsWindow ==
    ASSUME NEW L \in Seq(Nat), now \in Nat, LogLength \in Nat \ {0}, Len(L) <= LogLength,
           NEW M, M = LastOf(Append(L, now), LogLength),
           policies \in Policies, NEW y \in BucketRec, Clocked(y), y.tier \in Tier, Counts(y, L),
           NEW x, x = Window(y, policies[y.tier])
    PROVE  /\ Counts(x, M)
           /\ policies[y.tier].window = 0 \/ now - x.windowStart <= policies[y.tier].window
<1>1. /\ x \in BucketRec /\ Clocked(x)
      /\ \/ /\ \/ y.windowStart = Never
               \/ /\ policies[y.tier].window > 0
                  /\ now - y.windowStart > policies[y.tier].window
            /\ x.windowStart = now /\ x.failCount = 1
         \/ /\ y.windowStart # Never
            /\ policies[y.tier].window = 0 \/ now - y.windowStart <= policies[y.tier].window
            /\ x.windowStart = y.windowStart /\ x.failCount = y.failCount + 1
  BY WindowOK
<1>2. policies[y.tier].window \in Nat
  BY LimiterAssumption DEF Policy
<1>3. CASE x.windowStart = now /\ x.failCount = 1
  BY <1>1, <1>2, <1>3, CountsFirst
<1>4. CASE /\ y.windowStart # Never
           /\ policies[y.tier].window = 0 \/ now - y.windowStart <= policies[y.tier].window
           /\ x.windowStart = y.windowStart /\ x.failCount = y.failCount + 1
  <2>1. x.windowStart <= now
    BY <1>1 DEF Clocked
  <2>2. Counts(x, M)
    BY <1>1, <1>4, <2>1, CountsShift
  <2> QED BY <1>4, <2>2
<1> QED BY <1>1, <1>3, <1>4

\* A count that has reached the threshold n is of as many entries.
LEMMA Enforced ==
    ASSUME NEW M \in Seq(Nat), now \in Nat, NEW x \in BucketRec, Counts(x, M),
           NEW window \in Nat, window = 0 \/ now - x.windowStart <= window,
           NEW n \in Nat \ {0}, n <= x.failCount, n <= LogLength, LogLength \in Nat
    PROVE  Within(M, window) >= n
<1> DEFINE S == {k \in 1 .. Len(M) : window = 0 \/ now - M[k] <= window}
<1>1. x.windowStart \in Int /\ x.failCount \in Nat /\ Len(M) \in Nat
  BY DEF BucketRec
<1>2. n <= Len(M)
  BY <1>1 DEF Counts
<1>3. ASSUME NEW j \in 1 .. n PROVE Len(M) - j + 1 \in S
  <2>1. Len(M) - j + 1 \in 1 .. Len(M)
    BY <1>1, <1>2
  <2>2. x.windowStart <= M[Len(M) - j + 1]
    <3>1. j \in 1 .. x.failCount /\ j <= LogLength
      BY <1>1
    <3> QED BY <3>1 DEF Counts, Late
  <2>3. M[Len(M) - j + 1] \in Nat
    BY <2>1
  <2>4. window = 0 \/ now - M[Len(M) - j + 1] <= window
    BY <1>1, <2>2, <2>3
  <2> QED BY <2>1, <2>4
<1>4. S \in SUBSET (1 .. Len(M))
  OBVIOUS
<1> HIDE DEF S
<1>5. n <= Cardinality(S) /\ Cardinality(S) \in Nat
  BY <1>1, <1>2, <1>3, <1>4, AtLeast
<1> QED BY <1>5 DEF Within, S

\* What a counted failure finds and writes.
LEMMA FailsFacts ==
    ASSUME Basics, NEW w \in Worker, NEW x, Touch(w, x), Fails(w, x), Logged(req[w].ip)
    PROVE  /\ req[w].ip \in IP /\ failLog[req[w].ip] \in Seq(Nat)
           /\ LogLength \in Nat \ {0} /\ Len(failLog[req[w].ip]) <= LogLength
           /\ failLog'[req[w].ip] = LastOf(Append(failLog[req[w].ip], now), LogLength)
           /\ now \in Nat /\ now' = now /\ policies \in Policies
           /\ Held(w) \in BucketRec /\ Clocked(Held(w)) /\ Held(w).tier \in Tier
           /\ PolicyOf(w) = policies[Held(w).tier] /\ PolicyOf(w).window \in Nat
           /\ PolicyOf(w).threshold \in Nat \ {0}
           /\ PolicyOf(w).threshold <= LogLength /\ PolicyOf(w).threshold <= MaxThreshold
           /\ PolicyOf(w).window = 0 \/ Span <= PolicyOf(w).window
           /\ \A j \in IP \ {req[w].ip} : failLog'[j] = failLog[j] /\ fresh'[j] = fresh[j]
           /\ failLog' \in [IP -> Seq(Nat)] /\ fresh' \in [IP -> Nat]
<1>1. /\ req[w].ip \in IP /\ failLog \in [IP -> Seq(Nat)] /\ fresh \in [IP -> Nat]
      /\ now \in Nat /\ now' = now /\ policies \in Policies /\ LogLength \in Nat
      /\ Held(w) \in BucketRec /\ Clocked(Held(w)) /\ Held(w).tier \in Tier
  BY LimiterAssumption DEF Touch, Basics, Typed, Times, Held, BucketRec
<1>2. PolicyOf(w) = policies[Held(w).tier] /\ PolicyOf(w) \in Policy
  BY <1>1, LimiterAssumption DEF PolicyOf
<1>3. /\ PolicyOf(w).window \in Nat /\ PolicyOf(w).threshold \in Nat
      /\ PolicyOf(w).threshold <= LogLength /\ PolicyOf(w).threshold <= MaxThreshold
      /\ PolicyOf(w).window = 0 \/ Span <= PolicyOf(w).window
  BY <1>1, <1>2, PoliciesAssumption DEF Policy
<1>4. PolicyOf(w).threshold > 0
  BY DEF Fails
<1>5. LogLength \in Nat \ {0} /\ PolicyOf(w).threshold \in Nat \ {0}
  BY <1>1, <1>3, <1>4
<1>6. Len(failLog[req[w].ip]) <= LogLength
  BY DEF Logged
<1>7. PICK n \in Nat :
        /\ failLog' = [failLog EXCEPT ![req[w].ip] =
                          LastOf(Append(failLog[req[w].ip], now), LogLength)]
        /\ fresh' = [fresh EXCEPT ![req[w].ip] = IF n > LogLength THEN LogLength ELSE n]
  <2>1. fresh[req[w].ip] + 1 \in Nat /\ 0 \in Nat
    BY <1>1
  <2>2. \E n \in Nat : Remember(req[w].ip, n)
    BY <2>1 DEF Fails
  <2> QED BY <2>2 DEF Remember
<1>8. LastOf(Append(failLog[req[w].ip], now), LogLength) \in Seq(Nat)
  BY <1>1, <1>5, <1>6, Logging
<1>9. (IF n > LogLength THEN LogLength ELSE n) \in Nat
  BY <1>1
<1>10. failLog' \in [IP -> Seq(Nat)] /\ fresh' \in [IP -> Nat]
  BY <1>1, <1>7, <1>8, <1>9
<1>11. \A j \in IP \ {req[w].ip} : failLog'[j] = failLog[j] /\ fresh'[j] = fresh[j]
  BY <1>1, <1>7
<1>12. failLog'[req[w].ip] = LastOf(Append(failLog[req[w].ip], now), LogLength)
  BY <1>1, <1>7
<1> QED BY <1>1, <1>2, <1>3, <1>5, <1>6, <1>10, <1>11, <1>12

\* A failure is counted by its bucket and is the latest in its log,
LEMMA FailsCounted ==
    ASSUME Basics, Owned, Counted, BanJustified,
           NEW w \in Worker, NEW x, Touch(w, x), Fails(w, x), Logged(req[w].ip)
    PROVE  Counted' /\ BanJustified'
<1> DEFINE i == req[w].ip
           L == failLog[i]
           M == failLog'[i]
           win == Window(Held(w), PolicyOf(w))
<1>1. /\ i \in IP /\ L \in Seq(Nat) /\ LogLength \in Nat \ {0} /\ Len(L) <= LogLength
      /\ M = LastOf(Append(L, now), LogLength) /\ now \in Nat /\ now' = now
      /\ policies \in Policies /\ Held(w) \in BucketRec /\ Clocked(Held(w))
      /\ Held(w).tier \in Tier /\ PolicyOf(w) = policies[Held(w).tier]
      /\ PolicyOf(w).window \in Nat /\ PolicyOf(w).threshold \in Nat \ {0}
      /\ PolicyOf(w).threshold <= LogLength
      /\ \A j \in IP \ {i} : failLog'[j] = failLog[j]
  BY FailsFacts
<1>2. Counts(Held(w), L)
  BY <1>1, HeldByOne DEF Counted, Held, Touch
<1>3. /\ Counts(win, M)
      /\ PolicyOf(w).window = 0 \/ now - win.windowStart <= PolicyOf(w).window
  BY <1>1, <1>2, CountsWindow
<1>4. win \in BucketRec
  BY <1>1, WindowOK
<1>5. M \in Seq(Nat)
  BY <1>1, Logging
<1>6. Counts(x, M)
  <2>1. CASE x.failCount = win.failCount /\ x.windowStart = win.windowStart
    BY <1>3, <2>1 DEF Counts
  <2>2. CASE x.failCount = 0 /\ x.windowStart = Never
    BY <2>2 DEF Counts
  <2> QED BY <2>1, <2>2 DEF Fails
<1>7. Counted'
  <2> SUFFICES ASSUME NEW c \in Bucket, NEW j \in IP, Of(c, j)'
               PROVE  Counts(bkt[c], failLog[j])'
    BY DEF Counted
  <2>1. Of(c, j) /\ Counts(bkt[c], failLog[j])
    BY TouchShrinks DEF Counted, Shrinks, Basics
  <2>2. CASE c = req[w].b
    <3>1. j = i
      BY <1>1, <2>1, <2>2, HeldByOne DEF Owned
    <3>2. bkt'[c] = x
      BY <2>2 DEF Touch, Basics, Typed
    <3> QED BY <1>6, <3>1, <3>2 DEF Counts
  <2>3. CASE c # req[w].b
    <3>1. bkt'[c] = bkt[c] /\ bkt[c] \in BucketRec /\ bkt[c].windowStart <= now
      BY <2>3 DEF Touch, Basics, Typed, Times, Clocked
    <3>2. CASE j # i
      BY <1>1, <2>1, <3>1, <3>2 DEF Counts
    <3>3. CASE j = i
      <4>1. Counts(bkt[c], M)
        BY <1>1, <2>1, <3>1, <3>3, CountsShift
      <4> QED BY <3>1, <3>3, <4>1 DEF Counts
    <3> QED BY <3>2, <3>3
  <2> QED BY <2>2, <2>3
<1>8. BanJustified'
  <2>1. CASE UNCHANGED lastTrip
    BY <2>1 DEF BanJustified
  <2>2. CASE /\ win.failCount >= PolicyOf(w).threshold
             /\ lastTrip' = [failures |-> Within(M, PolicyOf(w).window),
                             threshold |-> PolicyOf(w).threshold]
    <3>1. win.failCount \in Nat
      BY <1>4 DEF BucketRec
    <3>2. PolicyOf(w).threshold <= win.failCount
      BY <1>1, <2>2, <3>1
    <3> HIDE DEF win, M
    <3>3. Within(M, PolicyOf(w).window) >= PolicyOf(w).threshold
      BY <1>1, <1>3, <1>4, <1>5, <3>2, Enforced
    <3> QED BY <2>2, <3>3 DEF BanJustified
  <2> QED BY <2>1, <2>2 DEF Fails
<1> QED BY <1>7, <1>8

-----------------------------------------------------------------------------
(* BanBound                                                                *)

\* which still holds the failures since the latest ban.
LEMMA FailsLogged ==
    ASSUME Basics, NEW w \in Worker, NEW x, Touch(w, x), Fails(w, x),
           \A i \in IP : Logged(i), NEW j \in IP
    PROVE  Logged(j)'
<1> DEFINE i == req[w].ip
           L == failLog[i]
           M == failLog'[i]
<1>0. i \in IP /\ Logged(i)
  BY DEF Touch
<1>1. /\ L \in Seq(Nat) /\ LogLength \in Nat \ {0} /\ Len(L) <= LogLength
      /\ M = LastOf(Append(L, now), LogLength) /\ now \in Nat /\ now' = now
      /\ \A k \in IP \ {i} : failLog'[k] = failLog[k] /\ fresh'[k] = fresh[k]
  BY <1>0, FailsFacts
<1>2. CASE j # i
  BY <1>1, <1>2 DEF Logged
<1>3. CASE j = i
  <2>1. /\ Len(M) = IF Len(L) < LogLength THEN Len(L) + 1 ELSE LogLength
        /\ Late(M, 1) = now /\ Len(L) \in Nat /\ M \in Seq(Nat)
        /\ \A k \in 2 .. Len(M) : k - 1 \in 1 .. Len(L) /\ Late(M, k) = Late(L, k - 1)
    BY <1>1, Logging
  <2>2. fresh[i] \in Nat /\ fresh[i] <= Len(L) /\ \A k \in 1 .. Len(L) : Late(L, k) <= now
    BY <1>0 DEF Logged, Basics, Typed
  <2>3. fresh'[i] <= Len(M)
    <3>1. fresh'[i] = (IF fresh[i] + 1 > LogLength THEN LogLength ELSE fresh[i] + 1)
          \/ fresh'[i] = (IF 0 > LogLength THEN LogLength ELSE 0)
      BY <1>0 DEF Fails, Remember, Basics, Typed
    <3> HIDE DEF M, L
    <3> QED BY <1>1, <2>1, <2>2, <3>1
  <2>4. \A k \in 1 .. Len(M) : Late(M, k) <= now
    <3> TAKE k \in 1 .. Len(M)
    <3>1. CASE k = 1
      BY <1>1, <2>1, <3>1
    <3>2. CASE k # 1
      BY <1>1, <2>1, <2>2, <3>2
    <3> QED BY <3>1, <3>2
  <2>5. Len(M) <= LogLength
    BY <1>1, <2>1
  <2> QED BY <1>1, <1>3, <2>3, <2>4, <2>5 DEF Logged
<1> QED BY <1>2, <1>3

\* Steps that count no failure.
LEMMA KeptLogged ==
    ASSUME Basics, Basics', now <= now', UNCHANGED <<failLog, fresh>>, NEW i \in IP, Logged(i)
    PROVE  Logged(i)'
<1>1. now \in Nat /\ now' \in Nat /\ failLog[i] \in Seq(Nat)
  BY DEF Basics, Typed
<1>2. \A j \in 1 .. Len(failLog[i]) : Late(failLog[i], j) \in Nat
  BY <1>1 DEF Late
<1> QED BY <1>1, <1>2 DEF Logged

\* The latest failures since a ban are entries of the log.
LEMMA FreshTimes ==
    ASSUME Basics, NEW i \in IP, Logged(i), NEW j \in 1 .. fresh[i]
    PROVE  /\ Late(failLog[i], j) \in Nat /\ Late(failLog[i], j) <= now
           /\ now \in Nat /\ Span \in Nat /\ Idle \in Nat /\ Span <= Idle
<1>1. fresh[i] \in Nat /\ failLog[i] \in Seq(Nat) /\ now \in Nat /\ Len(failLog[i]) \in Nat
  BY DEF Basics, Typed
<1>2. j \in 1 .. Len(failLog[i]) /\ Late(failLog[i], j) <= now
  BY <1>1 DEF Logged
<1>3. Late(failLog[i], j) \in Nat
  BY <1>1, <1>2 DEF Late
<1> QED BY <1>1, <1>2, <1>3, LimiterAssumption, PoliciesAssumption

\* A step that touches no bucket.
LEMMA CalmPassed ==
    ASSUME Basics, Calm, NEW i \in IP, Logged(i), Passed(i) PROVE Passed(i)'
<1>1. UNCHANGED <<map, bkt, failLog, fresh>> /\ now \in Nat /\ now' \in Nat /\ now <= now'
  BY DEF Calm, Basics, Typed
<1>2. \A j \in 1 .. fresh[i] :
         Late(failLog[i], j) + Span < now => Late(failLog[i], j) + Span < now'
  BY <1>1, FreshTimes
<1>3. ASSUME NEW w \in Worker, req'[w].b # None, req'[w].ip = i PROVE map[i] = req'[w].b
  BY <1>3 DEF Calm, Passed, Settled
<1> QED BY <1>1, <1>2, <1>3 DEF Passed, Settled

\* A new bucket: what was counted before it is over.
LEMMA CreatePassed ==
    ASSUME Basics, NEW j \in IP, Logged(j), Passed(j),
           NEW w \in Worker, NEW i \in IP, NEW b \in Bucket, Create(w, i, b)
    PROVE  Passed(j)'
<1>1. /\ UNCHANGED <<now, failLog, fresh>> /\ None \notin Bucket
      /\ req'[w].ip = i /\ req'[w].b = b /\ \A v \in Worker \ {w} : req'[v] = req[v]
  BY LimiterAssumption DEF Create
<1>2. CASE j = i
  <2>1. map[j] = None /\ map'[j] = b
    BY <1>2 DEF Create, Basics, Typed
  <2>2. bkt'[b].lastSeen = now /\ bkt'[b].failCount = 0
    BY CreateNew DEF Basics
  <2>3. ASSUME NEW v \in Worker, req'[v].b # None, req'[v].ip = j PROVE map'[j] = req'[v].b
    BY <1>1, <2>1, <2>3 DEF Passed, Settled
  <2>4. \A k \in 1 .. fresh[j] : Late(failLog[j], k) <= now
    BY FreshTimes
  <2>5. \A k \in 1 .. fresh[j] : Late(failLog[j], k) + Span < now
    BY <2>1 DEF Passed, Settled
  <2> QED BY <1>1, <2>1, <2>2, <2>3, <2>4, <2>5 DEF Passed, Settled
<1>3. CASE j # i
  <2>1. map'[j] = map[j] /\ map[j] \in Bucket \cup {None}
    BY <1>3 DEF Create, Basics, Typed
  <2>2. ASSUME NEW v \in Worker, req'[v].b # None, req'[v].ip = j PROVE map'[j] = req'[v].b
    BY <1>1, <1>3, <2>1, <2>2 DEF Passed, Settled
  <2>3. map[j] # None => bkt'[map[j]] = bkt[map[j]]
    <3> SUFFICES ASSUME map[j] # None PROVE bkt'[map[j]] = bkt[map[j]]
      OBVIOUS
    <3>1. map[j] # b
      BY DEF Create, InUse
    <3>2. Of(map[j], j)'
      BY <2>1 DEF Of
    <3> QED BY <2>1, <3>1, <3>2, CreateRefs DEF Basics
  <2> QED BY <1>1, <2>1, <2>2, <2>3 DEF Passed, Settled
<1> QED BY <1>2, <1>3

\* The references of an address after a touch.
LEMMA TouchRefs ==
    ASSUME NEW w \in Worker, NEW x, Touch(w, x), NEW i \in IP, Passed(i)
    PROVE  \A v \in Worker : req'[v].b # None /\ req'[v].ip = i => map'[i] = req'[v].b
<1> SUFFICES ASSUME NEW v \in Worker, req'[v].b # None, req'[v].ip = i
             PROVE  map'[i] = req'[v].b
  OBVIOUS
<1>1. v # w /\ req'[v] = req[v] /\ map' = map
  BY DEF Touch
<1> QED BY <1>1 DEF Passed

\* A touch that counts nothing, or counts for another address.
LEMMA SamePassed ==
    ASSUME Basics, Owned, NEW w \in Worker, NEW x, Touch(w, x),
           NEW i \in IP, Logged(i), Passed(i), failLog'[i] = failLog[i], fresh'[i] = fresh[i],
           SameCount(w, x) \/ i # req[w].ip
    PROVE  Passed(i)'
<1>1. map'[i] = map[i] /\ now' = now
  BY TouchMap
<1>2. \A v \in Worker : req'[v].b # None /\ req'[v].ip = i => map'[i] = req'[v].b
  BY TouchRefs
<1>3. CASE map[i] = req[w].b
  <2>1. bkt'[map[i]] = x /\ i = req[w].ip
    BY <1>3, TouchMap
  <2>2. /\ x.failCount = bkt[map[i]].failCount /\ x.windowStart = bkt[map[i]].windowStart
        /\ x.lastSeen = now
    BY <1>3, <2>1 DEF SameCount, Held, Touch
  <2>3. \A k \in 1 .. fresh[i] : Late(failLog[i], k) <= now
    BY FreshTimes
  <2> QED BY <1>1, <1>2, <2>1, <2>2, <2>3 DEF Passed, Settled
<1>4. CASE map[i] # req[w].b
  <2>1. map[i] # None => bkt'[map[i]] = bkt[map[i]]
    BY <1>4, TouchMap
  <2> QED BY <1>1, <1>2, <2>1 DEF Passed, Settled
<1> QED BY <1>3, <1>4

\* An eviction that is not paid for: the failures are older than Span.
LEMMA SweepPassed ==
    ASSUME Basics, SweepDelete, NEW i \in IP, Logged(i), detached'[i] = 0,
           detached[i] = 0 => Passed(i)
    PROVE  Passed(i)'
<1>1. /\ sweep \in IP /\ UNCHANGED <<bkt, req, failLog, fresh, now>>
      /\ detached[i] \in Nat /\ now \in Nat
  BY DEF Basics, Typed, SweepDelete
<1>2. CASE i # sweep
  <2>1. map'[i] = map[i] /\ detached'[i] = detached[i]
    BY <1>1, <1>2 DEF SweepDelete, Basics, Typed
  <2> QED BY <1>1, <2>1 DEF Passed, Settled
<1>3. CASE i = sweep
  <2>1. map'[i] = None
    BY <1>1, <1>3 DEF SweepDelete, Basics, Typed
  <2>2. /\ detached'[i] = IF map[i] # None /\ (bkt[map[i]].lastSeen >= now - Idle
                                              \/ \E w \in Worker : req[w].b = map[i])
                          THEN detached[i] + 1 ELSE detached[i]
    BY <1>1, <1>3 DEF SweepDelete, Basics, Typed
  <2>3. /\ detached[i] = 0 /\ Passed(i)
        /\ map[i] # None => /\ ~(bkt[map[i]].lastSeen >= now - Idle)
                            /\ \A w \in Worker : req[w].b # map[i]
    BY <1>1, <2>2
  <2>4. ASSUME NEW w \in Worker, req'[w].b # None, req'[w].ip = i PROVE FALSE
    BY <1>1, <2>3, <2>4 DEF Passed, Settled
  <2>5. ASSUME NEW k \in 1 .. fresh[i] PROVE Late(failLog[i], k) + Span < now
    <3>1. CASE map[i] = None
      BY <2>3, <3>1 DEF Passed, Settled
    <3>2. CASE map[i] # None
      <4>1. Late(failLog[i], k) <= bkt[map[i]].lastSeen /\ bkt[map[i]].lastSeen \in Nat
        BY <2>3, <3>2 DEF Passed, Settled, Basics, Typed, BucketRec
      <4>2. /\ Late(failLog[i], k) \in Nat /\ Span \in Nat /\ Idle \in Nat /\ Span <= Idle
        BY FreshTimes
      <4> QED BY <1>1, <2>3, <3>2, <4>1, <4>2
    <3> QED BY <3>1, <3>2
  <2> QED BY <1>1, <2>1, <2>4, <2>5 DEF Passed, Settled
<1> QED BY <1>2, <1>3

\* One more failure: the window goes on, or the next one begins when the last
\* is over.
LEMMA SettledShift ==
    ASSUME NEW L \in Seq(Nat), now \in Nat, LogLength \in Nat \ {0}, Len(L) <= LogLength,
           NEW M, M = LastOf(Append(L, now), LogLength),
           NEW n \in Nat, n <= Len(L), NEW m \in Nat, m <= n + 1, m <= Len(M),
           NEW x \in BucketRec, NEW y \in BucketRec, Settled(y, L, n),
           y.windowStart = Never <=> y.failCount = 0,
           x.failCount < MaxThreshold, NEW window \in Nat, window = 0 \/ Span <= window,
           \/ /\ y.windowStart = Never \/ (window > 0 /\ now - y.windowStart > window)
              /\ x.windowStart = now /\ x.failCount = 1
           \/ /\ y.windowStart # Never
              /\ x.windowStart = y.windowStart /\ x.failCount = y.failCount + 1,
           \A k \in 1 .. n : Late(L, k) \in Nat /\ Late(L, k) <= now
    PROVE  Settled(x, M, m) /\ \A k \in 1 .. m : Late(M, k) <= now
<1>1. /\ MaxThreshold \in Nat \ {0} /\ Span \in Nat /\ x.failCount \in Nat
      /\ y.failCount \in Nat /\ y.windowStart \in Int
  BY PoliciesAssumption DEF BucketRec
<1>2. Late(M, 1) = now
  BY Logging
<1>3. ASSUME NEW k \in 1 .. m, k # 1
      PROVE  /\ k - 1 \in 1 .. n /\ Late(M, k) = Late(L, k - 1)
             /\ Late(L, k - 1) \in Nat /\ Late(L, k - 1) <= now
  <2>1. Len(M) \in Nat /\ \A j \in 2 .. Len(M) : Late(M, j) = Late(L, j - 1)
    BY Logging
  <2>2. k \in 2 .. Len(M) /\ k - 1 \in 1 .. n
    BY <1>3, <2>1
  <2> QED BY <2>1, <2>2
<1>4. x.failCount # 0
  BY <1>1
<1>5. ASSUME NEW k \in 1 .. m PROVE Late(M, k) <= now
  BY <1>2, <1>3
<1>6. ASSUME NEW k \in 1 .. m
      PROVE  /\ x.failCount <= k => Late(M, k) <= x.windowStart
             /\ x.failCount + MaxThreshold <= k => Late(M, k) + Span < x.windowStart
  <2>1. CASE /\ y.windowStart = Never \/ (window > 0 /\ now - y.windowStart > window)
             /\ x.windowStart = now /\ x.failCount = 1
    <3>1. ASSUME 1 + MaxThreshold <= k PROVE Late(M, k) + Span < now
      <4>1. k # 1 /\ MaxThreshold <= k - 1
        BY <1>1, <3>1
      <4>2. k - 1 \in 1 .. n /\ Late(M, k) = Late(L, k - 1) /\ Late(L, k - 1) \in Nat
        BY <1>3, <4>1
      <4>3. CASE y.failCount = 0
        BY <4>2, <4>3 DEF Settled
      <4>4. CASE y.failCount # 0
        <5>1. y.failCount < MaxThreshold
          BY <4>4 DEF Settled
        <5>2. y.failCount <= k - 1
          BY <1>1, <4>1, <5>1
        <5>3. Late(L, k - 1) <= y.windowStart
          BY <4>2, <4>4, <5>2 DEF Settled
        <5>4. window > 0 /\ now - y.windowStart > window /\ Span <= window
          BY <2>1, <4>4
        <5>5. PICK t, u : t = Late(L, k - 1) /\ u = y.windowStart
          OBVIOUS
        <5>6. t \in Nat /\ u \in Int /\ t <= u /\ now - u > window /\ Span <= window
          BY <1>1, <4>2, <5>3, <5>4, <5>5
        <5>7. t + Span < now
          BY <1>1, <5>6
        <5> QED BY <4>2, <5>5, <5>7
      <4> QED BY <4>3, <4>4
    <3> QED BY <1>5, <2>1, <3>1
  <2>2. CASE /\ y.windowStart # Never
             /\ x.windowStart = y.windowStart /\ x.failCount = y.failCount + 1
    <3>1. y.failCount # 0
      BY <2>2
    <3>2. ASSUME x.failCount <= k PROVE k # 1 /\ y.failCount <= k - 1
      BY <1>1, <2>2, <3>1, <3>2
    <3>3. x.failCount + MaxThreshold <= k => x.failCount <= k /\ y.failCount + MaxThreshold <= k - 1
      <4>1. PICK c, d : c = x.failCount /\ d = y.failCount
        OBVIOUS
      <4>2. c \in Nat /\ d \in Nat /\ c = d + 1
        BY <1>1, <2>2, <4>1
      <4>3. c + MaxThreshold <= k => c <= k /\ d + MaxThreshold <= k - 1
        BY <1>1, <4>2
      <4> QED BY <4>1, <4>3
    <3>4. ASSUME x.failCount <= k
          PROVE  /\ Late(M, k) <= x.windowStart
                 /\ y.failCount + MaxThreshold <= k - 1 => Late(M, k) + Span < x.windowStart
      <4>1. k - 1 \in 1 .. n /\ Late(M, k) = Late(L, k - 1) /\ y.failCount <= k - 1
        BY <1>3, <3>2, <3>4
      <4>2. /\ Late(L, k - 1) <= y.windowStart
            /\ y.failCount + MaxThreshold <= k - 1 => Late(L, k - 1) + Span < y.windowStart
        BY <3>1, <4>1 DEF Settled
      <4> QED BY <2>2, <4>1, <4>2
    <3> QED BY <3>3, <3>4
  <2> QED BY <2>1, <2>2
<1> QED BY <1>4, <1>5, <1>6 DEF Settled

\* A failure that is counted for an address.
LEMMA FailsPassed ==
    ASSUME Basics, Owned, Counted, NEW w \in Worker, NEW x, Touch(w, x), Fails(w, x),
           NEW i \in IP, i = req[w].ip, Logged(i), Logged(i)', Passed(i)
    PROVE  Passed(i)'
<1>1. PICK y, win : y = Held(w) /\ win = Window(y, PolicyOf(w))
  OBVIOUS
<1>2. PICK L, M, n, m : L = failLog[i] /\ M = failLog'[i] /\ n = fresh[i] /\ m = fresh'[i]
  OBVIOUS
<1>3. /\ i \in IP /\ L \in Seq(Nat) /\ LogLength \in Nat \ {0} /\ Len(L) <= LogLength
      /\ M = LastOf(Append(L, now), LogLength) /\ now \in Nat /\ now' = now
      /\ policies \in Policies /\ y \in BucketRec /\ Clocked(y)
      /\ y.tier \in Tier /\ PolicyOf(w) = policies[y.tier]
  BY <1>1, <1>2, FailsFacts
<1>4. /\ PolicyOf(w).window \in Nat /\ PolicyOf(w).threshold \in Nat \ {0}
      /\ PolicyOf(w).threshold <= MaxThreshold
      /\ PolicyOf(w).window = 0 \/ Span <= PolicyOf(w).window
      /\ failLog' \in [IP -> Seq(Nat)] /\ fresh' \in [IP -> Nat]
  BY FailsFacts
<1>5. map[i] = req[w].b /\ map[i] # None /\ y = bkt[map[i]]
  <2>1. req[w].b # None
    BY LimiterAssumption DEF Touch
  <2>2. map[i] = req[w].b
    BY <1>1, <2>1 DEF Passed
  <2> QED BY <1>1, <2>1, <2>2 DEF Held
<1>6. map'[i] = map[i] /\ bkt'[map[i]] = x
  BY <1>3, <1>5, TouchMap
<1>7. x.lastSeen = now /\ x \in BucketRec
  BY DEF Touch
<1>8. \A v \in Worker : req'[v].b # None /\ req'[v].ip = i => map'[i] = req'[v].b
  BY <1>1, <1>3, TouchRefs
<1>9. y.windowStart = Never <=> y.failCount = 0
  BY <1>1, <1>3, HeldByOne DEF Counted, Counts, Held, Touch
<1>10. /\ n \in Nat /\ n <= Len(L) /\ m \in Nat /\ m <= Len(M)
  BY <1>1, <1>2, <1>3, <1>4 DEF Basics, Typed, Logged
<1>11. \A k \in 1 .. n : Late(L, k) \in Nat /\ Late(L, k) <= now
  BY <1>1, <1>2, <1>3, FreshTimes
<1>12. CASE x.failCount = 0 /\ Remember(i, 0)
  <2>1. fresh'[i] = 0
    BY <1>3, <1>12 DEF Remember, Basics, Typed
  <2>2. \A k \in 1 .. fresh'[i] : FALSE
    BY <2>1
  <2>3. Settled(x, failLog[i], fresh[i])' /\ Settled(bkt[map[i]], failLog[i], fresh[i])'
    BY <1>6, <1>12, <2>2 DEF Settled
  <2> QED BY <1>1, <1>5, <1>6, <1>8, <2>2, <2>3 DEF Passed
<1>13. CASE /\ win.failCount < PolicyOf(w).threshold
            /\ x.failCount = win.failCount /\ x.windowStart = win.windowStart
            /\ Remember(i, fresh[i] + 1)
  <2>1. fresh'[i] = IF fresh[i] + 1 > LogLength THEN LogLength ELSE fresh[i] + 1
    BY <1>3, <1>13 DEF Remember, Basics, Typed
  <2>2. m <= n + 1
    BY <1>2, <1>3, <1>10, <2>1
  <2>3. /\ \/ /\ \/ y.windowStart = Never
                 \/ PolicyOf(w).window > 0 /\ now - y.windowStart > PolicyOf(w).window
              /\ x.windowStart = now /\ x.failCount = 1
           \/ /\ y.windowStart # Never
              /\ x.windowStart = y.windowStart /\ x.failCount = y.failCount + 1
    BY <1>1, <1>3, <1>13, WindowOK
  <2>4. x.failCount < MaxThreshold
    BY <1>4, <1>7, <1>13, PoliciesAssumption DEF BucketRec
  <2>5. Settled(y, L, n)
    BY <1>1, <1>2, <1>5 DEF Passed
  <2>6. Settled(x, M, m) /\ \A k \in 1 .. m : Late(M, k) <= now
    BY <1>3, <1>4, <1>7, <1>9, <1>10, <1>11, <2>2, <2>3, <2>4, <2>5, SettledShift
  <2>7. Settled(bkt[map[i]], failLog[i], fresh[i])'
    BY <1>2, <1>3, <1>6, <2>6 DEF Settled
  <2>8. \A k \in 1 .. fresh'[i] : Late(failLog[i], k)' <= bkt'[map'[i]].lastSeen
    BY <1>2, <1>6, <1>7, <2>6 DEF Late
  <2> QED BY <1>1, <1>5, <1>6, <1>8, <2>7, <2>8 DEF Passed
<1> QED BY <1>1, <1>12, <1>13 DEF Fails

\* The current window and what came before it within Span.
LEMMA PassedBound ==
    ASSUME Basics, NEW i \in IP, Logged(i), Passed(i)
    PROVE  Within(LastOf(failLog[i], fresh[i]), Span) <= 2 * (MaxThreshold - 1)
<1>1. PICK f, F, T, L : /\ f = fresh[i] /\ L = failLog[i] /\ F = LastOf(L, f)
                        /\ T = MaxThreshold
  OBVIOUS
<1>2. PICK S : S = {k \in 1 .. Len(F) : Span = 0 \/ now - F[k] <= Span}
  OBVIOUS
<1>3. /\ f \in Nat /\ f <= Len(L) /\ L \in Seq(Nat) /\ now \in Nat
      /\ T \in Nat \ {0} /\ Span \in Nat \ {0}
  BY <1>1, PoliciesAssumption DEF Basics, Typed, Logged
<1>4. Len(F) = f /\ \A k \in 1 .. f : F[k] = Late(L, f - k + 1)
  <2>1. f \in Nat /\ L \in Seq(Nat) /\ f <= Len(L) /\ F = LastOf(L, f)
    BY <1>1, <1>3
  <2>2. /\ F \in Seq(Nat) /\ Len(F) = f
        /\ \A k \in 1 .. f : F[k] = Late(L, f - k + 1)
    BY <2>1, LatestOf, Zenon
  <2> QED BY <2>2
<1>5. ASSUME NEW k \in S
      PROVE  /\ k \in 1 .. f /\ f - k + 1 \in 1 .. f
             /\ Late(L, f - k + 1) \in Nat
             /\ ~(Late(L, f - k + 1) + Span < now)
  <2>1. k \in 1 .. f /\ now - F[k] <= Span
    BY <1>2, <1>3, <1>4
  <2>2. f - k + 1 \in 1 .. f
    BY <1>3, <2>1
  <2>3. Late(L, f - k + 1) \in Nat
    BY <1>1, <2>2, FreshTimes
  <2>4. F[k] = Late(L, f - k + 1)
    BY <1>4, <2>1
  <2> QED BY <1>3, <2>1, <2>2, <2>3, <2>4
<1>6. PICK n \in Nat : n <= 2 * (T - 1) /\ \A k \in S : f - k < n
  <2>1. CASE map[i] = None \/ (map[i] # None /\ bkt[map[i]].failCount = 0)
    <3>1. \A j \in 1 .. f : Late(L, j) + Span < now
      BY <1>1, <2>1 DEF Passed, Settled
    <3>2. \A k \in S : FALSE
      BY <1>5, <3>1
    <3>3. 0 \in Nat /\ 0 <= 2 * (T - 1)
      BY <1>3
    <3> QED BY <3>2, <3>3
  <2>2. CASE map[i] # None /\ bkt[map[i]].failCount # 0
    <3>1. PICK x : x = bkt[map[i]]
      OBVIOUS
    <3>2. x \in BucketRec /\ Clocked(x)
      BY <2>2, <3>1 DEF Basics, Typed, Times
    <3>3. /\ x.failCount \in Nat /\ x.windowStart \in Int /\ x.windowStart <= now
          /\ x.failCount < T
      BY <1>1, <2>2, <3>1, <3>2 DEF BucketRec, Clocked, Passed, Settled
    <3>4. \A j \in 1 .. f : x.failCount + T <= j => Late(L, j) + Span < x.windowStart
      BY <1>1, <2>2, <3>1 DEF Passed, Settled
    <3>5. ASSUME NEW k \in S PROVE f - k < x.failCount + T - 1
      <4>1. PICK t : t = Late(L, f - k + 1)
        OBVIOUS
      <4>2. t \in Nat /\ ~(t + Span < now) /\ f - k + 1 \in 1 .. f /\ k \in 1 .. f
        BY <1>5, <4>1
      <4>3. x.failCount + T <= f - k + 1 => t + Span < x.windowStart
        BY <3>4, <4>1, <4>2
      <4>4. PICK c, u : c = x.failCount /\ u = x.windowStart
        OBVIOUS
      <4>5. /\ c \in Nat /\ u \in Int /\ u <= now /\ c < T
            /\ c + T <= f - k + 1 => t + Span < u
        BY <3>3, <4>3, <4>4
      <4>6. ~(c + T <= f - k + 1)
        BY <1>3, <4>2, <4>5
      <4>7. f - k < c + T - 1
        BY <1>3, <4>2, <4>5, <4>6
      <4> QED BY <4>4, <4>7
    <3>6. x.failCount + T - 1 \in Nat /\ x.failCount + T - 1 <= 2 * (T - 1)
      BY <1>3, <3>3
    <3> QED BY <3>5, <3>6
  <2> QED BY <2>1, <2>2
<1>7. \A k \in S : k \in 1 .. f /\ f - k < n
  BY <1>5, <1>6
<1>8. IsFiniteSet(S) /\ Cardinality(S) <= n
  BY <1>3, <1>7, AtMost
<1>9. Cardinality(S) \in Nat
  BY <1>8, FS_CardinalityType
<1>10. Cardinality(S) <= 2 * (T - 1)
  BY <1>3, <1>6, <1>8, <1>9
<1> QED BY <1>1, <1>2, <1>10 DEF Within

-----------------------------------------------------------------------------
(* The induction                                                           *)

\* Inv under a step that touches no bucket,
LEMMA CalmInv == ASSUME Inv, Calm PROVE Inv'
<1>1. Basics /\ Basics' /\ UNCHANGED <<failLog, fresh, detached, bkt, lastTrip>> /\ now <= now'
  BY CalmBasics DEF Inv, Basics, Calm
<1>2. Owned' /\ Counted'
  BY <1>1, CalmShrinks, ShrinksOwned, KeptCounted DEF Inv
<1>3. BanJustified'
  BY <1>1 DEF Inv, BanJustified
<1>4. ASSUME NEW i \in IP PROVE (Paced(i) /\ Logged(i) /\ (detached[i] = 0 => Passed(i)))'
  <2>1. Paced(i) /\ Logged(i) /\ (detached[i] = 0 => Passed(i))
    BY DEF Inv
  <2>2. Paced(i)' /\ Logged(i)'
    BY <1>1, <2>1, CalmPaced, KeptLogged
  <2>3. Passed(i) => Passed(i)'
    BY <1>1, <2>1, CalmPassed
  <2> QED BY <1>1, <2>1, <2>2, <2>3
<1> QED BY <1>1, <1>2, <1>3, <1>4 DEF Inv, Basics

\* under the creation of a bucket,
LEMMA CreateInv ==
    ASSUME Inv, NEW w \in Worker, NEW i \in IP, NEW b \in Bucket, Create(w, i, b) PROVE Inv'
<1>1. /\ Basics /\ Basics' /\ UNCHANGED <<failLog, fresh, detached, lastTrip>>
      /\ now' = now /\ now \in Nat
  BY CreateBasics DEF Inv, Basics, Typed, Create
<1>2. Owned' /\ Counted'
  BY <1>1, CreateOwned, CreateCounted DEF Inv, Basics
<1>3. BanJustified'
  BY <1>1 DEF Inv, BanJustified
<1>4. ASSUME NEW j \in IP PROVE (Paced(j) /\ Logged(j) /\ (detached[j] = 0 => Passed(j)))'
  <2>1. Paced(j) /\ Logged(j) /\ (detached[j] = 0 => Passed(j))
    BY DEF Inv
  <2>2. now <= now'
    BY <1>1
  <2>3. Paced(j)' /\ Logged(j)'
    BY <1>1, <2>1, <2>2, CreatePaced, KeptLogged
  <2>4. Passed(j) => Passed(j)'
    BY <1>1, <2>1, CreatePassed
  <2> QED BY <1>1, <2>1, <2>3, <2>4
<1> QED BY <1>1, <1>2, <1>3, <1>4 DEF Inv, Basics

\* under a touch,
LEMMA TouchInv ==
    ASSUME Inv, NEW w \in Worker, NEW x, Touch(w, x),
           SameTokens(w, x) \/ Draws(w, x), SameCount(w, x) \/ Fails(w, x)
    PROVE  Inv'
<1>1. Basics /\ Owned /\ Counted /\ BanJustified /\ \A i \in IP : Paced(i) /\ Logged(i)
  BY DEF Inv, Basics
<1>2. /\ ideal' \in [IP -> IdealRec] /\ \A i \in IP : ideal'[i].lastRefill <= now
      /\ \A i \in IP : Paced(i)'
  <2>1. CASE Draws(w, x)
    BY <1>1, <2>1, DrawsPaced
  <2>2. CASE SameTokens(w, x)
    <3>1. ideal' = ideal
      BY <2>2 DEF SameTokens
    <3>2. ideal' \in [IP -> IdealRec] /\ \A i \in IP : ideal'[i].lastRefill <= now
      BY <1>1, <3>1 DEF Basics, Typed, Times
    <3>3. \A i \in IP : Paced(i)'
      BY <1>1, <2>2, SamePaced
    <3> QED BY <3>2, <3>3
  <2> QED BY <2>1, <2>2
<1>3. req[w].ip \in IP /\ Logged(req[w].ip)
  BY <1>1 DEF Touch
<1>4. /\ failLog' \in [IP -> Seq(Nat)] /\ fresh' \in [IP -> Nat]
      /\ \A i \in IP \ {req[w].ip} : failLog'[i] = failLog[i] /\ fresh'[i] = fresh[i]
      /\ SameCount(w, x) => failLog' = failLog /\ fresh' = fresh
  <2>1. CASE SameCount(w, x)
    BY <1>1, <2>1 DEF SameCount, Basics, Typed
  <2>2. CASE Fails(w, x) /\ ~SameCount(w, x)
    BY <1>1, <1>3, <2>2, FailsFacts
  <2> QED BY <2>1, <2>2
<1>5. Basics'
  BY <1>1, <1>2, <1>4, TouchBasics
<1>6. Owned'
  BY <1>1, TouchShrinks, ShrinksOwned DEF Basics
<1>7. Counted' /\ BanJustified'
  <2>1. CASE SameCount(w, x)
    <3>1. lastTrip' = lastTrip
      BY <2>1 DEF SameCount
    <3> QED BY <1>1, <2>1, <3>1, SameCounted DEF BanJustified
  <2>2. CASE Fails(w, x)
    BY <1>1, <1>3, <2>2, FailsCounted
  <2> QED BY <2>1, <2>2
<1>8. now' = now /\ now \in Nat /\ now <= now' /\ detached' = detached
  BY <1>1 DEF Touch, Basics, Typed
<1>9. ASSUME NEW i \in IP PROVE Logged(i)'
  <2>1. CASE SameCount(w, x)
    BY <1>1, <1>4, <1>5, <1>8, <2>1, KeptLogged
  <2>2. CASE Fails(w, x)
    BY <1>1, <2>2, FailsLogged
  <2> QED BY <2>1, <2>2
<1>10. ASSUME NEW i \in IP, detached'[i] = 0 PROVE Passed(i)'
  <2>1. Passed(i) /\ Logged(i)
    BY <1>8, <1>10 DEF Inv
  <2>2. CASE SameCount(w, x)
    <3>1. failLog'[i] = failLog[i] /\ fresh'[i] = fresh[i]
      BY <1>4, <2>2
    <3> QED BY <1>1, <2>1, <2>2, <3>1, SamePassed
  <2>3. CASE i # req[w].ip
    <3>1. failLog'[i] = failLog[i] /\ fresh'[i] = fresh[i]
      BY <1>4, <2>3
    <3> QED BY <1>1, <2>1, <2>3, <3>1, SamePassed
  <2>4. CASE Fails(w, x) /\ i = req[w].ip
    BY <1>1, <1>9, <2>1, <2>4, FailsPassed
  <2> QED BY <2>2, <2>3, <2>4
<1> QED BY <1>2, <1>5, <1>6, <1>7, <1>9, <1>10 DEF Inv, Basics

\* and under an eviction.
LEMMA SweepInv == ASSUME Inv, SweepDelete PROVE Inv'
<1>1. /\ Basics /\ Basics' /\ UNCHANGED <<failLog, fresh, bkt, lastTrip>>
      /\ now' = now /\ now \in Nat
  BY SweepBasics DEF Inv, Basics, Typed, SweepDelete
<1>2. Owned' /\ Counted'
  BY <1>1, SweepShrinks, ShrinksOwned, KeptCounted DEF Inv
<1>3. BanJustified'
  BY <1>1 DEF Inv, BanJustified
<1>4. ASSUME NEW i \in IP PROVE (Paced(i) /\ Logged(i) /\ (detached[i] = 0 => Passed(i)))'
  <2>1. Paced(i) /\ Logged(i) /\ (detached[i] = 0 => Passed(i))
    BY DEF Inv
  <2>2. now <= now'
    BY <1>1
  <2>3. Paced(i)' /\ Logged(i)'
    BY <1>1, <2>1, <2>2, SweepPaced, KeptLogged
  <2>4. detached'[i] = 0 => Passed(i)'
    BY <1>1, <2>1, SweepPassed
  <2> QED BY <2>3, <2>4
<1> QED BY <1>1, <1>2, <1>3, <1>4 DEF Inv, Basics

\* It holds at first,
LEMMA InitInv == ASSUME Init PROVE Inv
<1>1. Typed
  BY IdleOK, BlankOK DEF Init, Typed, IdealRec, Never
<1>2. Stages
  BY IdleOK DEF Init, Stages
<1>3. \A i \in IP : /\ ideal[i].lastRefill = Never /\ ideal[i].tokens = 0
                    /\ ideal[i].loans = 0 /\ detached[i] = 0
                    /\ map[i] = None /\ failLog[i] = << >> /\ fresh[i] = 0
  BY DEF Init
<1>4. \A b \in Bucket : bkt[b].lastRefill = Never /\ bkt[b].windowStart = Never /\ bkt[b].lastSeen = 0
  BY DEF Init, Blank
<1>5. now = 0 /\ \A w \in Worker : req[w].b = None
  BY IdleOK DEF Init
<1>6. Times
  BY <1>3, <1>4, <1>5 DEF Times, Clocked, Never
<1>7. None \notin Bucket /\ LogLength \in Nat
  BY LimiterAssumption
<1>8. \A b \in Bucket, i \in IP : ~Of(b, i)
  BY <1>3, <1>5, <1>7 DEF Of
<1>9. Owned /\ Counted
  BY <1>8 DEF Owned, Counted
<1>10. BanJustified
  BY DEF Init, BanJustified, NoTrip
<1>11. ASSUME NEW i \in IP PROVE Paced(i) /\ Logged(i) /\ Passed(i)
  <2>1. Debt(i) = 0
    BY <1>3, FullOK DEF Debt, Owing
  <2>2. Paced(i)
    BY <1>3, <2>1 DEF Paced, Drawn
  <2>3. Len(failLog[i]) = 0
    BY <1>3
  <2>4. Logged(i)
    BY <1>3, <1>7, <2>3 DEF Logged
  <2>5. Passed(i)
    BY <1>3, <1>5 DEF Passed
  <2> QED BY <2>2, <2>4, <2>5
<1> QED BY <1>1, <1>2, <1>6, <1>9, <1>10, <1>11 DEF Inv

\* Steps of a worker that only move its request, or of the clock, the
\* administrator and the sweep's test.
LEMMA MoveCalm ==
    ASSUME Inv, NEW w \in Worker, req' \in [Worker -> Request], Stages', req'[w].b = None,
           \A v \in Worker \ {w} : req'[v] = req[v],
           UNCHANGED <<now, policies, map, bkt, sweep, ideal, detached, failLog, fresh, lastTrip>>
    PROVE  Calm
<1>1. now \in Nat /\ policies \in Policies /\ sweep \in IP \cup {None} /\ now <= now
  BY DEF Inv, Typed
<1> QED BY <1>1 DEF Calm

\* and no step breaks it.
LEMMA InvStep == Inv /\ [Next]_vars => Inv'
<1> SUFFICES ASSUME Inv, [Next]_vars PROVE Inv'
  OBVIOUS
<1>0. /\ Typed /\ Stages /\ Times /\ now \in Nat /\ policies \in Policies /\ sweep \in IP \cup {None}
      /\ req \in [Worker -> Request]
  BY DEF Inv, Typed
<1>1. ASSUME NEW w \in Worker, NEW i \in IP, NEW pc \in {"allow", "tier", "count"},
             bucketFor(w, i, pc),
             UNCHANGED <<now, policies, sweep, ideal, detached, failLog, fresh, lastTrip>>
      PROVE  Inv'
  <2>1. Calm \/ \E b \in Bucket : Create(w, i, b)
    BY <1>0, <1>1, BucketFor
  <2> QED BY <2>1, CalmInv, CreateInv
<1>2. ASSUME NEW w \in Worker, NEW i \in IP, Arrive(w, i) PROVE Inv'
  BY <1>1, <1>2 DEF Arrive
<1>3. ASSUME NEW w \in Worker, NEW i \in IP, OtherFailure(w, i) PROVE Inv'
  <2>1. PICK q : q = [pc |-> "failed", ip |-> i, b |-> None]
    OBVIOUS
  <2>2. q \in Request /\ q.pc = "failed" /\ q.ip = i /\ q.b = None
    BY <2>1 DEF Request, PC
  <2>3. Stage(q) /\ req' = [req EXCEPT ![w] = q]
    BY <1>3, <2>1, <2>2 DEF Stage, OtherFailure
  <2>4. req' \in [Worker -> Request] /\ Stages'
    BY <1>0, <2>2, <2>3, LetGo
  <2>5. req'[w].b = None /\ \A v \in Worker \ {w} : req'[v] = req[v]
    BY <1>0, <2>2, <2>3
  <2> QED BY <1>3, <2>4, <2>5, MoveCalm, CalmInv DEF OtherFailure
<1>4. ASSUME NEW w \in Worker, Allow(w) PROVE Inv'
  BY <1>0, <1>4, AllowTouches, TouchInv
<1>5. ASSUME NEW w \in Worker, Serve(w) PROVE Inv'
  <2>1. req' = [req EXCEPT ![w] = IdleReq]
    BY <1>5 DEF Serve
  <2>2. req' \in [Worker -> Request] /\ Stages'
    BY <1>0, <2>1, LetGo, IdleOK
  <2>3. req'[w].b = None /\ \A v \in Worker \ {w} : req'[v] = req[v]
    BY <1>0, <2>1, IdleOK
  <2> QED BY <1>5, <2>2, <2>3, MoveCalm, CalmInv DEF Serve
<1>6. ASSUME NEW w \in Worker, Deny(w) PROVE Inv'
  <2>1. req[w].pc # "idle" /\ Goto(w, "failed")
    BY <1>6 DEF Deny
  <2>2. /\ req' \in [Worker -> Request] /\ Stages' /\ req'[w].b = None
        /\ \A v \in Worker \ {w} : req'[v] = req[v]
    BY <1>0, <2>1, GotoOK
  <2> QED BY <1>6, <2>2, MoveCalm, CalmInv DEF Deny
<1>7. ASSUME NEW w \in Worker, Authenticate(w) PROVE Inv'
  <2>1. req[w].ip \in IP
    BY <1>0, <1>7 DEF Authenticate, Stages, Stage
  <2> QED BY <1>1, <1>7, <2>1 DEF Authenticate
<1>8. ASSUME NEW w \in Worker, NEW t \in Tier, SetTier(w, t) PROVE Inv'
  BY <1>0, <1>8, SetTierTouches, TouchInv
<1>9. ASSUME NEW w \in Worker, FailureBegins(w) PROVE Inv'
  <2>1. req[w].ip \in IP
    BY <1>0, <1>9 DEF FailureBegins, Stages, Stage
  <2> QED BY <1>1, <1>9, <2>1 DEF FailureBegins
<1>10. ASSUME NEW w \in Worker, RecordFailure(w) PROVE Inv'
  BY <1>0, <1>10, FailureTouches, TouchInv
<1>11. ASSUME NEW i \in IP, SweepTest(i) PROVE Inv'
  <2>1. Calm
    BY <1>0, <1>11 DEF SweepTest, Calm, Stages
  <2> QED BY <2>1, CalmInv
<1>12. ASSUME SweepDelete PROVE Inv'
  BY <1>12, SweepInv
<1>13. ASSUME NEW p \in Policies, ReloadPolicies(p) PROVE Inv'
  <2>1. Calm
    BY <1>0, <1>13 DEF ReloadPolicies, Calm, Stages
  <2> QED BY <2>1, CalmInv
<1>14. ASSUME Tick PROVE Inv'
  <2>1. Calm
    BY <1>0, <1>14 DEF Tick, Calm, Stages
  <2> QED BY <2>1, CalmInv
<1>15. ASSUME UNCHANGED vars PROVE Inv'
  <2>1. Calm
    BY <1>0, <1>15 DEF vars, Calm, Stages
  <2> QED BY <2>1, CalmInv
<1> QED BY <1>2, <1>3, <1>4, <1>5, <1>6, <1>7, <1>8, <1>9, <1>10, <1>11, <1>12, <1>13, <1>14,
           <1>15 DEF Next

\* The inductive invariant holds throughout.
LEMMA InvInvariant == Spec => []Inv
<1>1. Init => Inv
  BY InitInv
<1> QED BY <1>1, InvStep, PTL DEF Spec

\* RateBound: no tiers, policies, policy changes, evictions and races between
\* them admit an address more often than a bucket that is never evicted, but
\* for a burst per bucket that sweepBuckets evicts while it is in use, or that
\* is filled anew under a policy that refills its burst slower than Idle.
THEOREM RateIsBounded == Spec => []RateBound
<1>1. Inv => RateBound
  BY DEF Inv, Paced, Debt, Owing, Full, RateBound
<1> QED BY <1>1, InvInvariant, PTL

\* BanJustified: an automatic ban of RecordFailure has the failures behind it
\* that the policy in force demands.
THEOREM BansAreJustified == Spec => []BanJustified
<1>1. Inv => BanJustified
  BY DEF Inv
<1> QED BY <1>1, InvInvariant, PTL

\* BanBound: without a ban, at most twice (threshold - 1) failures of an address
\* fit into the time of a window.
THEOREM FailuresAreBounded == Spec => []BanBound
<1>1. Inv => BanBound
  BY PassedBound DEF Inv, Basics, BanBound
<1> QED BY <1>1, InvInvariant, PTL
=============================================================================

------------------------------ MODULE RateLimiter ------------------------------
(***************************************************************************)
(* The token bucket per caller, in memory (infra/rate-limiter.ts) and in   *)
(* Redis (the script of adapters/redis/rate-limiter.ts, which runs without *)
(* interruption for any number of servers).                                *)
(*                                                                         *)
(* Time is counted in ticks, which are the code's milliseconds, and tokens *)
(* in small parts: a request costs Token parts and a tick brings Rate of   *)
(* them.  The code adds and divides doubles: each refill, and each number  *)
(* of seconds it tells a refused caller, is off by up to Rounding parts.   *)
(* (To take one token off a double that holds one is exact.)               *)
(***************************************************************************)
EXTENDS Integers

CONSTANTS
  Identities,     \* hashes of API keys
  Servers,        \* servers that share the buckets
  Skew,           \* per server: how far its clock is ahead
  MaxSkew,        \* the largest of them
  Distributed,    \* are the buckets in Redis?
  Window,         \* ticks of a window
  MaxRequests,    \* requests per window
  Grain,          \* parts: a token has Window * Grain of them
  Rounding,       \* parts by which a computation with doubles may be off
  Second,         \* ticks of a second
  CleanupEvery,   \* requests between two cleanups
  MaxTime         \* bound: ticks

ASSUME LimitAssumption ==
  /\ Window \in Nat \ {0} /\ MaxRequests \in Nat \ {0} /\ Second \in Nat \ {0}
  /\ CleanupEvery \in Nat \ {0} /\ MaxTime \in Nat /\ Grain \in Nat \ {0}

\* Clocks are kept closer than two windows: a bucket that idled for three is full.
ASSUME SkewAssumption ==
  /\ MaxSkew \in Nat /\ MaxSkew <= 2 * Window
  /\ Skew \in [Servers -> 0..MaxSkew]

Token   == Window * Grain
Rate    == MaxRequests * Grain
Full    == MaxRequests * Token
MaxIdle == 3 * Window                     \* maxIdleWindows is never set

\* The longest wait a refused caller is told, in ticks.
MaxWait == Second * ((Token + Rounding) \div (Rate * Second) + 1)

\* What roundings can add up to in the longest wait is less than a tick brings.  With
\* doubles that is far from tight: 60 requests a minute bring 10^-3 tokens a tick, and
\* a refill is off by some 10^-14 of them.
ASSUME RoundingAssumption == Rounding \in Nat /\ Rounding * (MaxWait + 2) <= Rate

VARIABLES
  buckets,   \* per identity: its bucket
  uses,      \* requests since the last cleanup
  now,       \* true time
  level,     \* per identity: what was granted and has not drained yet (history)
  retryAt    \* per identity: when it was told to come back (history)

vars == <<buckets, uses, now, level, retryAt>>

Absent  == [ tokens |-> Full, refilled |-> -1, seen |-> -1 ]
Bucket  == [ tokens : 0..Full, refilled : 0..(MaxTime + MaxSkew), seen : 0..MaxTime ]
Never   == -1

Init ==
  /\ buckets = [ i \in Identities |-> Absent ]
  /\ uses    = 0
  /\ now     = 0
  /\ level   = [ i \in Identities |-> 0 ]
  /\ retryAt = [ i \in Identities |-> Never ]

-----------------------------------------------------------------------------

\* getOrCreateBucket.  Redis forgets a key that was idle for MaxIdle.
Known(i) ==
  buckets[i] # Absent /\ (Distributed => now - buckets[i].seen < MaxIdle)

Found(i, clock) ==
  IF Known(i) THEN buckets[i] ELSE [ tokens |-> Full, refilled |-> clock, seen |-> now ]

Off == -Rounding .. Rounding

Gained(bucket, clock, e) == (clock - bucket.refilled) * Rate + e

Refilled_Uncapped(bucket, clock, e) ==                                             \* mutant
  IF clock <= bucket.refilled THEN bucket
  ELSE [bucket EXCEPT !.tokens = @ + Gained(bucket, clock, e), !.refilled = clock]
\* refillBucket, off by e: a clock that is behind refills nothing.
Refilled(bucket, clock, e) ==
  IF clock <= bucket.refilled THEN bucket
  ELSE LET tokens == bucket.tokens + Gained(bucket, clock, e)
       IN  [bucket EXCEPT !.tokens = IF tokens > Full THEN Full ELSE tokens, !.refilled = clock]

Affordable(tokens) == tokens >= Token

Shortest(seconds) == IF seconds < 1 THEN 1 ELSE seconds

RetrySeconds_RoundedDown(tokens, e) ==                                             \* mutant
  Shortest((Token - tokens + e) \div (Rate * Second))

\* secondsForTokens, off by e: whole seconds, rounded up, until one token is there.
RetrySeconds(tokens, e) ==
  LET perSecond == Rate * Second
  IN  Shortest((Token - tokens + e + perSecond - 1) \div perSecond)

\* cleanupIdleBuckets, on every CleanupEvery-th request.
Cleaned(all) ==
  IF ~ Distributed /\ (uses + 1) % CleanupEvery = 0
    THEN [ i \in Identities |-> IF now - all[i].seen > MaxIdle THEN Absent ELSE all[i] ]
    ELSE all

Consume(server, i) ==
  LET clock == now + Skew[server]
  IN \E e \in Off :
     LET bucket == [ Refilled(Found(i, clock), clock, e) EXCEPT !.seen = now ]
     IN
      /\ \/ /\ Affordable(bucket.tokens)
            /\ buckets' = Cleaned([buckets EXCEPT ![i] = [bucket EXCEPT !.tokens = @ - Token]])
            /\ level' = [level EXCEPT ![i] = @ + Token]
            /\ retryAt' = [retryAt EXCEPT ![i] = Never]
         \/ /\ ~ Affordable(bucket.tokens)
            /\ buckets' = Cleaned([buckets EXCEPT ![i] = bucket])
            /\ \E f \in Off :
                 retryAt' = [retryAt EXCEPT ![i] =
                   IF @ = Never THEN now + Second * RetrySeconds(bucket.tokens, f) ELSE @]
            /\ UNCHANGED level
      /\ uses' = (uses + 1) % CleanupEvery
      /\ UNCHANGED now

\* What a tick may refill at most.
Drain == Rate + Rounding

Tick ==
  /\ now < MaxTime
  /\ now' = now + 1
  /\ level' = [ i \in Identities |->
                  IF level[i] > Drain THEN level[i] - Drain ELSE 0 ]
  /\ UNCHANGED <<buckets, uses, retryAt>>

Next == Tick \/ \E server \in Servers, i \in Identities : Consume(server, i)

Spec == Init /\ [][Next]_vars

-----------------------------------------------------------------------------
(* Properties *)

TypeOK ==
  /\ buckets \in [Identities -> Bucket \cup {Absent}]
  /\ uses    \in 0..(CleanupEvery - 1)
  /\ now     \in 0..MaxTime
  /\ level   \in [Identities -> Nat]
  /\ retryAt \in [Identities -> {Never} \cup Nat]

\* No interval, wherever it begins, sees more requests of one caller than a full
\* bucket and what its length refills, clocks' differences and roundings included,
\* although buckets are dropped and made again.  A meter that each request fills by
\* its cost and that drains as fast as buckets may refill holds, at every moment, the
\* largest excess of an interval that ends there.
QuotaHolds ==
  \A i \in Identities : level[i] <= Full + Drain * MaxSkew

WouldBeGranted(i) ==
  \A e \in Off : Affordable(Refilled(Found(i, now), now, e).tokens)

\* A caller that comes back later than it was told, if only by a millisecond, is not
\* refused, however often it asked too early and whatever was rounded meanwhile.
RetryAfterIsEnough ==
  \A i \in Identities :
    retryAt[i] # Never /\ now > retryAt[i] => WouldBeGranted(i)

\* At the very millisecond it was told, it may be refused once more: the sum of what
\* the early requests refilled may be just short of a token.
RetryAfterIsExact ==
  \A i \in Identities :
    retryAt[i] # Never /\ now >= retryAt[i] => WouldBeGranted(i)
=============================================================================

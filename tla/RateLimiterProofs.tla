--------------------------- MODULE RateLimiterProofs ---------------------------
(* Proofs about RateLimiter: the quota holds for every window, limit, number of *)
(* callers and servers, and every difference of clocks the assumption allows;   *)
(* where clocks agree, whoever waits longer than told is let through.           *)
EXTENDS RateLimiter, TLAPS

\* What a bucket was refilled and has not given away, beyond what true time refills.
\* It bounds the meter of its caller, and only a refill that hits the cap changes it.
Given(bucket, time) ==
  Full - bucket.tokens + Drain * (bucket.refilled - time)

BucketOK(bucket) ==
  /\ bucket \in Bucket
  /\ bucket.refilled <= bucket.seen + MaxSkew
  /\ bucket.seen <= now

Metered(i) ==
  IF buckets[i] = Absent
    THEN level[i] = 0
    ELSE /\ BucketOK(buckets[i])
         /\ level[i] = 0 \/ level[i] <= Given(buckets[i], now)

IInv ==
  /\ now \in 0..MaxTime
  /\ DOMAIN buckets = Identities
  /\ level \in [Identities -> Nat]
  /\ \A i \in Identities : buckets[i] = Absent \/ buckets[i] \in Bucket
  /\ \A i \in Identities : Metered(i)

\* The capacity of a bucket is a whole number of parts, and a request fits into it.
\* What a bucket may refill while it idles, clocks' differences off, fills it.
LEMMA FullFacts ==
  /\ Full \in Nat /\ Token \in Nat \ {0} /\ Token <= Full
  /\ Rate \in Nat \ {0} /\ Rounding \in Nat /\ Rounding <= Rate
  /\ Drain \in Nat \ {0} /\ Drain = Rate + Rounding
  /\ Drain * MaxSkew \in Nat
  /\ Drain * (MaxSkew - MaxIdle) <= - Full
<1>1. Token \in Nat \ {0} /\ Rate \in Nat \ {0}
  BY LimitAssumption DEF Token, Rate
<1>2. Full \in Nat /\ Token <= Full
  BY <1>1, LimitAssumption DEF Full
<1>3. Rounding \in Nat /\ Rounding <= Rate
  <2>1. Rounding \in Nat /\ Rounding * (MaxWait + 2) <= Rate
    BY RoundingAssumption
  <2>2. MaxWait \in Nat
    <3>1. Token + Rounding \in Nat /\ Rate * Second \in Nat \ {0}
      BY <1>1, <2>1, LimitAssumption
    <3>2. (Token + Rounding) \div (Rate * Second) \in Nat
      BY <3>1
    <3> QED
      BY <3>2, LimitAssumption DEF MaxWait
  <2>3. Rounding <= Rounding * (MaxWait + 2)
    BY <2>1, <2>2
  <2>4. Rounding * (MaxWait + 2) \in Nat
    BY <2>1, <2>2
  <2> QED
    BY <2>1, <2>3, <2>4, <1>1
<1>4. Drain \in Nat \ {0} /\ Drain = Rate + Rounding
  BY <1>1, <1>3 DEF Drain
<1>5. Drain * MaxSkew \in Nat
  BY <1>4, SkewAssumption
<1>6. Drain * (MaxSkew - MaxIdle) <= - Full
  <2>1. MaxSkew - MaxIdle \in Int /\ MaxSkew - MaxIdle <= - Window
    BY LimitAssumption, SkewAssumption DEF MaxIdle
  <2>2. Drain * (MaxSkew - MaxIdle) <= Drain * (- Window)
    BY <2>1, <1>4, LimitAssumption
  <2>3. Drain * (- Window) <= - (Rate * Window)
    BY <1>1, <1>3, <1>4, LimitAssumption
  <2>4. Rate * Window = Full
    BY LimitAssumption DEF Full, Token, Rate
  <2>5. Drain * (MaxSkew - MaxIdle) \in Int /\ Drain * (- Window) \in Int
    BY <2>1, <1>4, LimitAssumption
  <2> QED
    BY <2>2, <2>3, <2>4, <2>5, <1>2
<1> QED
  BY <1>1, <1>2, <1>3, <1>4, <1>5, <1>6

\* Products keep order and distribute over sums and differences.
LEMMA Products ==
  ASSUME NEW k \in Nat, NEW a \in Int, NEW b \in Int
  PROVE  /\ k * a \in Int
         /\ k * (a + b) = k * a + k * b
         /\ k * (a - b) = k * a - k * b
         /\ a <= b => k * a <= k * b
<1>1. k * a \in Int
  OBVIOUS
<1>2. k * (a + b) = k * a + k * b
  OBVIOUS
<1>3. k * (a - b) = k * a - k * b
  OBVIOUS
<1>4. a <= b => k * a <= k * b
  OBVIOUS
<1> QED
  BY <1>1, <1>2, <1>3, <1>4

LEMMA DrainFacts ==
  ASSUME NEW a \in Int, NEW b \in Int
  PROVE  /\ Drain * a \in Int
         /\ Drain * (a + b) = Drain * a + Drain * b
         /\ Drain * (a - b) = Drain * a - Drain * b
         /\ a <= b => Drain * a <= Drain * b
BY FullFacts, Products

LEMMA RateFacts ==
  ASSUME NEW a \in Int, NEW b \in Int
  PROVE  /\ Rate * a \in Int
         /\ Rate * (a + b) = Rate * a + Rate * b
         /\ Rate * (a - b) = Rate * a - Rate * b
         /\ a <= b => Rate * a <= Rate * b
BY FullFacts, Products

\* Whatever is rounded, time that passed refills something, and at most Drain a tick.
LEMMA GainedFacts ==
  ASSUME NEW passed \in Nat, passed >= 1, NEW e \in Off
  PROVE  /\ passed * Rate + e \in Nat
         /\ passed * Rate + e <= Drain * passed
         /\ Drain * passed \in Nat
         /\ passed * Rate + e >= Rate * passed - Rounding * passed
         /\ Rounding * passed \in Nat
<1>1. Rate \in Nat /\ Rounding \in Nat /\ Rounding <= Rate /\ Drain = Rate + Rounding
  BY FullFacts
<1>2. e \in Int /\ - Rounding <= e /\ e <= Rounding
  BY <1>1 DEF Off
<1>3. Rate <= Rate * passed /\ Rounding <= Rounding * passed
  BY <1>1
<1>4. Drain * passed = Rate * passed + Rounding * passed
  BY <1>1
<1>5. Rate * passed \in Nat /\ Rounding * passed \in Nat /\ passed * Rate = Rate * passed
  BY <1>1
<1> QED
  BY <1>1, <1>2, <1>3, <1>4, <1>5

\* A bucket that nobody used for MaxIdle has no meter left to bound: to forget it
\* gives its caller nothing.
LEMMA IdleIsFree ==
  ASSUME IInv, NEW i \in Identities, buckets[i] # Absent,
         now - buckets[i].seen >= MaxIdle
  PROVE  level[i] = 0
<1> DEFINE b == buckets[i]
<1>1. /\ b \in Bucket /\ b.refilled <= b.seen + MaxSkew
      /\ level[i] = 0 \/ level[i] <= Given(b, now)
      /\ level[i] \in Nat
  BY DEF IInv, Metered, BucketOK
<1>2. /\ b.tokens \in 0..Full /\ b.refilled \in Int /\ b.seen \in Int /\ now \in Int
      /\ MaxIdle \in Int /\ MaxSkew \in Int
  BY <1>1, LimitAssumption, SkewAssumption DEF Bucket, IInv, MaxIdle
<1>3. PICK ahead \in Int : ahead = b.refilled - now
  BY <1>2
<1>4. PICK late \in Int : late = MaxSkew - MaxIdle
  BY <1>2
<1>5. ahead <= late
  BY <1>1, <1>2, <1>3, <1>4
<1>6. Drain * ahead <= Drain * late /\ Drain * ahead \in Int /\ Drain * late \in Int
  BY <1>5, DrainFacts
<1>7. Drain * late <= - Full
  BY <1>4, FullFacts
<1>8. Given(b, now) <= 0
  BY <1>2, <1>3, <1>6, <1>7, FullFacts DEF Given
<1>9. Given(b, now) \in Int
  BY <1>2, <1>3, <1>6, FullFacts DEF Given
<1> QED
  BY <1>1, <1>8, <1>9

\* The bucket a request works on, found or made, bounds the meter after its refill.
LEMMA RefillMeters ==
  ASSUME IInv, NEW i \in Identities, NEW server \in Servers,
         NEW clock, clock = now + Skew[server], NEW e \in Off,
         NEW bucket, bucket = [ Refilled(Found(i, clock), clock, e) EXCEPT !.seen = now ]
  PROVE  /\ BucketOK(bucket)
         /\ bucket.refilled >= now
         /\ level[i] <= Given(bucket, now)
<1> DEFINE f == Found(i, clock)
<1>1. /\ clock \in Int /\ now <= clock /\ clock <= now + MaxSkew
      /\ now \in 0..MaxTime /\ MaxTime \in Nat /\ MaxSkew \in Nat /\ level[i] \in Nat
  BY LimitAssumption, SkewAssumption DEF IInv
<1>2. /\ f \in Bucket /\ f.refilled <= now + MaxSkew
      /\ level[i] = 0 \/ level[i] <= Given(f, now)
  <2>1. CASE Known(i)
    <3>1. f = buckets[i] /\ buckets[i] # Absent
      BY <2>1 DEF Known, Found
    <3>2. BucketOK(f) /\ (level[i] = 0 \/ level[i] <= Given(f, now))
      BY <3>1 DEF IInv, Metered
    <3> QED
      BY <3>2, <1>1 DEF BucketOK, Bucket
  <2>2. CASE ~ Known(i)
    <3>1. f = [ tokens |-> Full, refilled |-> clock, seen |-> now ]
      BY <2>2 DEF Found
    <3>2. f \in Bucket
      BY <3>1, <1>1, FullFacts DEF Bucket
    <3>3. CASE buckets[i] = Absent
      BY <3>1, <3>2, <3>3, <1>1 DEF IInv, Metered
    <3>4. CASE buckets[i] # Absent
      <4>1. now - buckets[i].seen >= MaxIdle
        <5>1. buckets[i].seen \in Int
          BY <3>4 DEF IInv, Bucket
        <5>2. ~ (now - buckets[i].seen < MaxIdle)
          BY <2>2, <3>4 DEF Known
        <5> QED
          BY <5>1, <5>2, <1>1, LimitAssumption DEF MaxIdle
      <4>2. level[i] = 0
        BY <3>4, <4>1, IdleIsFree
      <4> QED
        BY <3>1, <3>2, <4>2, <1>1
    <3> QED
      BY <3>3, <3>4
  <2> QED
    BY <2>1, <2>2
<1>3. f.tokens \in 0..Full /\ f.refilled \in 0..(MaxTime + MaxSkew) /\ f.seen \in 0..MaxTime
  BY <1>2 DEF Bucket
<1>4. Full \in Nat
  BY FullFacts
<1>5. CASE clock <= f.refilled
  <2>1. Refilled(f, clock, e) = f
    BY <1>5 DEF Refilled
  <2>2. bucket = [f EXCEPT !.seen = now]
    BY <2>1
  <2>3. /\ bucket \in Bucket /\ bucket.tokens = f.tokens
        /\ bucket.refilled = f.refilled /\ bucket.seen = now
    BY <2>2, <1>1, <1>2 DEF Bucket
  <2>4. bucket.refilled >= now /\ BucketOK(bucket)
    BY <2>3, <1>1, <1>2, <1>3, <1>5 DEF BucketOK
  <2>5. Given(bucket, now) = Given(f, now)
    BY <2>3 DEF Given
  <2>6. Drain * (f.refilled - now) \in Nat
    BY <1>1, <1>3, <1>5, FullFacts
  <2>7. Given(f, now) >= 0
    BY <2>6, <1>3, <1>4 DEF Given
  <2> QED
    BY <2>4, <2>5, <2>7, <1>2
<1>6. CASE clock > f.refilled
  <2> DEFINE gained == Gained(f, clock, e)
             tokens == f.tokens + gained
             kept   == IF tokens > Full THEN Full ELSE tokens
  <2>1. Refilled(f, clock, e) = [f EXCEPT !.tokens = kept, !.refilled = clock]
    <3>1. ~ (clock <= f.refilled)
      BY <1>6, <1>1, <1>3
    <3> QED
      BY <3>1, <1>2 DEF Refilled, Bucket
  <2>2. bucket = [ tokens |-> kept, refilled |-> clock, seen |-> now ]
    BY <2>1, <1>2 DEF Bucket
  <2>3. PICK passed \in Nat : passed = clock - f.refilled /\ passed >= 1
    BY <1>1, <1>3, <1>6
  <2>4. gained \in Nat /\ gained <= Drain * passed /\ Drain * passed \in Nat
    BY <2>3, GainedFacts, <1>3 DEF Gained
  <2>5. kept \in 0..Full
    <3> HIDE DEF gained
    <3> QED
      BY <2>4, <1>3, <1>4
  <2>6. /\ bucket \in Bucket /\ bucket.tokens = kept
        /\ bucket.refilled = clock /\ bucket.seen = now
    BY <2>2, <2>5, <1>1 DEF Bucket
  <2>7. bucket.refilled >= now /\ BucketOK(bucket)
    BY <2>6, <1>1 DEF BucketOK
  <2>8. Drain * (clock - now) \in Nat
    BY <1>1, FullFacts
  <2>9. Given(bucket, now) >= 0 /\ Given(bucket, now) \in Int
    BY <2>6, <2>8, <2>5, <1>4 DEF Given
  <2>10. Given(bucket, now) >= Given(f, now)
    <3>1. Drain * passed = Drain * (clock - now) - Drain * (f.refilled - now)
      <4>1. passed = (clock - now) - (f.refilled - now)
        BY <1>1, <1>3, <2>3
      <4>2. clock - now \in Int /\ f.refilled - now \in Int
        BY <1>1, <1>3
      <4> QED
        BY <4>1, <4>2, DrainFacts
    <3>2. Drain * (f.refilled - now) \in Int
      BY <1>1, <1>3, FullFacts
    <3>3. kept <= f.tokens + Drain * passed
      <4> HIDE DEF gained
      <4> QED
        BY <2>4, <1>3, <1>4
    <3>4. kept <= f.tokens + (Drain * (clock - now) - Drain * (f.refilled - now))
      BY <3>1, <3>3
    <3>5. Full - kept + Drain * (clock - now) >= Full - f.tokens + Drain * (f.refilled - now)
      <4> HIDE DEF kept
      <4> QED
        BY <3>4, <3>2, <2>5, <2>8, <1>3, <1>4
    <3> QED
      BY <3>5, <2>6 DEF Given
  <2>11. Given(f, now) \in Int
    BY <1>1, <1>3, <1>4, FullFacts DEF Given
  <2> QED
    BY <2>7, <2>9, <2>10, <2>11, <1>1, <1>2
<1> QED
  BY <1>1, <1>3, <1>5, <1>6

\* A request keeps the bucket of its caller bounding the meter, and cleanup and
\* expiry only touch buckets of callers whose meter is empty.
LEMMA ConsumeMeters ==
  ASSUME IInv, NEW server \in Servers, NEW i \in Identities, Consume(server, i)
  PROVE  IInv'
<1> DEFINE clock     == now + Skew[server]
           made(e)   == [ Refilled(Found(i, clock), clock, e) EXCEPT !.seen = now ]
<1>a. PICK e \in Off :
         \/ /\ Affordable(made(e).tokens)
            /\ buckets' = Cleaned([buckets EXCEPT ![i] = [made(e) EXCEPT !.tokens = @ - Token]])
            /\ level' = [level EXCEPT ![i] = @ + Token]
         \/ /\ ~ Affordable(made(e).tokens)
            /\ buckets' = Cleaned([buckets EXCEPT ![i] = made(e)])
            /\ level' = level
  BY DEF Consume
<1> DEFINE bucket == made(e)
           after  == [ bucket EXCEPT !.tokens = @ - Token ]
<1>1. /\ BucketOK(bucket) /\ bucket.refilled >= now
      /\ level[i] <= Given(bucket, now)
  BY RefillMeters
<1>2. /\ bucket \in Bucket /\ bucket.tokens \in 0..Full /\ bucket.refilled \in Int
      /\ bucket.seen \in Int /\ Full \in Nat /\ now \in Int
  BY <1>1, FullFacts DEF BucketOK, Bucket, IInv
<1>3. Drain * (bucket.refilled - now) \in Int
  BY <1>2, FullFacts
<1>4. /\ now' = now /\ now \in 0..MaxTime /\ DOMAIN buckets = Identities
      /\ level \in [Identities -> Nat]
      /\ \A j \in Identities : Metered(j)
      /\ \A j \in Identities : buckets[j] = Absent \/ buckets[j] \in Bucket
  BY DEF Consume, IInv
<1>5. \E mine \in Bucket :
         /\ buckets' = Cleaned([buckets EXCEPT ![i] = mine])
         /\ level' \in [Identities -> Nat]
         /\ \A j \in Identities \ {i} : level'[j] = level[j]
         /\ BucketOK(mine) /\ level'[i] <= Given(mine, now)
  <2>1. CASE Affordable(bucket.tokens)
    <3>1. /\ buckets' = Cleaned([buckets EXCEPT ![i] = after])
          /\ level' = [level EXCEPT ![i] = @ + Token]
      BY <2>1, <1>a
    <3>2. bucket.tokens - Token \in 0..Full
      BY <2>1, <1>2, FullFacts DEF Affordable
    <3>3. /\ after \in Bucket /\ after.tokens = bucket.tokens - Token
          /\ after.refilled = bucket.refilled /\ after.seen = bucket.seen
      BY <3>2, <1>2 DEF Bucket
    <3>4. BucketOK(after)
      BY <3>3, <1>1 DEF BucketOK
    <3>5. Given(after, now) = Given(bucket, now) + Token
      <4> HIDE DEF after, bucket
      <4> QED
        BY <3>3, <1>2, <1>3, FullFacts DEF Given
    <3>6. level'[i] = level[i] + Token /\ level' \in [Identities -> Nat]
      BY <3>1, <1>4, FullFacts
    <3>7. Given(bucket, now) \in Int
      BY <1>2, <1>3 DEF Given
    <3>8. level'[i] <= Given(after, now)
      <4> HIDE DEF after, bucket
      <4> QED
        BY <3>5, <3>6, <3>7, <1>1, <1>4, FullFacts
    <3> QED
      BY <3>1, <3>3, <3>4, <3>6, <3>8, <1>4
  <2>2. CASE ~ Affordable(bucket.tokens)
    <3>1. buckets' = Cleaned([buckets EXCEPT ![i] = bucket]) /\ level' = level
      BY <2>2, <1>a
    <3> QED
      BY <3>1, <1>1, <1>2, <1>4
  <2> QED
    BY <2>1, <2>2
<1>6. PICK mine \in Bucket :
         /\ buckets' = Cleaned([buckets EXCEPT ![i] = mine])
         /\ level' \in [Identities -> Nat]
         /\ \A j \in Identities \ {i} : level'[j] = level[j]
         /\ BucketOK(mine) /\ level'[i] <= Given(mine, now)
  BY <1>5
<1> DEFINE all == [buckets EXCEPT ![i] = mine]
<1>7. \A j \in Identities : all[j] = IF j = i THEN mine ELSE buckets[j]
  BY <1>4
<1>8. DOMAIN buckets' = Identities
  BY <1>6, <1>4 DEF Cleaned
<1>9. ASSUME NEW j \in Identities
      PROVE  Metered(j)' /\ (buckets'[j] = Absent \/ buckets'[j] \in Bucket)
  <2>1. \/ buckets'[j] = all[j]
        \/ buckets'[j] = Absent /\ all[j] # Absent /\ now - all[j].seen > MaxIdle
    BY <1>6, <1>4 DEF Cleaned
  <2>2. CASE j = i
    <3>1. all[j] = mine /\ mine # Absent
      <4>1. mine.seen # -1 /\ Absent.seen = -1
        BY LimitAssumption DEF Bucket, Absent
      <4> QED
        BY <4>1, <1>7, <2>2
    <3>2. CASE buckets'[j] = mine
      <4>1. BucketOK(mine)' /\ level'[j] <= Given(mine, now)'
        BY <1>4, <1>6, <2>2 DEF BucketOK, Given
      <4> QED
        BY <3>1, <3>2, <4>1, <1>4, <1>6 DEF Metered
    <3>3. CASE buckets'[j] = Absent /\ now - mine.seen > MaxIdle
      <4>1. PICK ahead \in Int : ahead = mine.refilled - now
        BY <1>2 DEF Bucket
      <4>2. ahead <= MaxSkew - MaxIdle
        BY <3>3, <4>1, <1>2, <1>6, LimitAssumption, SkewAssumption DEF BucketOK, Bucket, MaxIdle
      <4>3. PICK late \in Int : late = MaxSkew - MaxIdle
        BY LimitAssumption, SkewAssumption DEF MaxIdle
      <4>4. /\ Drain * ahead <= Drain * late
            /\ Drain * ahead \in Int /\ Drain * late \in Int
        BY <4>2, <4>3, DrainFacts
      <4>5. Drain * ahead <= - Full
        BY <4>3, <4>4, FullFacts
      <4>6. Given(mine, now) <= 0 /\ Given(mine, now) \in Int
        BY <4>1, <4>4, <4>5, FullFacts DEF Given, Bucket
      <4>7. level'[j] = 0
        BY <4>6, <1>6, <2>2
      <4> QED
        BY <3>3, <4>7 DEF Metered
    <3> QED
      BY <2>1, <3>1, <3>2, <3>3
  <2>3. CASE j # i
    <3>1. all[j] = buckets[j] /\ level'[j] = level[j]
      BY <1>6, <1>7, <2>3
    <3>2. CASE buckets'[j] = buckets[j]
      <4>1. BucketOK(buckets[j])' <=> BucketOK(buckets[j])
        BY <3>2, <1>4 DEF BucketOK
      <4>2. Given(buckets[j], now)' = Given(buckets[j], now)
        BY <3>2, <1>4 DEF Given
      <4> QED
        BY <3>1, <3>2, <4>1, <4>2, <1>4 DEF Metered
    <3>3. CASE buckets'[j] = Absent /\ buckets[j] # Absent /\ now - buckets[j].seen > MaxIdle
      <4>1. now - buckets[j].seen >= MaxIdle
        BY <3>3, <1>2, <1>4, LimitAssumption DEF Bucket, MaxIdle
      <4>2. level[j] = 0
        BY <3>3, <4>1, IdleIsFree
      <4> QED
        BY <3>1, <3>3, <4>2 DEF Metered
    <3> QED
      BY <2>1, <3>1, <3>2, <3>3
  <2> QED
    BY <2>2, <2>3
<1> QED
  BY <1>4, <1>6, <1>8, <1>9 DEF IInv

\* While time passes the meter drains as fast as the bound of its bucket falls.
LEMMA TickMeters ==
  ASSUME IInv, Tick
  PROVE  IInv'
<1>1. /\ now \in 0..MaxTime /\ MaxTime \in Nat /\ Drain \in Nat \ {0}
      /\ level \in [Identities -> Nat]
  BY LimitAssumption, FullFacts DEF IInv
<1>2. now' = now + 1 /\ now' \in 0..MaxTime /\ buckets' = buckets
  BY <1>1 DEF Tick
<1>3. /\ level' \in [Identities -> Nat]
      /\ \A i \in Identities :
           level'[i] = IF level[i] > Drain THEN level[i] - Drain ELSE 0
  BY <1>1 DEF Tick
<1>4. ASSUME NEW i \in Identities
      PROVE  Metered(i)'
  <2>1. CASE buckets[i] = Absent
    BY <2>1, <1>1, <1>2, <1>3 DEF IInv, Metered
  <2>2. CASE buckets[i] # Absent
    <3> DEFINE b == buckets[i]
    <3>1. /\ BucketOK(b) /\ level[i] \in Nat
          /\ level[i] = 0 \/ level[i] <= Given(b, now)
      BY <2>2, <1>1 DEF IInv, Metered
    <3>2. b.tokens \in Int /\ b.refilled \in Int /\ b.seen \in Int /\ Full \in Int
      BY <3>1, FullFacts, SkewAssumption DEF BucketOK, Bucket
    <3>3. BucketOK(b)'
      BY <3>1, <3>2, <1>1, <1>2 DEF BucketOK
    <3>4. PICK ahead \in Int : ahead = b.refilled - now
      BY <3>2, <1>1
    <3>5. /\ Drain * (ahead - 1) = Drain * ahead - Drain
          /\ Drain * ahead \in Int
      BY <1>1, <3>4
    <3>6. Given(b, now)' = Given(b, now) - Drain /\ Given(b, now) \in Int
      <4>1. b.refilled - now' = ahead - 1
        BY <3>2, <3>4, <1>1, <1>2
      <4>2. Given(b, now)' = Full - b.tokens + Drain * (ahead - 1)
        BY <4>1, <1>2 DEF Given, Full
      <4>3. Given(b, now) = Full - b.tokens + Drain * ahead
        BY <3>4 DEF Given
      <4> QED
        BY <4>2, <4>3, <3>2, <3>5, <1>1
    <3>7. level'[i] = 0 \/ level'[i] <= Given(b, now)'
      BY <3>1, <3>6, <1>1, <1>3
    <3> QED
      BY <2>2, <3>3, <3>7, <1>2 DEF Metered
  <2> QED
    BY <2>1, <2>2
<1> QED
  BY <1>2, <1>3, <1>4 DEF IInv

\* The bound of each bucket on its caller's meter is an invariant.
THEOREM MetersHold == Spec => []IInv
<1>1. Init => IInv
  BY LimitAssumption DEF Init, IInv, Metered
<1>2. IInv /\ [Next]_vars => IInv'
  <2> SUFFICES ASSUME IInv, [Next]_vars
               PROVE  IInv'
    OBVIOUS
  <2>1. ASSUME NEW server \in Servers, NEW i \in Identities, Consume(server, i)
        PROVE  IInv'
    BY <2>1, ConsumeMeters
  <2>2. CASE Tick
    BY <2>2, TickMeters
  <2>3. CASE UNCHANGED vars
    BY <2>3 DEF vars, IInv, Metered, BucketOK, Given
  <2> QED
    BY <2>1, <2>2, <2>3 DEF Next
<1> QED
  BY <1>1, <1>2, PTL DEF Spec

\* For every limit, window, number of callers and servers, however their requests
\* interleave: no interval admits more than a full bucket, what the interval's length
\* refills and what the clocks differ by.
THEOREM QuotaIsKept == Spec => []QuotaHolds
<1>1. IInv => QuotaHolds
  <2> SUFFICES ASSUME IInv, NEW i \in Identities
               PROVE  level[i] <= Full + Drain * MaxSkew
    BY DEF QuotaHolds
  <2>1. level[i] \in Nat
    BY DEF IInv
  <2>2. CASE buckets[i] = Absent \/ level[i] = 0
    BY <2>2, FullFacts DEF IInv, Metered
  <2>3. CASE buckets[i] # Absent /\ level[i] # 0
    <3> DEFINE b == buckets[i]
    <3>1. BucketOK(b) /\ level[i] <= Given(b, now)
      BY <2>3 DEF IInv, Metered
    <3>2. b.tokens \in 0..Full /\ b.refilled \in Int /\ b.seen \in Int /\ now \in Int
      BY <3>1, SkewAssumption, LimitAssumption DEF BucketOK, Bucket, IInv
    <3>3. PICK ahead \in Int : ahead = b.refilled - now
      BY <3>2
    <3>4. ahead <= MaxSkew /\ MaxSkew \in Int
      BY <3>1, <3>2, <3>3, SkewAssumption DEF BucketOK
    <3>5. Drain * ahead <= Drain * MaxSkew /\ Drain * ahead \in Int
      BY <3>4, DrainFacts
    <3> QED
      BY <3>1, <3>2, <3>3, <3>5, <2>1, FullFacts DEF Given
  <2> QED
    BY <2>2, <2>3
<1> QED
  BY <1>1, MetersHold, PTL

-----------------------------------------------------------------------------
(* Retry-after *)

\* What a tick brings at least, and the first tick later than a caller was told.
Net    == Rate - Rounding
Due(i) == retryAt[i] + 1

\* When its caller comes later than told, a bucket holds a token: it was refused one,
\* nothing was taken from it since, and roundings took less than the extra tick brings.
Kept(tokens, left) == Affordable(tokens) \/ Affordable(tokens + Net * left)

Promised(i) ==
  retryAt[i] # Never /\ buckets[i] # Absent
    => Kept(buckets[i].tokens, Due(i) - buckets[i].refilled)

PromisesOK ==
  /\ retryAt \in [Identities -> {Never} \cup Nat]
  /\ \A i \in Identities : Promised(i)

LEMMA NetFacts ==
  /\ Net \in Nat
  /\ \A a, b \in Int : /\ Net * a \in Int
                       /\ Net * (a + b) = Net * a + Net * b
                       /\ a <= b => Net * a <= Net * b
<1>1. Net \in Nat
  BY FullFacts DEF Net
<1>2. ASSUME NEW a \in Int, NEW b \in Int
      PROVE  /\ Net * a \in Int
             /\ Net * (a + b) = Net * a + Net * b
             /\ a <= b => Net * a <= Net * b
  BY <1>1, Products
<1> QED
  BY <1>1, <1>2

\* The quotient and remainder of a division.
LEMMA Quotient ==
  ASSUME NEW n \in Nat, NEW d \in Nat \ {0}
  PROVE  /\ n \div d \in Nat
         /\ d * (n \div d) <= n
         /\ n < d * (n \div d + 1)
OBVIOUS

\* The seconds of a refusal are as many as bring what is missing, but for one rounding,
\* and no more than the longest wait.
LEMMA RetryIsEnough ==
  ASSUME NEW tokens \in Nat, tokens < Token, NEW f \in Off
  PROVE  /\ RetrySeconds(tokens, f) \in Nat
         /\ Kept(tokens, Second * RetrySeconds(tokens, f) + 1)
<1> DEFINE perSecond == Rate * Second
           missing   == Token - tokens + f
           exact     == (missing + perSecond - 1) \div perSecond
           most      == (Token + Rounding) \div perSecond + 1
           seconds   == RetrySeconds(tokens, f)
           wait      == Second * seconds
<1>1. /\ Rate \in Nat \ {0} /\ Rounding \in Nat /\ Rounding <= Rate /\ Token \in Nat
      /\ Second \in Nat \ {0} /\ perSecond \in Nat \ {0} /\ Rate <= perSecond
  <2>1. Rate \in Nat \ {0} /\ Rounding \in Nat /\ Rounding <= Rate /\ Token \in Nat /\ Second \in Nat \ {0}
    BY FullFacts, LimitAssumption
  <2> QED
    BY <2>1
<1>2. /\ missing \in Int /\ missing + perSecond - 1 \in Nat
      /\ Token - tokens - Rounding <= missing /\ missing <= Token + Rounding
  <2>1. f \in Int /\ - Rounding <= f /\ f <= Rounding
    BY <1>1 DEF Off
  <2> HIDE DEF perSecond
  <2> QED
    BY <1>1, <2>1
<1>3. exact \in Nat /\ perSecond * exact >= missing /\ perSecond * exact <= missing + perSecond - 1
  <2>1. PICK n \in Nat : n = missing + perSecond - 1
    BY <1>2
  <2>2. PICK d \in Nat \ {0} : d = perSecond
    BY <1>1
  <2>3. n \div d \in Nat /\ d * (n \div d) <= n /\ n < d * (n \div d + 1)
    BY Quotient
  <2>4. d * (n \div d + 1) = d * (n \div d) + d /\ d * (n \div d) \in Int
    BY <2>3
  <2>5. d * (n \div d) >= missing
    <3> HIDE DEF missing, perSecond
    <3> QED
      BY <2>1, <2>2, <2>3, <2>4, <1>1, <1>2
  <2> QED
    BY <2>1, <2>2, <2>3, <2>5
<1>4. most \in Nat /\ most >= 1 /\ Token + Rounding < perSecond * most
  <2>1. Token + Rounding \in Nat
    BY <1>1
  <2> HIDE DEF perSecond
  <2> QED
    BY <2>1, <1>1, Quotient
<1>5. seconds = IF exact < 1 THEN 1 ELSE exact
  BY DEF RetrySeconds, Shortest
<1> HIDE DEF perSecond, missing, exact, most, seconds
<1>6. exact <= most
  <2>1. PICK a \in Int : a = perSecond * exact
    BY <1>1, <1>3
  <2>2. PICK b \in Int : b = perSecond * most
    BY <1>1, <1>4
  <2>3. a < b + perSecond
    BY <2>1, <2>2, <1>1, <1>2, <1>3, <1>4
  <2>4. ~ (exact >= most + 1)
    <3> SUFFICES ASSUME exact >= most + 1
                 PROVE  FALSE
      OBVIOUS
    <3>1. perSecond * exact >= perSecond * (most + 1)
      BY <1>1, <1>3, <1>4
    <3>2. perSecond * (most + 1) = b + perSecond
      BY <2>2, <1>1, <1>4
    <3> QED
      BY <2>1, <2>3, <3>1, <3>2, <1>1
  <2> QED
    BY <2>4, <1>3, <1>4
<1>7. seconds \in Nat /\ exact <= seconds /\ seconds <= most
  BY <1>3, <1>4, <1>5, <1>6
<1>8. Rate * wait = perSecond * seconds /\ Rate * wait >= missing /\ wait \in Nat
  <2>1. Rate * wait = perSecond * seconds
    BY <1>1, <1>7 DEF perSecond
  <2>2. perSecond * exact <= perSecond * seconds
    BY <1>1, <1>3, <1>7
  <2>3. perSecond * exact \in Int /\ perSecond * seconds \in Int /\ wait \in Nat
    BY <1>1, <1>3, <1>7
  <2> QED
    BY <2>1, <2>2, <2>3, <1>2, <1>3
<1>9. Rounding * (wait + 1) + Rounding <= Rate /\ Rounding * (wait + 1) \in Nat
  <2>1. MaxWait = Second * most
    BY DEF MaxWait, most, perSecond
  <2>2. wait <= MaxWait /\ MaxWait \in Nat
    BY <2>1, <1>1, <1>4, <1>7
  <2>3. Rounding * (wait + 2) <= Rounding * (MaxWait + 2)
    BY <2>2, <1>1, <1>8
  <2>4. Rounding * (wait + 2) = Rounding * (wait + 1) + Rounding
    BY <1>1, <1>8
  <2>5. Rounding * (wait + 1) \in Nat /\ Rounding * (MaxWait + 2) \in Nat
    BY <2>2, <1>1, <1>8
  <2> QED
    BY <2>3, <2>4, <2>5, <1>1, RoundingAssumption
<1>10. Net * (wait + 1) = Rate * wait + Rate - Rounding * (wait + 1)
  BY <1>1, <1>8 DEF Net
<1>11. tokens + Net * (wait + 1) >= Token
  <2>1. Rate * wait \in Int
    BY <1>1, <1>8
  <2> HIDE DEF wait
  <2> QED
    BY <2>1, <1>1, <1>2, <1>8, <1>9, <1>10
<1> QED
  BY <1>7, <1>11 DEF Kept, Affordable, seconds

\* With exact clocks: a bucket that refills at a request keeps its promise.
LEMMA RefillKeepsPromise ==
  ASSUME MaxSkew = 0, IInv, PromisesOK, NEW i \in Identities, retryAt[i] # Never, NEW e \in Off,
         NEW bucket, bucket = [ Refilled(Found(i, now), now, e) EXCEPT !.seen = now ]
  PROVE  /\ Kept(bucket.tokens, Due(i) - now)
         /\ bucket.tokens \in Int /\ Refilled(Found(i, now), now, e).tokens = bucket.tokens
<1>1. /\ now \in Nat /\ Full \in Nat /\ Token <= Full /\ Token \in Nat
      /\ retryAt[i] \in Nat /\ Due(i) \in Nat
  BY FullFacts, LimitAssumption DEF IInv, PromisesOK, Due
<1>2. CASE ~ Known(i)
  <2>1. Found(i, now) = [ tokens |-> Full, refilled |-> now, seen |-> now ]
    BY <1>2 DEF Found
  <2>2. Refilled(Found(i, now), now, e) = Found(i, now)
    BY <2>1, <1>1 DEF Refilled
  <2>3. bucket.tokens = Full /\ Refilled(Found(i, now), now, e).tokens = Full
    BY <2>1, <2>2
  <2> QED
    BY <2>3, <1>1 DEF Kept, Affordable
<1>3. CASE Known(i)
  <2> DEFINE b == buckets[i]
  <2>1. Found(i, now) = b /\ b # Absent
    BY <1>3 DEF Known, Found
  <2>2. b \in Bucket /\ BucketOK(b)
    BY <2>1 DEF IInv, Metered, BucketOK
  <2>3. b.tokens \in Nat /\ b.refilled \in Nat /\ b.refilled <= now
    BY <2>2, <1>1, FullFacts, LimitAssumption DEF BucketOK, Bucket
  <2>4. Kept(b.tokens, Due(i) - b.refilled)
    BY <2>1 DEF PromisesOK, Promised
  <2>5. CASE now <= b.refilled
    <3>1. bucket = [b EXCEPT !.seen = now]
      BY <2>1, <2>5 DEF Refilled
    <3>2. bucket.tokens = b.tokens /\ Refilled(Found(i, now), now, e) = b
      BY <3>1, <2>1, <2>2, <2>5 DEF Bucket, Refilled
    <3>3. b.refilled = now
      BY <2>3, <2>5, <1>1
    <3> QED
      BY <3>2, <3>3, <2>3, <2>4
  <2>6. CASE ~ (now <= b.refilled)
    <3> DEFINE gained == Gained(b, now, e)
               tokens == b.tokens + gained
               kept   == IF tokens > Full THEN Full ELSE tokens
    <3>1. /\ bucket = [b EXCEPT !.tokens = kept, !.refilled = now, !.seen = now]
          /\ Refilled(Found(i, now), now, e) = [b EXCEPT !.tokens = kept, !.refilled = now]
      BY <2>1, <2>2, <2>6 DEF Refilled, Bucket
    <3>2. bucket.tokens = kept /\ Refilled(Found(i, now), now, e).tokens = kept
      BY <3>1, <2>2 DEF Bucket
    <3>3. PICK passed \in Nat : passed = now - b.refilled /\ passed >= 1
      BY <1>1, <2>3, <2>6
    <3>4. PICK left \in Int : left = Due(i) - now
      BY <1>1
    <3>5. gained \in Nat /\ gained >= Net * passed
      <4>1. /\ passed * Rate + e \in Nat
            /\ passed * Rate + e >= Rate * passed - Rounding * passed
        BY <3>3, GainedFacts
      <4>2. Net * passed = Rate * passed - Rounding * passed
        BY <3>3, FullFacts DEF Net
      <4> QED
        BY <4>1, <4>2, <3>3 DEF Gained
    <3>6. Net * (Due(i) - b.refilled) = Net * passed + Net * left
      <4>1. Due(i) - b.refilled = passed + left
        BY <3>3, <3>4, <1>1, <2>3
      <4> QED
        BY <4>1, NetFacts
    <3>7. Net * passed \in Int /\ Net * left \in Int
      BY NetFacts
    <3> HIDE DEF gained
    <3>8. Affordable(b.tokens) \/ Affordable(b.tokens + (Net * passed + Net * left))
      BY <2>4, <3>6 DEF Kept
    <3>9. kept \in Int /\ (Affordable(kept) \/ Affordable(kept + Net * left))
      BY <3>5, <3>7, <3>8, <2>3, <1>1 DEF Affordable
    <3> QED
      BY <3>2, <3>4, <3>9 DEF Kept
  <2> QED
    BY <2>5, <2>6
<1> QED
  BY <1>2, <1>3

\* A refusal promises what will be there, and a request that is granted ends the wait.
LEMMA ConsumeKeepsPromises ==
  ASSUME MaxSkew = 0, IInv, PromisesOK,
         NEW server \in Servers, NEW i \in Identities, Consume(server, i)
  PROVE  PromisesOK'
<1> DEFINE made(e) == [ Refilled(Found(i, now), now, e) EXCEPT !.seen = now ]
<1>1. now + Skew[server] = now /\ now \in Nat /\ now' = now
  BY SkewAssumption, LimitAssumption DEF IInv, Consume
<1>2. PICK e \in Off :
        \/ /\ Affordable(made(e).tokens)
           /\ buckets' = Cleaned([buckets EXCEPT ![i] = [made(e) EXCEPT !.tokens = @ - Token]])
           /\ retryAt' = [retryAt EXCEPT ![i] = Never]
        \/ /\ ~ Affordable(made(e).tokens)
           /\ buckets' = Cleaned([buckets EXCEPT ![i] = made(e)])
           /\ \E f \in Off :
                retryAt' = [retryAt EXCEPT ![i] =
                  IF @ = Never THEN now + Second * RetrySeconds(made(e).tokens, f) ELSE @]
  BY <1>1 DEF Consume
<1> DEFINE bucket == made(e)
           after  == [ bucket EXCEPT !.tokens = @ - Token ]
<1>3. /\ bucket \in Bucket /\ bucket.tokens \in Nat /\ bucket.refilled = now
  <2>1. BucketOK(bucket) /\ bucket.refilled >= now
    BY <1>1, RefillMeters
  <2> HIDE DEF bucket
  <2>2. bucket \in Bucket
    BY <2>1 DEF BucketOK
  <2> QED
    BY <2>1, <2>2, <1>1, FullFacts, LimitAssumption DEF BucketOK, Bucket
<1>4. retryAt \in [Identities -> {Never} \cup Nat] /\ DOMAIN buckets = Identities
  BY DEF PromisesOK, IInv
<1>5. \/ /\ Affordable(bucket.tokens)
         /\ buckets' = Cleaned([buckets EXCEPT ![i] = after])
         /\ retryAt' = [retryAt EXCEPT ![i] = Never]
      \/ /\ ~ Affordable(bucket.tokens)
         /\ buckets' = Cleaned([buckets EXCEPT ![i] = bucket])
         /\ \E f \in Off :
              retryAt' = [retryAt EXCEPT ![i] =
                IF @ = Never THEN now + Second * RetrySeconds(bucket.tokens, f) ELSE @]
  BY <1>2
<1>6. retryAt[i] # Never => Kept(bucket.tokens, Due(i) - now)
  BY RefillKeepsPromise
<1> HIDE DEF bucket, after, made
<1>7. ASSUME ~ Affordable(bucket.tokens), NEW f \in Off
      PROVE  /\ RetrySeconds(bucket.tokens, f) \in Nat
             /\ Kept(bucket.tokens, Second * RetrySeconds(bucket.tokens, f) + 1)
  <2>1. bucket.tokens < Token
    BY <1>3, <1>7, FullFacts DEF Affordable
  <2> QED
    BY <2>1, <1>3, RetryIsEnough
<1>8. retryAt' \in [Identities -> {Never} \cup Nat]
  <2>1. CASE Affordable(bucket.tokens)
    BY <2>1, <1>4, <1>5
  <2>2. CASE ~ Affordable(bucket.tokens)
    <3>1. PICK f \in Off :
            retryAt' = [retryAt EXCEPT ![i] =
              IF @ = Never THEN now + Second * RetrySeconds(bucket.tokens, f) ELSE @]
      BY <2>2, <1>5
    <3>2. now + Second * RetrySeconds(bucket.tokens, f) \in Nat
      BY <2>2, <1>1, <1>7, LimitAssumption
    <3> QED
      BY <3>1, <3>2, <1>4
  <2> QED
    BY <2>1, <2>2
<1>9. ASSUME NEW j \in Identities, j # i
      PROVE  Promised(j)'
  <2>1. retryAt'[j] = retryAt[j]
    BY <1>4, <1>5, <1>9
  <2>2. buckets'[j] = Absent \/ buckets'[j] = buckets[j]
    BY <1>4, <1>5, <1>9 DEF Cleaned
  <2>3. Promised(j)
    BY DEF PromisesOK
  <2> QED
    BY <2>1, <2>2, <2>3 DEF Promised, Due
<1>10. Promised(i)'
  <2>1. CASE Affordable(bucket.tokens)
    BY <2>1, <1>4, <1>5 DEF Promised
  <2>2. CASE ~ Affordable(bucket.tokens)
    <3>1. buckets'[i] = Absent \/ buckets'[i] = bucket
      BY <2>2, <1>4, <1>5 DEF Cleaned
    <3>2. CASE retryAt[i] = Never
      <4>1. PICK f \in Off : retryAt'[i] = now + Second * RetrySeconds(bucket.tokens, f)
        BY <2>2, <3>2, <1>4, <1>5
      <4>2. Second * RetrySeconds(bucket.tokens, f) \in Int
        BY <2>2, <1>7, LimitAssumption
      <4>3. Due(i)' - bucket.refilled = Second * RetrySeconds(bucket.tokens, f) + 1
        BY <4>1, <4>2, <1>1, <1>3 DEF Due
      <4>4. Kept(bucket.tokens, Due(i)' - bucket.refilled)
        BY <2>2, <4>3, <1>7
      <4> QED
        BY <3>1, <4>4 DEF Promised, Due
    <3>3. CASE retryAt[i] # Never
      <4>1. retryAt'[i] = retryAt[i]
        BY <2>2, <3>3, <1>4, <1>5
      <4>2. Kept(bucket.tokens, Due(i) - now)
        BY <3>3, <1>6
      <4> QED
        BY <3>1, <4>1, <4>2, <1>3 DEF Promised, Due
    <3> QED
      BY <3>2, <3>3
  <2> QED
    BY <2>1, <2>2
<1> QED
  BY <1>8, <1>9, <1>10 DEF PromisesOK

\* Where the clocks agree (one server, or none that is ahead), for every limit and
\* window, any requests in between and any rounding the assumption allows: a caller
\* that comes back later than it was told is not refused, though its idle bucket may
\* be dropped meanwhile.
THEOREM RetryAfterIsTrue == MaxSkew = 0 => (Spec => []RetryAfterIsEnough)
<1> SUFFICES ASSUME MaxSkew = 0
             PROVE  Spec => []RetryAfterIsEnough
  OBVIOUS
<1>1. Init => PromisesOK
  BY DEF Init, PromisesOK, Promised
<1>2. IInv /\ PromisesOK /\ [Next]_vars => PromisesOK'
  <2> SUFFICES ASSUME IInv, PromisesOK, [Next]_vars
               PROVE  PromisesOK'
    OBVIOUS
  <2>1. ASSUME NEW server \in Servers, NEW i \in Identities, Consume(server, i)
        PROVE  PromisesOK'
    BY <2>1, ConsumeKeepsPromises
  <2>2. CASE Tick
    BY <2>2 DEF Tick, PromisesOK, Promised, Due
  <2>3. CASE UNCHANGED vars
    BY <2>3 DEF vars, PromisesOK, Promised, Due
  <2> QED
    BY <2>1, <2>2, <2>3 DEF Next
<1>3. IInv /\ PromisesOK => RetryAfterIsEnough
  <2> SUFFICES ASSUME IInv, PromisesOK, NEW i \in Identities, retryAt[i] # Never, now > retryAt[i],
                      NEW e \in Off
               PROVE  Affordable(Refilled(Found(i, now), now, e).tokens)
    BY DEF RetryAfterIsEnough, WouldBeGranted
  <2> DEFINE bucket == [ Refilled(Found(i, now), now, e) EXCEPT !.seen = now ]
  <2>1. /\ Kept(bucket.tokens, Due(i) - now)
        /\ bucket.tokens \in Int /\ Refilled(Found(i, now), now, e).tokens = bucket.tokens
    BY RefillKeepsPromise
  <2> HIDE DEF bucket
  <2>2. Due(i) - now \in Int /\ Due(i) - now <= 0
    BY LimitAssumption DEF IInv, PromisesOK, Due
  <2>3. Net * (Due(i) - now) \in Int /\ Net * (Due(i) - now) <= Net * 0
    BY <2>2, NetFacts
  <2> QED
    BY <2>1, <2>3, FullFacts, NetFacts DEF Kept, Affordable
<1> QED
  BY <1>1, <1>2, <1>3, MetersHold, PTL DEF Spec
=============================================================================

-------------------------- MODULE RateLimiterProofs --------------------------
(***************************************************************************)
(* The token bucket's guarantee, for every limit, delay and set of callers.*)
(***************************************************************************)
EXTENDS RateLimiter, TLAPS

\* A call in flight asks for tokens and was stamped a short while ago.
InFlight(c) ==
    calls[c].pc = "sent" =>
        /\ calls[c].amount \in Nat
        /\ calls[c].now_ms <= clock
        /\ clock - calls[c].now_ms <= MaxDelay

\* Before its first use the bucket is absent; afterwards it stays until the
\* time it needs to refill, and Grace, has passed since its stamp.
Lifetime ==
    \/ bucket.ts + Minute + Grace <= bucket.expires
    \/ /\ bucket.expires = 0 /\ bucket.ts = 0
       /\ since = 0 /\ granted = 0 /\ rewound = 0

\* What was granted and what is left was either there or refilled.
Conserved ==
    bucket.tokens + granted <= capacity(Limit) + Limit * (bucket.ts - since + rewound)

BucketInv ==
    /\ TypeOK
    /\ bucket.ts <= clock
    /\ \A c \in Callers : InFlight(c)
    /\ Lifetime
    /\ Conserved

LEMMA CapacityNat ==
    capacity(Limit) \in Nat /\ Limit \in Nat /\ Minute \in Nat /\ Limit > 0
<1> QED BY CapacityAssumption DEF capacity

LEMMA IdleCall == idle \in Call
<1> QED BY CapacityNat DEF idle, Call

LEMMA Distribute ==
    /\ \A x, y \in Int : Limit * (x + y) = Limit * x + Limit * y
    /\ \A x \in Int : Limit * x \in Int
    /\ \A x \in Nat : Limit * x \in Nat
<1> QED BY CapacityAssumption

LEMMA QuotientNat == \A d \in Nat, l \in 1 .. Limit : d \div l \in Nat
<1> QED BY CapacityAssumption

\* A lower limit has a smaller bucket and refills more slowly.
LEMMA LowerLimit ==
    ASSUME NEW l \in 1 .. Limit, NEW x \in Nat
    PROVE  x * l \in Nat /\ x * l <= Limit * x
<1>1. Limit - l \in Nat /\ Limit \in Nat
  BY CapacityNat
<1>2. Limit * x = l * x + (Limit - l) * x /\ (Limit - l) * x \in Nat
  BY <1>1
<1>3. x * l = l * x /\ l * x \in Nat
  BY <1>1
<1> QED BY <1>2, <1>3

LEMMA LowerCapacity ==
    ASSUME NEW l \in 1 .. Limit
    PROVE  capacity(l) \in Nat /\ capacity(l) <= capacity(Limit)
<1>1. Minute \in Nat
  BY CapacityNat
<1>2. Minute * l \in Nat /\ Minute * l <= Limit * Minute
  BY <1>1, LowerLimit
<1>3. Minute * l = l * Minute
  BY <1>1, CapacityNat
<1> QED BY <1>2, <1>3 DEF capacity

\* What the script finds is at most a full bucket, at most the old content and
\* the refill of the time that passed, and the old content if none did.
LEMMA RefillBounds ==
    ASSUME NEW t \in Nat, NEW ts \in Nat, NEW e \in Nat, NEW now_ms \in Nat,
           NEW l \in 1 .. Limit
    PROVE  LET r == refill([tokens |-> t, ts |-> ts, expires |-> e], now_ms, l)
           IN  /\ r \in Nat /\ r <= capacity(Limit)
               /\ now_ms >= ts => r <= t + Limit * (now_ms - ts)
               /\ now_ms < ts => r <= t
<1> DEFINE gap == Max2(0, now_ms - ts)
           r == refill([tokens |-> t, ts |-> ts, expires |-> e], now_ms, l)
<1>1. gap \in Nat /\ (now_ms >= ts => gap = now_ms - ts) /\ (now_ms < ts => gap = 0)
  BY DEF Max2
<1>2. r = Min2(capacity(l), t + gap * l)
  BY DEF refill
<1> HIDE DEF gap, r
<1>3. gap * l \in Nat /\ gap * l <= Limit * gap /\ (gap = 0 => gap * l = 0)
  BY <1>1, LowerLimit
<1>4. capacity(l) \in Nat /\ capacity(l) <= capacity(Limit)
  BY LowerCapacity
<1>5. r \in Nat /\ r <= capacity(Limit) /\ r <= t + gap * l
  BY <1>2, <1>3, <1>4, CapacityNat DEF Min2
<1>6. now_ms >= ts => r <= t + Limit * (now_ms - ts)
  <2> SUFFICES ASSUME now_ms >= ts PROVE r <= t + Limit * (now_ms - ts)
    OBVIOUS
  <2>1. gap = now_ms - ts /\ Limit * gap \in Nat
    BY <1>1, Distribute
  <2>2. r <= t + Limit * gap
    BY <1>3, <1>5, <2>1
  <2> QED BY <2>1, <2>2
<1>7. now_ms < ts => r <= t
  BY <1>1, <1>3, <1>5
<1> QED BY <1>5, <1>6, <1>7 DEF r

\* The script as a relation between what it found, took and left.
LEMMA ScriptEffect ==
    ASSUME BucketInv, NEW c \in Callers, Script(c)
    PROVE  \E tokens, taken \in Nat, answer \in Call :
             /\ answer.pc # "sent"
             /\ calls[c].now_ms <= clock /\ clock - calls[c].now_ms <= MaxDelay
             /\ tokens <= capacity(Limit) /\ taken <= tokens
             /\ clock < bucket.expires =>
                  /\ calls[c].now_ms >= bucket.ts =>
                        tokens <= bucket.tokens + Limit * (calls[c].now_ms - bucket.ts)
                  /\ calls[c].now_ms < bucket.ts => tokens <= bucket.tokens
             /\ bucket' = [tokens |-> tokens - taken, ts |-> calls[c].now_ms,
                           expires |-> clock + Minute + Grace]
             /\ calls' = [k \in Callers |-> IF k = c THEN answer
                                   ELSE [calls[k] EXCEPT !.retry = FALSE]]
             /\ \/ /\ granted' = granted + taken
                   /\ rewound' = rewound + Max2(0, bucket.ts - calls[c].now_ms)
                   /\ since' = since
                \/ granted' = taken /\ rewound' = 0 /\ since' = calls[c].now_ms
             /\ clock' = clock
<1> DEFINE now_ms == calls[c].now_ms
           limit == calls[c].limit
           b == IF clock < bucket.expires THEN bucket
                ELSE [bucket EXCEPT !.tokens = capacity(limit), !.ts = now_ms]
           cost == calls[c].amount * Minute
           tokens == refill(b, now_ms, limit)
           taken == IF tokens >= cost THEN cost ELSE 0
           answer == IF tokens >= cost THEN idle
                     ELSE [calls[c] EXCEPT !.pc = "denied", !.retry = TRUE,
                             !.retry_at = clock + retry_after_ms(cost - tokens, limit)]
<1>t. /\ clock \in Nat /\ now_ms \in Nat /\ calls[c].amount \in Nat /\ limit \in 1 .. Limit
      /\ now_ms <= clock /\ clock - now_ms <= MaxDelay
      /\ bucket.tokens \in Nat /\ bucket.ts \in Nat /\ bucket.expires \in Nat
      /\ bucket = [tokens |-> bucket.tokens, ts |-> bucket.ts, expires |-> bucket.expires]
  BY DEF BucketInv, TypeOK, Call, Bucket, InFlight, Script
<1>1. cost \in Nat
  BY <1>t, CapacityNat
<1>2. /\ tokens \in Nat /\ tokens <= capacity(Limit)
      /\ clock < bucket.expires =>
           /\ now_ms >= bucket.ts => tokens <= bucket.tokens + Limit * (now_ms - bucket.ts)
           /\ now_ms < bucket.ts => tokens <= bucket.tokens
  <2>1. CASE clock < bucket.expires
    <3>1. b = [tokens |-> bucket.tokens, ts |-> bucket.ts, expires |-> bucket.expires]
      BY <2>1, <1>t
    <3> HIDE DEF b
    <3> QED BY <3>1, <1>t, RefillBounds
  <2>2. CASE ~ (clock < bucket.expires)
    <3>1. b = [tokens |-> capacity(limit), ts |-> now_ms, expires |-> bucket.expires]
      BY <2>2, <1>t
    <3>2. capacity(limit) \in Nat
      BY <1>t, LowerCapacity
    <3> HIDE DEF b
    <3> QED BY <3>1, <3>2, <2>2, <1>t, RefillBounds
  <2> QED BY <2>1, <2>2
<1>s. /\ bucket' = [tokens |-> remaining(tokens, cost), ts |-> now_ms,
                    expires |-> clock + Minute + Grace]
      /\ calls' = [k \in Callers |-> IF k = c THEN answer
                                     ELSE [calls[k] EXCEPT !.retry = FALSE]]
      /\ \/ /\ granted' = granted + taken
            /\ rewound' = rewound + Max2(0, bucket.ts - now_ms)
            /\ since' = since
         \/ granted' = taken /\ rewound' = 0 /\ since' = now_ms
      /\ clock' = clock
  BY DEF Script
<1> HIDE DEF b, tokens, cost
<1>3. taken \in Nat /\ taken <= tokens /\ remaining(tokens, cost) = tokens - taken
  BY <1>1, <1>2 DEF remaining
<1>4. answer \in Call /\ answer.pc # "sent"
  <2>0. calls[c] \in Call
    BY DEF BucketInv, TypeOK
  <2>1. CASE tokens >= cost
    BY <2>1, IdleCall DEF idle
  <2>2. CASE ~ (tokens >= cost)
    <3> DEFINE at == clock + retry_after_ms(cost - tokens, limit)
    <3>1. cost - tokens \in Nat
      BY <2>2, <1>1, <1>2
    <3>2. at \in Nat
      BY <3>1, <1>t, QuotientNat, TimeAssumption DEF retry_after_ms
    <3>3. answer = [calls[c] EXCEPT !.pc = "denied", !.retry = TRUE, !.retry_at = at]
      BY <2>2
    <3> HIDE DEF at
    <3> QED BY <3>2, <3>3, <2>0 DEF Call
  <2> QED BY <2>1, <2>2
<1> HIDE DEF taken, answer, now_ms
<1>6. /\ now_ms <= clock /\ clock - now_ms <= MaxDelay
      /\ bucket' = [tokens |-> tokens - taken, ts |-> now_ms,
                    expires |-> clock + Minute + Grace]
  BY <1>t, <1>s, <1>3
<1>7. tokens \in Nat /\ taken \in Nat /\ answer \in Call
  BY <1>2, <1>3, <1>4
<1> USE <1>7
<1> WITNESS tokens \in Nat, taken \in Nat, answer \in Call
<1> QED BY <1>2, <1>3, <1>4, <1>6, <1>s DEF now_ms

LEMMA ScriptStep == ASSUME BucketInv, NEW c \in Callers, Script(c) PROVE BucketInv'
<1> DEFINE now_ms == calls[c].now_ms
<1>0. PICK tokens, taken \in Nat, answer \in Call :
        /\ answer.pc # "sent"
        /\ now_ms <= clock /\ clock - now_ms <= MaxDelay
        /\ tokens <= capacity(Limit) /\ taken <= tokens
        /\ clock < bucket.expires =>
             /\ now_ms >= bucket.ts => tokens <= bucket.tokens + Limit * (now_ms - bucket.ts)
             /\ now_ms < bucket.ts => tokens <= bucket.tokens
        /\ bucket' = [tokens |-> tokens - taken, ts |-> now_ms,
                      expires |-> clock + Minute + Grace]
        /\ calls' = [k \in Callers |-> IF k = c THEN answer
                                       ELSE [calls[k] EXCEPT !.retry = FALSE]]
        /\ \/ /\ granted' = granted + taken
              /\ rewound' = rewound + Max2(0, bucket.ts - now_ms)
              /\ since' = since
           \/ granted' = taken /\ rewound' = 0 /\ since' = now_ms
        /\ clock' = clock
  BY ScriptEffect
<1>t. /\ clock \in Nat /\ now_ms \in Nat /\ since \in Nat /\ granted \in Nat /\ rewound \in Nat
      /\ bucket.tokens \in Nat /\ bucket.ts \in Nat /\ bucket.expires \in Nat
      /\ calls \in [Callers -> Call] /\ Grace \in Nat /\ MaxDelay \in Nat /\ MaxDelay <= Grace
  BY TimeAssumption DEF BucketInv, TypeOK, Call, Bucket
<1>r. Max2(0, bucket.ts - now_ms) \in Nat
  BY <1>t DEF Max2
<1>c. /\ calls'[c] = answer
      /\ \A d \in Callers \ {c} : calls'[d] = [calls[d] EXCEPT !.retry = FALSE]
  BY <1>0
<1>1. TypeOK'
  <2>1. bucket' \in Bucket
    BY <1>0, <1>t, CapacityNat DEF Bucket
  <2>2. calls' \in [Callers -> Call]
    <3>1. \A d \in Callers : [calls[d] EXCEPT !.retry = FALSE] \in Call
      BY <1>t DEF Call
    <3> QED BY <3>1, <1>0
  <2> QED BY <2>1, <2>2, <1>0, <1>t, <1>r DEF TypeOK
<1>2. bucket'.ts <= clock'
  BY <1>0
<1>3. \A d \in Callers : InFlight(d)'
  <2> SUFFICES ASSUME NEW d \in Callers PROVE InFlight(d)'
    OBVIOUS
  <2>1. CASE d = c
    BY <2>1, <1>c, <1>0 DEF InFlight
  <2>2. CASE d # c
    <3>1. /\ calls'[d].pc = calls[d].pc /\ calls'[d].amount = calls[d].amount
          /\ calls'[d].now_ms = calls[d].now_ms
      <4>1. calls[d] \in Call /\ calls'[d] = [calls[d] EXCEPT !.retry = FALSE]
        BY <2>2, <1>c, <1>t
      <4> QED BY <4>1 DEF Call
    <3> QED BY <3>1, <1>0 DEF BucketInv, InFlight
  <2> QED BY <2>1, <2>2
<1>4. Lifetime'
  BY <1>0, <1>t, CapacityNat DEF Lifetime
<1>5. Conserved'
  <2>0. bucket'.tokens = tokens - taken /\ bucket'.ts = now_ms
    BY <1>0
  <2>1. CASE granted' = taken /\ rewound' = 0 /\ since' = now_ms
    <3>1. Limit * (bucket'.ts - since' + rewound') = 0
      BY <2>0, <2>1, <1>t, CapacityNat
    <3> QED BY <3>1, <2>0, <2>1, <1>0, CapacityNat DEF Conserved
  <2>2. CASE /\ granted' = granted + taken
             /\ rewound' = rewound + Max2(0, bucket.ts - now_ms)
             /\ since' = since
    <3> DEFINE old == bucket.ts - since + rewound
               new == now_ms - since + rewound'
    <3>0. old \in Int /\ new \in Int /\ Limit * old \in Int /\ Limit * new \in Int
      <4>1. old \in Int /\ new \in Int
        BY <1>t, <1>r, <2>2
      <4> HIDE DEF old, new
      <4> QED BY <4>1, Distribute
    <3>1. bucket.tokens + granted <= capacity(Limit) + Limit * old
      BY DEF BucketInv, Conserved
    <3>2. tokens + granted <= capacity(Limit) + Limit * new
      <4>1. CASE clock < bucket.expires /\ now_ms >= bucket.ts
        <5>1. new = old + (now_ms - bucket.ts) /\ now_ms - bucket.ts \in Nat
          BY <4>1, <2>2, <1>t DEF Max2
        <5>2. Limit * new = Limit * old + Limit * (now_ms - bucket.ts)
              /\ Limit * (now_ms - bucket.ts) \in Nat
          <6> HIDE DEF new, old
          <6> QED BY <5>1, <3>0, Distribute
        <5>3. tokens <= bucket.tokens + Limit * (now_ms - bucket.ts)
          BY <4>1, <1>0
        <5> HIDE DEF new, old
        <5> QED BY <5>2, <5>3, <3>0, <3>1, <1>t, CapacityNat
      <4>2. CASE clock < bucket.expires /\ now_ms < bucket.ts
        <5>1. new = old
          BY <4>2, <2>2, <1>t DEF Max2
        <5>2. tokens <= bucket.tokens
          BY <4>2, <1>0
        <5> HIDE DEF new, old
        <5> QED BY <5>1, <5>2, <3>0, <3>1, <1>t, CapacityNat
      <4>3. CASE ~ (clock < bucket.expires)
        <5>1. CASE bucket.ts + Minute + Grace <= bucket.expires
          <6>1. now_ms - bucket.ts - Minute \in Nat
            BY <5>1, <4>3, <1>0, <1>t, CapacityNat
          <6>2. new = old + (Minute + (now_ms - bucket.ts - Minute))
            BY <6>1, <2>2, <1>t, CapacityNat DEF Max2
          <6>3. Limit * (Minute + (now_ms - bucket.ts - Minute))
                  = capacity(Limit) + Limit * (now_ms - bucket.ts - Minute)
            BY <6>1, CapacityNat, Distribute DEF capacity
          <6>4. Limit * new = Limit * old + capacity(Limit) + Limit * (now_ms - bucket.ts - Minute)
                /\ Limit * (now_ms - bucket.ts - Minute) \in Nat
            <7> DEFINE rest == now_ms - bucket.ts - Minute
            <7> HIDE DEF rest, new, old
            <7>1. rest \in Nat /\ new = old + (Minute + rest)
                  /\ Limit * (Minute + rest) = capacity(Limit) + Limit * rest
              BY <6>1, <6>2, <6>3 DEF rest
            <7>2. Limit * rest \in Nat /\ Limit * new = Limit * old + Limit * (Minute + rest)
              BY <7>1, <3>0, CapacityNat, Distribute
            <7> QED BY <7>1, <7>2, <3>0, CapacityNat DEF rest
          <6> HIDE DEF new, old
          <6> QED BY <6>4, <3>0, <3>1, <1>0, <1>t, CapacityNat
        <5>2. CASE /\ bucket.expires = 0 /\ bucket.ts = 0
                   /\ since = 0 /\ granted = 0 /\ rewound = 0
          <6>1. new \in Nat
            BY <5>2, <2>2, <1>t, <1>r
          <6>2. Limit * new \in Nat
            BY <6>1, Distribute
          <6> HIDE DEF new
          <6> QED BY <6>2, <5>2, <1>0, CapacityNat
        <5> QED BY <5>1, <5>2 DEF BucketInv, Lifetime
      <4> QED BY <4>1, <4>2, <4>3, <1>t
    <3>3. bucket'.ts - since' + rewound' = new
      BY <2>0, <2>2
    <3>4. bucket'.tokens + granted' = tokens + granted
      BY <2>0, <2>2, <1>0, <1>t
    <3> HIDE DEF new
    <3> QED BY <3>2, <3>3, <3>4 DEF Conserved
  <2> QED BY <2>1, <2>2, <1>0
<1> QED BY <1>1, <1>2, <1>3, <1>4, <1>5 DEF BucketInv

LEMMA BucketStep == BucketInv /\ [Next]_vars => BucketInv'
<1> SUFFICES ASSUME BucketInv, [Next]_vars PROVE BucketInv'
  OBVIOUS
<1>t. TypeOK /\ clock \in Nat /\ calls \in [Callers -> Call] /\ MaxDelay \in Nat
  BY TimeAssumption DEF BucketInv, TypeOK
<1>u. ASSUME UNCHANGED <<bucket, since, granted, rewound>>
      PROVE  Lifetime' /\ Conserved'
  BY <1>u DEF BucketInv, Lifetime, Conserved
<1>1. CASE UNCHANGED vars
  BY <1>1, <1>u DEF vars, BucketInv, TypeOK, InFlight
<1>2. CASE Tick
  <2>1. TypeOK' /\ bucket'.ts <= clock'
    BY <1>2, <1>t DEF Tick, TypeOK, BucketInv, Bucket
  <2>2. \A c \in Callers : InFlight(c)'
    BY <1>2, <1>t DEF Tick, BucketInv, InFlight, Call
  <2> QED BY <2>1, <2>2, <1>2, <1>u DEF Tick, BucketInv
<1>3. ASSUME NEW c \in Callers, NEW amount \in Int, NEW limit \in 1 .. Limit,
             NEW retry \in BOOLEAN, consume(c, amount, limit, retry)
      PROVE  BucketInv'
  <2>1. TypeOK' /\ bucket'.ts <= clock'
    BY <1>3, <1>t, IdleCall DEF consume, TypeOK, BucketInv, Call
  <2>2. \A d \in Callers : InFlight(d)'
    BY <1>3, <1>t, CapacityNat DEF consume, BucketInv, InFlight, Call, idle
  <2> QED BY <2>1, <2>2, <1>3, <1>u DEF consume, BucketInv
<1>4. ASSUME NEW c \in Callers, Ask(c) PROVE BucketInv'
  BY <1>3, <1>4, AmountAssumption, CapacityAssumption DEF Ask
<1>5. ASSUME NEW c \in Callers, Retry(c) PROVE BucketInv'
  <2>1. calls[c].amount \in Int /\ calls[c].retry \in BOOLEAN
    BY <1>t DEF Call
  <2>2. PICK limit \in Limits :
          consume(c, calls[c].amount, limit, calls[c].retry /\ limit = calls[c].limit)
    BY <1>5 DEF Retry
  <2>3. limit \in 1 .. Limit /\ (calls[c].retry /\ limit = calls[c].limit) \in BOOLEAN
    BY CapacityAssumption
  <2> QED BY <2>1, <2>2, <2>3, <1>3
<1>6. ASSUME NEW c \in Callers, GiveUp(c) PROVE BucketInv'
  <2>1. TypeOK' /\ bucket'.ts <= clock'
    BY <1>6, <1>t, IdleCall DEF GiveUp, TypeOK, BucketInv
  <2>2. \A d \in Callers : InFlight(d)'
    BY <1>6, <1>t DEF GiveUp, BucketInv, InFlight, Call, idle
  <2> QED BY <2>1, <2>2, <1>6, <1>u DEF GiveUp, BucketInv
<1>7. ASSUME NEW c \in Callers, Script(c) PROVE BucketInv'
  BY <1>7, ScriptStep
<1> QED BY <1>1, <1>2, <1>4, <1>5, <1>6, <1>7 DEF Next

LEMMA BucketInvariant == Spec => []BucketInv
<1>1. Init => BucketInv
  <2> SUFFICES ASSUME Init PROVE BucketInv
    OBVIOUS
  <2>1. TypeOK /\ bucket.ts <= clock /\ \A c \in Callers : InFlight(c)
    BY IdleCall DEF Init, TypeOK, Bucket, InFlight, idle
  <2>2. Lifetime /\ Conserved
    <3>1. Limit * (0 - 0 + 0) = 0
      BY CapacityNat
    <3> QED BY <3>1, CapacityNat DEF Init, Lifetime, Conserved
  <2> QED BY <2>1, <2>2 DEF BucketInv
<1> QED BY <1>1, BucketStep, PTL DEF Spec

\* The bucket, the calls and the history keep their shapes: no call, late
\* reading or expiry leaves a negative number of tokens.
THEOREM BucketTypeCorrect == Spec => []TypeOK
<1>1. BucketInv => TypeOK
  BY DEF BucketInv
<1> QED BY <1>1, BucketInvariant, PTL

\* Whatever the order in which clock readings reach Redis, a run of calls is
\* granted at most one bucket, the refill of the time between the first and
\* the last of them, and the refill of the time by which late readings set the
\* stamp back (the script in rate_limiter.py).
THEOREM BucketBound == Spec => []GrantedWithinRewinds
<1>1. BucketInv => GrantedWithinRewinds
  <2> SUFFICES ASSUME BucketInv PROVE GrantedWithinRewinds
    OBVIOUS
  <2>1. /\ bucket.tokens \in Nat /\ bucket.ts \in Int /\ since \in Int
        /\ rewound \in Int /\ granted \in Nat
    BY DEF BucketInv, TypeOK, Bucket
  <2>2. Limit * (bucket.ts - since + rewound) \in Int
    BY <2>1, Distribute
  <2> QED BY <2>1, <2>2, CapacityNat DEF BucketInv, Conserved, GrantedWithinRewinds
<1> QED BY <1>1, BucketInvariant, PTL

\* While the readings of the callers' clocks reach Redis in order, the
\* sustained rate is the limit.
COROLLARY SustainedRate == Spec => []GrantedWithinRate
<1>1. BucketInv => GrantedWithinRate
  <2> SUFFICES ASSUME BucketInv, rewound = 0
               PROVE  granted <= capacity(Limit) + Limit * (clock - since)
    BY DEF GrantedWithinRate
  <2>1. /\ bucket.tokens \in Nat /\ bucket.ts \in Int /\ since \in Int /\ clock \in Int
        /\ granted \in Nat /\ clock - bucket.ts \in Nat
    BY DEF BucketInv, TypeOK, Bucket
  <2>2. /\ Limit * (clock - since) = Limit * (bucket.ts - since) + Limit * (clock - bucket.ts)
        /\ Limit * (bucket.ts - since) \in Int /\ Limit * (clock - bucket.ts) \in Nat
    <3> DEFINE x == bucket.ts - since
               y == clock - bucket.ts
    <3>1. x \in Int /\ y \in Int /\ y \in Nat /\ clock - since = x + y
      BY <2>1
    <3> HIDE DEF x, y
    <3>2. Limit * (x + y) = Limit * x + Limit * y /\ Limit * x \in Int /\ Limit * y \in Nat
      BY <3>1, Distribute
    <3> QED BY <3>1, <3>2 DEF x, y
  <2>3. bucket.ts - since + rewound = bucket.ts - since
    BY <2>1
  <2>4. bucket.tokens + granted <= capacity(Limit) + Limit * (bucket.ts - since)
    BY <2>3 DEF BucketInv, Conserved
  <2> QED BY <2>1, <2>2, <2>4, CapacityNat
<1> QED BY <1>1, BucketInvariant, PTL
=============================================================================

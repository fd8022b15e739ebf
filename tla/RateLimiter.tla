----------------------------- MODULE RateLimiter -----------------------------
(***************************************************************************)
(* The token bucket of one account (app/services/rate_limiter.py) and the  *)
(* callers that share it.  A caller reads its clock, then Redis runs the   *)
(* script with that reading: the two are different steps, and the readings *)
(* of two callers can reach Redis in the other order.                      *)
(*                                                                         *)
(* Time is in milliseconds and tokens are in units of 1/Minute token, so   *)
(* that the refill rate limit/60 per second is exactly limit units per     *)
(* millisecond: the script's arithmetic on floats is exact here.  The      *)
(* limit comes with every call: a batch job passes the one it read from    *)
(* the account, which a PATCH may have changed since or between two calls. *)
(***************************************************************************)
EXTENDS Integers

CONSTANTS Callers,    \* concurrent calls of consume
          Limits,     \* the values of limit_per_minute in one behaviour
          Limit,      \* the highest of them
          Amounts,    \* the amounts asked for
          Minute,     \* milliseconds in a minute: the time to fill the bucket
          Grace,      \* what PEXPIRE adds to it
          Cushion,    \* what retry_after_ms adds
          MaxDelay,   \* assumed: a script runs this soon after the clock was read
          Horizon     \* bound: the last instant considered

ASSUME CapacityAssumption ==
    Limit \in Nat \ {0} /\ Limits \subseteq 1 .. Limit /\ Minute \in Nat \ {0}
ASSUME AmountAssumption == Amounts \subseteq Int
ASSUME TimeAssumption ==
    Grace \in Nat /\ Cushion \in Nat /\ MaxDelay \in Nat /\ MaxDelay <= Grace
        /\ Horizon \in Nat

VARIABLES
    clock,    \* real time
    bucket,   \* the hash in Redis, absent once expires is reached
    calls,    \* what each caller is doing
    since,    \* history: now_ms of the first call of the observed window
    granted,  \* history: units granted in the window
    rewound   \* history: by how much calls of the window set ts back

vars == <<clock, bucket, calls, since, granted, rewound>>

capacity(limit) == limit * Minute

Max2(a, b) == IF a < b THEN b ELSE a
Min2(a, b) == IF a < b THEN a ELSE b

Bucket == [tokens : Nat, ts : Nat, expires : Nat]

\* retry: history, the call was denied and, with the same limit, nobody has used the
\* bucket since.
Call == [pc : {"idle", "sent", "denied"}, amount : Int, limit : 1 .. Limit, now_ms : Nat,
         retry_at : Nat, retry : BOOLEAN]

idle == [pc |-> "idle", amount |-> 0, limit |-> 1, now_ms |-> 0, retry_at |-> 0,
         retry |-> FALSE]

Init ==
    /\ clock = 0
    /\ bucket = [tokens |-> 0, ts |-> 0, expires |-> 0]
    /\ calls = [c \in Callers |-> idle]
    /\ since = 0
    /\ granted = 0
    /\ rewound = 0

-----------------------------------------------------------------------------
Tick ==
    /\ clock < Horizon
    /\ \A c \in Callers : calls[c].pc = "sent" => clock - calls[c].now_ms < MaxDelay
    /\ clock' = clock + 1
    /\ UNCHANGED <<bucket, calls, since, granted, rewound>>

\* consume up to the call of the script.  No tokens asked for are granted at
\* once, and more than the bucket holds raises: neither reaches the bucket.
consume(c, amount, limit, retry) ==
    /\ calls' = [calls EXCEPT ![c] =
         IF amount <= 0 \/ amount > limit THEN idle
         ELSE [pc |-> "sent", amount |-> amount, limit |-> limit, now_ms |-> clock,
               retry_at |-> 0, retry |-> retry]]
    /\ UNCHANGED <<clock, bucket, since, granted, rewound>>

Ask(c) ==
    /\ calls[c].pc = "idle"
    /\ \E amount \in Amounts, limit \in Limits : consume(c, amount, limit, FALSE)

\* The deferred batch job runs again, at the earliest when it was told to, and
\* reads the limit again.
Retry(c) ==
    /\ calls[c].pc = "denied"
    /\ clock >= calls[c].retry_at
    /\ \E limit \in Limits :
          consume(c, calls[c].amount, limit, calls[c].retry /\ limit = calls[c].limit)

\* Or it finds the action cancelled and asks no more.
GiveUp(c) ==
    /\ calls[c].pc = "denied"
    /\ calls' = [calls EXCEPT ![c] = idle]
    /\ UNCHANGED <<clock, bucket, since, granted, rewound>>

\* Mutant: no cushion.
retry_after_truncated(deficit, limit) == deficit \div limit

\* int(retry_after_seconds * 1000) + 50
retry_after_ms(deficit, limit) == deficit \div limit + Cushion

\* Mutants: the refill is not capped; a late reading takes tokens away.
refill_uncapped(b, now_ms, limit) == b.tokens + Max2(0, now_ms - b.ts) * limit
refill_signed(b, now_ms, limit) ==
    Min2(capacity(limit), b.tokens + (now_ms - b.ts) * limit)

\* The script's refill for the time that has passed, all of it at the rate of
\* this call; a bucket above the capacity of this call is cut down to it.
refill(b, now_ms, limit) ==
    Min2(capacity(limit), b.tokens + Max2(0, now_ms - b.ts) * limit)

remaining(tokens, cost) == IF tokens >= cost THEN tokens - cost ELSE tokens

\* The script, and what the caller makes of its answer.  The observed window
\* may start anew with this call.
Script(c) ==
    LET now_ms  == calls[c].now_ms
        limit   == calls[c].limit
        b       == IF clock < bucket.expires THEN bucket
                   ELSE [bucket EXCEPT !.tokens = capacity(limit), !.ts = now_ms]
        cost    == calls[c].amount * Minute
        tokens  == refill(b, now_ms, limit)
        allowed == tokens >= cost
        taken   == IF allowed THEN cost ELSE 0
    IN  /\ calls[c].pc = "sent"
        /\ bucket' = [tokens  |-> remaining(tokens, cost), ts |-> now_ms,
                      expires |-> clock + Minute + Grace]
        /\ calls' = [k \in Callers |->
             IF k # c THEN [calls[k] EXCEPT !.retry = FALSE]
             ELSE IF allowed THEN idle
             ELSE [calls[c] EXCEPT !.pc = "denied", !.retry = TRUE,
                     !.retry_at = clock + retry_after_ms(cost - tokens, limit)]]
        /\ \/ /\ granted' = granted + taken
              /\ rewound' = rewound + Max2(0, bucket.ts - now_ms)
              /\ since' = since
           \/ /\ granted' = taken
              /\ rewound' = 0
              /\ since' = now_ms
        /\ UNCHANGED clock

Next == Tick \/ \E c \in Callers : Ask(c) \/ Retry(c) \/ GiveUp(c) \/ Script(c)

Spec == Init /\ [][Next]_vars

-----------------------------------------------------------------------------
\* The shapes of the bucket and of the calls in flight.
TypeOK ==
    /\ clock \in Nat
    /\ bucket \in Bucket
    /\ calls \in [Callers -> Call]
    /\ since \in Nat /\ granted \in Nat /\ rewound \in Nat

\* "The bucket refills continuously, so the sustained rate is the limit": as
\* long as no clock reading reaches the script after a later one, a run of calls
\* is granted at most one full bucket and the refill of the time that passed.
GrantedWithinRate == rewound = 0 => granted <= capacity(Limit) + Limit * (clock - since)

\* What the script guarantees whatever the order in which clock readings reach
\* it: the excess over the rate is at most the refill of the time by which
\* late readings set ts back.  A bucket that expired had refilled completely,
\* and a limit that changes between calls never grants more than the highest.
GrantedWithinRewinds ==
    granted <= capacity(Limit) + Limit * (bucket.ts - since + rewound)

\* "so a retry does not land a microsecond early and bounce again": a call
\* repeated when retry_after_ms says is granted if nobody else used the bucket
\* and the limit was not changed in the meantime.
RetryIsGranted ==
    [][\A c \in Callers :
          calls[c].pc = "sent" /\ calls[c].retry => calls'[c].pc # "denied"]_vars
=============================================================================

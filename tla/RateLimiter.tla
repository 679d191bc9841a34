------------------------------ MODULE RateLimiter ------------------------------
(***************************************************************************)
(* The in-memory rate limiter of security.py: a sliding window per client   *)
(* and budget, and the middleware that asks it before any route.           *)
(*                                                                         *)
(* check reads the monotonic clock before it takes the lock: Arrive and     *)
(* Proceed stamp the hit, Allow and Refuse are the section under the lock.  *)
(* The event loop runs one check at a time, a single element of Threads.    *)
(* Time counts ticks, PerSecond to the second: the clock is finer than the  *)
(* whole seconds the answer speaks of.                                     *)
(***************************************************************************)
EXTENDS Integers, Sequences

CONSTANTS
    Threads,    \* who may run a check
    Clients,    \* client IPs (get_client_ip)
    Limit,      \* budget -> hits allowed in a window
    Window,     \* budget -> length of its window, in ticks
    Interval,   \* _CLEANUP_INTERVAL_S, in ticks
    PerSecond,  \* ticks in a second
    MaxTime     \* bound: the clock

Budgets == {"ip", "login"}
Keys == Budgets \X Clients

ASSUME RateLimiterAssumption ==
    /\ Limit \in [Budgets -> Nat \ {0}]
    /\ Window \in [Budgets -> Nat \ {0}]
    /\ Interval \in Nat
    /\ PerSecond \in Nat \ {0}
    /\ MaxTime \in Nat

VARIABLES
    clock,        \* time.monotonic()
    buckets,      \* _hits: key -> stamps
    lastCleanup,  \* _last_cleanup
    maxWindow,    \* _max_window
    pending,      \* per thread: the check it is about to run, with its stamp
    log,          \* history: the hits allowed in the window of the last of them, per key
    advice        \* history: when a refused client was told to come back, or 0

limiterVars == <<clock, buckets, lastCleanup, maxWindow, pending, log, advice>>

NoCheck == [on |-> FALSE]
Check == [on : {TRUE}, key : Keys, login : BOOLEAN, now : Nat]

LimiterTypeOK ==
    /\ clock \in Nat
    /\ DOMAIN buckets \subseteq Keys
    /\ buckets \in [DOMAIN buckets -> Seq(Nat)]
    /\ lastCleanup \in Nat
    /\ maxWindow \in Nat
    /\ pending \in [Threads -> {NoCheck} \cup Check]
    /\ log \in [Keys -> Seq(Nat)]
    /\ advice \in [Keys -> Nat]

-----------------------------------------------------------------------------

LimitOf(k) == Limit[k[1]]
WindowOf(k) == Window[k[1]]

\* self._hits[key], a defaultdict.
Hits(k) == IF k \in DOMAIN buckets THEN buckets[k] ELSE <<>>

\* The stamps left of h at time now: those in front that are out of the window
\* are popped.
Evicted(h, w, now) ==
    LET live == {i \in 1 .. Len(h) : h[i] + w > now}
    IN  IF live = {} THEN <<>>
        ELSE SubSeq(h, CHOOSE i \in live : \A j \in live : i <= j, Len(h))

\* Mutant: a stamp exactly a window old still counts.
LiveLate(t) == Evicted(Hits(pending[t].key), WindowOf(pending[t].key) + 1, pending[t].now)

Live(t) == Evicted(Hits(pending[t].key), WindowOf(pending[t].key), pending[t].now)

Stored(k, h) == [l \in DOMAIN buckets \cup {k} |-> IF l = k THEN h ELSE buckets[l]]

\* Mutant: the first hit of a bucket decides, not the last.
SweptByFirstHit(b, now, horizon) ==
    [k \in {l \in DOMAIN b : b[l] # <<>> /\ b[l][1] + horizon > now} |-> b[k]]

\* Mutant: only the empty buckets go.
SweptIfEmpty(b, now, horizon) == [k \in {l \in DOMAIN b : b[l] # <<>>} |-> b[k]]

\* _sweep: the buckets whose last hit is inside the largest window stay.
Swept(b, now, horizon) ==
    [k \in {l \in DOMAIN b : b[l] # <<>> /\ b[l][Len(b[l])] + horizon > now} |-> b[k]]

LargerOf(a, b) == IF a > b THEN a ELSE b

\* The Retry-After of a refusal, in seconds: int() drops the fraction.
RetryAfter(h, w, now) == LargerOf((h[1] + w - now) \div PerSecond + 1, 1)

-----------------------------------------------------------------------------
(* The middleware, one request per thread. *)

\* A request for /api/* other than the health probe; login: it posts a password.
Arrive(t, c, login) ==
    /\ pending[t] = NoCheck
    /\ pending' = [pending EXCEPT ![t] =
                     [on |-> TRUE, key |-> <<"ip", c>>, login |-> login, now |-> clock]]
    /\ UNCHANGED <<clock, buckets, lastCleanup, maxWindow, log, advice>>

\* Mutant: the second check has no stamp of its own.
ProceedUnstamped(t) ==
    pending' = [pending EXCEPT ![t] =
                  IF pending[t].login
                    THEN [on |-> TRUE, key |-> <<"login", pending[t].key[2]>>,
                          login |-> FALSE]
                    ELSE NoCheck]

\* What follows a hit that was allowed: the login budget, or the route.
Proceed(t) ==
    pending' = [pending EXCEPT ![t] =
                  IF pending[t].login
                    THEN [on |-> TRUE, key |-> <<"login", pending[t].key[2]>>,
                          login |-> FALSE, now |-> clock]
                    ELSE NoCheck]

\* Mutant: the limit itself is exceeded by one.
AllowOneMore(t) ==
    /\ pending[t].on
    /\ LET k == pending[t].key
           now == pending[t].now
       IN  /\ Len(Live(t)) <= LimitOf(k)
           /\ maxWindow' = LargerOf(maxWindow, WindowOf(k))
           /\ buckets' = Stored(k, Append(Live(t), now))
           /\ lastCleanup' = lastCleanup
           /\ log' = [log EXCEPT ![k] = Evicted(Append(@, now), WindowOf(k), now)]
           /\ advice' = [advice EXCEPT ![k] = 0]
    /\ Proceed(t)
    /\ UNCHANGED clock

\* check, when the hit is allowed; _sweep runs once per interval.
Allow(t) ==
    /\ pending[t].on
    /\ LET k == pending[t].key
           now == pending[t].now
           due == now - lastCleanup >= Interval
       IN  /\ Len(Live(t)) < LimitOf(k)
           /\ maxWindow' = LargerOf(maxWindow, WindowOf(k))
           /\ buckets' = IF due THEN Swept(Stored(k, Append(Live(t), now)), now, maxWindow')
                         ELSE Stored(k, Append(Live(t), now))
           /\ lastCleanup' = IF due THEN now ELSE lastCleanup
           /\ log' = [log EXCEPT ![k] = Evicted(Append(@, now), WindowOf(k), now)]
           /\ advice' = [advice EXCEPT ![k] = 0]
    /\ Proceed(t)
    /\ UNCHANGED clock

\* check, when it is refused: nothing is recorded and the answer is a 429.
Refuse(t) ==
    /\ pending[t].on
    /\ LET k == pending[t].key
           now == pending[t].now
       IN  /\ Len(Live(t)) >= LimitOf(k)
           /\ maxWindow' = LargerOf(maxWindow, WindowOf(k))
           /\ buckets' = Stored(k, Live(t))
           /\ advice' = [advice EXCEPT ![k] =
                           now + RetryAfter(Live(t), WindowOf(k), now) * PerSecond]
    /\ pending' = [pending EXCEPT ![t] = NoCheck]
    /\ UNCHANGED <<clock, lastCleanup, log>>

\* MaxTime bounds the clock.
Tick ==
    /\ clock < MaxTime
    /\ clock' = clock + 1
    /\ UNCHANGED <<buckets, lastCleanup, maxWindow, pending, log, advice>>

LimiterInit ==
    /\ clock = 0
    /\ buckets = <<>>
    /\ lastCleanup = 0
    /\ maxWindow = 0
    /\ pending = [t \in Threads |-> NoCheck]
    /\ log = [k \in Keys |-> <<>>]
    /\ advice = [k \in Keys |-> 0]

LimiterNext ==
    \/ \E t \in Threads, c \in Clients, login \in BOOLEAN : Arrive(t, c, login)
    \/ \E t \in Threads : Allow(t) \/ Refuse(t)
    \/ Tick

LimiterSpec == LimiterInit /\ [][LimiterNext]_limiterVars

-----------------------------------------------------------------------------
(* Properties. *)

\* No window of a key's length holds more allowed hits than its limit, whatever
\* the sweeps dropped and however late a hit was counted (security.py check).
WindowLimit == \A k \in Keys : Len(log[k]) <= LimitOf(k)

Limits == [k \in Keys |-> LimitOf(k)]
Windows == [k \in Keys |-> WindowOf(k)]

Ideal == INSTANCE SlidingWindow WITH
            Limit   <- Limits,
            Window  <- Windows,
            now     <- clock,
            granted <- log,
            told    <- advice

\* A hit is refused exactly when the window that ends with it holds as many allowed hits
\* as its limit, and Retry-After tells a time at which it has room: that stamps, buckets
\* and refused hits are dropped goes unnoticed (security.py check and _sweep).
ActsAsSlidingWindow == Ideal!Spec

\* A refused client that waits for as long as Retry-After says, and does nothing
\* meanwhile, is let in (security.py check: the whole number of seconds).
RetryAfterSuffices ==
    \A k \in Keys :
      advice[k] # 0 => Len(Evicted(Hits(k), WindowOf(k), advice[k])) < LimitOf(k)

\* The check of t allows its hit.
Admitted(t) ==
    /\ pending[t].on /\ pending'[t] # pending[t]
    /\ Len(Live(t)) < LimitOf(pending[t].key)

\* Memory follows the clients of the last interval and window: an allowed hit
\* leaves no bucket that has been idle for longer (security.py _sweep;
\* docs/configuration/rate-limiting.md).
IdleBucketsGo ==
    [][\A t \in Threads : Admitted(t) =>
         \A k \in DOMAIN buckets' :
           /\ buckets'[k] # <<>>
           /\ buckets'[k][Len(buckets'[k])] + maxWindow' + Interval > pending[t].now]_limiterVars

\* A bucket is never dropped while one of its hits could still count
\* (security.py _max_window).
SweepKeepsLiveHits ==
    [][\A k \in DOMAIN buckets \ DOMAIN buckets' : \A i \in 1 .. Len(buckets[k]) :
         buckets[k][i] + WindowOf(k) <= clock]_limiterVars

================================================================================

---------------------------- MODULE RateLimiter ----------------------------
(***************************************************************************)
(* RateLimiter (internal/handler/ratelimit.go): a fixed-window limiter     *)
(* keyed by client IP, with a goroutine that evicts stale buckets.         *)
(*                                                                         *)
(* Allow runs under the mutex and so does each pass of cleanup: both are   *)
(* one step.  A bucket's lastReset is kept as its age, the time since the  *)
(* reset; the code compares it with window and 2*window only, so an age    *)
(* stays at 2*window once it is there.                                     *)
(***************************************************************************)
EXTENDS Integers, Functions

CONSTANTS
    Keys,     \* client IPs
    Rate,     \* requests allowed per window (100 in main)
    Window    \* length of a window, in ticks of the clock (a minute in main)

ASSUME RateAssumption == Rate \in Nat \ {0}
ASSUME WindowAssumption == Window \in Nat \ {0}

VARIABLES
    requests,     \* the map from keys to buckets
    done,         \* Stop() has closed the channel
    cleaner,      \* the cleanup goroutine: "running" or "exited"
    sinceTick,    \* time since the ticker's last tick
    tickWaiting,  \* the ticker's channel holds a tick
    recent        \* history: recent[k][a] requests of k allowed a ago, a < Window

vars == <<requests, done, cleaner, sinceTick, tickWaiting, recent>>
cleanupVars == <<done, cleaner, sinceTick, tickWaiting>>

\* Faulty: the request that begins the window is not charged.
NewBucketFull == [tokens |-> Rate, age |-> 0]

\* A bucket whose window has just begun with a request.
NewBucket == [tokens |-> Rate - 1, age |-> 0]

\* Faulty: a window lasts one moment longer.
ElapsedAfter(b) == b.age > Window

\* now.Sub(b.lastReset) >= rl.window
Elapsed(b) == b.age >= Window

\* Faulty: the last token is given out twice.
HasTokenOrNone(b) == b.tokens >= 0

\* b.tokens > 0
HasToken(b) == b.tokens > 0

\* Faulty: a bucket is stale as soon as it is not of this moment.
StaleAtOnce(b) == b.age >= 1

\* now.Sub(b.lastReset) >= rl.window*2
Stale(b) == b.age >= 2 * Window

-----------------------------------------------------------------------------
Init ==
    /\ requests = <<>>
    /\ done = FALSE
    /\ cleaner = "running"
    /\ sinceTick = 0
    /\ tickWaiting = FALSE
    /\ recent = [k \in Keys |-> [a \in 0..(Window - 1) |-> 0]]

SetBucket(k, b) ==
    requests' = [j \in DOMAIN requests \cup {k} |-> IF j = k THEN b ELSE requests[j]]

Record(k) == recent' = [recent EXCEPT ![k][0] = @ + 1]

\* Allow returns true: a first request, the first of a new window, or one that
\* takes a token.
Accept(k) ==
    /\ \/ /\ k \notin DOMAIN requests
          /\ SetBucket(k, NewBucket)
       \/ /\ k \in DOMAIN requests
          /\ Elapsed(requests[k])
          /\ SetBucket(k, NewBucket)
       \/ /\ k \in DOMAIN requests
          /\ ~Elapsed(requests[k])
          /\ HasToken(requests[k])
          /\ SetBucket(k, [requests[k] EXCEPT !.tokens = @ - 1])
    /\ Record(k)
    /\ UNCHANGED cleanupVars

\* The bucket of k has run dry: Allow would return false.
Denies(k) ==
    /\ k \in DOMAIN requests
    /\ ~Elapsed(requests[k])
    /\ ~HasToken(requests[k])

\* Faulty: a denied request begins a new wait.
DenyAndRenew(k) ==
    /\ Denies(k)
    /\ SetBucket(k, [requests[k] EXCEPT !.age = 0])
    /\ UNCHANGED <<cleanupVars, recent>>

\* Allow returns false.
Deny(k) ==
    /\ Denies(k)
    /\ UNCHANGED vars

-----------------------------------------------------------------------------
\* Faulty: the goroutine ends with its first pass.
CleanupOnce ==
    /\ cleaner = "running"
    /\ tickWaiting
    /\ tickWaiting' = FALSE
    /\ requests' = Restrict(requests, {k \in DOMAIN requests : ~Stale(requests[k])})
    /\ cleaner' = "exited"
    /\ UNCHANGED <<done, sinceTick, recent>>

\* One pass of the cleanup goroutine.
Cleanup ==
    /\ cleaner = "running"
    /\ tickWaiting
    /\ tickWaiting' = FALSE
    /\ requests' = Restrict(requests, {k \in DOMAIN requests : ~Stale(requests[k])})
    /\ UNCHANGED <<done, cleaner, sinceTick, recent>>

CleanupExit ==
    /\ cleaner = "running"
    /\ done
    /\ cleaner' = "exited"
    /\ UNCHANGED <<requests, done, sinceTick, tickWaiting, recent>>

\* Stop; a second call finds the channel closed and does nothing.
Stop ==
    /\ done' = TRUE
    /\ UNCHANGED <<requests, cleaner, sinceTick, tickWaiting, recent>>

-----------------------------------------------------------------------------
Older(b) == [b EXCEPT !.age = IF @ < 2 * Window THEN @ + 1 ELSE @]

\* The clock.  The ticker ticks every two windows; it keeps one tick for a
\* goroutine that is late, and none once the goroutine has stopped it.
Tick ==
    /\ requests' = [k \in DOMAIN requests |-> Older(requests[k])]
    /\ recent' = [k \in Keys |-> [a \in 0..(Window - 1) |->
                                    IF a = 0 THEN 0 ELSE recent[k][a - 1]]]
    /\ sinceTick' = (sinceTick + 1) % (2 * Window)
    /\ tickWaiting' = (tickWaiting \/ (sinceTick' = 0 /\ cleaner = "running"))
    /\ UNCHANGED <<done, cleaner>>

Next ==
    \/ \E k \in Keys : Accept(k) \/ Deny(k)
    \/ Cleanup \/ CleanupExit \/ Stop \/ Tick

(***************************************************************************)
(* Time passes and the goroutine is scheduled; requests need not come.     *)
(* Once done is closed, Go's select takes that case at the latest after    *)
(* finitely many ticks with probability one.                               *)
(***************************************************************************)
Fairness == WF_vars(Tick) /\ WF_vars(Cleanup) /\ WF_vars(CleanupExit)

Spec == Init /\ [][Next]_vars /\ Fairness

-----------------------------------------------------------------------------
\* Buckets hold between 0 and Rate - 1 tokens and belong to keys that have made
\* a request.
TypeOK ==
    /\ DOMAIN requests \subseteq Keys
    /\ \A k \in DOMAIN requests :
        requests[k] \in [tokens : 0..(Rate - 1), age : 0..(2 * Window)]
    /\ done \in BOOLEAN
    /\ cleaner \in {"running", "exited"}
    /\ sinceTick \in 0..(2 * Window - 1)
    /\ tickWaiting \in BOOLEAN
    /\ recent \in [Keys -> [0..(Window - 1) -> Nat]]

\* f[0] + ... + f[n]
SumUpTo(f, n) ==
    LET sum[i \in 0..n] == IF i = 0 THEN f[0] ELSE sum[i - 1] + f[i]
    IN  sum[n]

\* How many requests of k were allowed at most a ago.
AllowedWithin(k, a) == SumUpTo(recent[k], a)

\* Within a bucket's window its tokens and the requests it let through make up
\* the rate: no request is charged twice or goes uncharged, whatever Allow,
\* the passing of time and eviction do in between.
TokensAccountForRequests ==
    \A k \in DOMAIN requests :
        ~Elapsed(requests[k]) =>
            requests[k].tokens + AllowedWithin(k, requests[k].age) = Rate

\* A fixed window lets through at most 2*Rate - 1 requests of a client in any
\* interval as long as the window: eviction and reset never hand out more.
BurstBound == \A k \in Keys : AllowedWithin(k, Window - 1) <= 2 * Rate - 1

\* No client is turned away before it has used its rate: where Allow would
\* return false, Rate requests were let through less than a window ago.
DenialsJustified ==
    \A k \in Keys : Denies(k) => AllowedWithin(k, Window - 1) >= Rate

\* A client that was turned away is let through again in time, even if it keeps
\* asking meanwhile.
DenialsEnd ==
    \A k \in Keys : Denies(k) ~> ~Denies(k)

\* The map does not grow without bound: a bucket nobody uses is evicted, unless
\* the limiter has been stopped.
StaleEvicted ==
    \A k \in Keys :
        (k \in DOMAIN requests /\ Stale(requests[k]))
            ~> (k \notin DOMAIN requests \/ ~Stale(requests[k]) \/ done)
=============================================================================

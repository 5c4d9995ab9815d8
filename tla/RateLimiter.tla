---------------------------- MODULE RateLimiter ----------------------------
(***************************************************************************)
(* The fixed-window limiter in front of the routes: one counter per key, and *)
(* a cleanup that now and then drops the counters not seen for long, and the *)
(* least recent ones of too many.  The handler is synchronous.               *)
(***************************************************************************)
EXTENDS Requests

CONSTANTS
    Keys,       \* address, path and user
    Window,     \* windowMs; staleAfterMs is twice that
    MaxHits,    \* max: requests of a window that are let through
    CleanupEvery,   \* cleanupIntervalMs
    MaxKeys,    \* maxKeys
    LastTime    \* bound on the clock; of one key no two requests come at one time

ASSUME RateAssumption ==
    /\ {Window, MaxHits, CleanupEvery, MaxKeys, LastTime} \subseteq Nat
    /\ Window > 0 /\ MaxHits > 0 /\ MaxKeys > 0 /\ LastTime > 0

VARIABLES
    now,
    hits,       \* the counter of each key, or NoEntry
    lastCleanupAt,
    asked,      \* the times of each key's requests
    passed,     \* those of the requests that were let through
    evicted     \* keys whose counter was dropped for want of room

rateVars == <<now, hits, lastCleanupAt, asked, passed, evicted>>

Entry(count, resetAt, lastSeenAt) ==
    [count |-> count, resetAt |-> resetAt, lastSeenAt |-> lastSeenAt]
NoEntry == Entry(0, 0, 0)

RateInit ==
    /\ now = 1
    /\ hits = [k \in Keys |-> NoEntry]
    /\ lastCleanupAt = 1
    /\ asked = [k \in Keys |-> {}]
    /\ passed = asked
    /\ evicted = {}

\* Slip: what has been quiet for a while is stale.
StaleEarly(e) == now > e.lastSeenAt

Stale(e) == now - e.lastSeenAt > 2 * Window

Fresh == {k \in Keys : hits[k] # NoEntry /\ ~Stale(hits[k])}

\* cleanup: the least recent go when too many remain; of equally recent ones
\* the map's order decides.
Cleanups ==
    {keep \in SUBSET Fresh :
        /\ Cardinality(keep) = IF Cardinality(Fresh) < MaxKeys THEN Cardinality(Fresh) ELSE MaxKeys
        /\ \A k \in keep, l \in Fresh \ keep : hits[l].lastSeenAt <= hits[k].lastSeenAt}

CleanupIsDue == CleanupEvery > 0 /\ now - lastCleanupAt >= CleanupEvery

\* Slip: a request prolongs the window of the one before.
CountedLonger(e) ==
    IF e = NoEntry \/ now > e.resetAt THEN Entry(1, now + Window, now)
    ELSE Entry(e.count + 1, e.resetAt + Window, now)

\* The entry of a request, after it is counted.
Counted(e) ==
    IF e = NoEntry \/ now > e.resetAt THEN Entry(1, now + Window, now)
    ELSE Entry(e.count + 1, e.resetAt, now)

Limiter(k) ==
    /\ now \notin asked[k]
    /\ \E keep \in IF CleanupIsDue THEN Cleanups ELSE {{l \in Keys : hits[l] # NoEntry}} :
        LET e == Counted(IF k \in keep THEN hits[k] ELSE NoEntry) IN
        /\ hits' = [l \in Keys |-> IF l = k THEN e ELSE IF l \in keep THEN hits[l] ELSE NoEntry]
        /\ evicted' = evicted \cup {l \in Fresh : l \notin keep}
        /\ passed' = [passed EXCEPT ![k] = @ \cup (IF e.count > MaxHits THEN {} ELSE {now})]
    /\ lastCleanupAt' = IF CleanupIsDue THEN now ELSE lastCleanupAt
    /\ asked' = [asked EXCEPT ![k] = @ \cup {now}]
    /\ UNCHANGED now

TimePasses ==
    /\ now < LastTime
    /\ now' = now + 1
    /\ UNCHANGED <<hits, lastCleanupAt, asked, passed, evicted>>

\* The process starts anew, with every limiter empty.
LimiterRestarts ==
    /\ hits' = [k \in Keys |-> NoEntry]
    /\ lastCleanupAt' = now
    /\ evicted' = Keys
    /\ UNCHANGED <<now, asked, passed>>

RateNext == TimePasses \/ LimiterRestarts \/ \E k \in Keys : Limiter(k)

RateSpec == RateInit /\ [][RateNext]_rateVars

-----------------------------------------------------------------------------
(* Properties.                                                              *)

\* The times of the window that ends at t.
Within(times, t) == {s \in times : t - Window <= s /\ s <= t}

\* Type correctness of the counters and the log.
RateTypeOK ==
    /\ now \in 1 .. LastTime /\ lastCleanupAt \in 1 .. now
    /\ \A k \in Keys :
          /\ hits[k].count \in Nat /\ hits[k].resetAt \in 0 .. now + Window
          /\ hits[k].lastSeenAt \in 0 .. now
    /\ \A k \in Keys : passed[k] \subseteq asked[k] /\ asked[k] \subseteq 1 .. now
    /\ evicted \subseteq Keys

\* A cleanup for staleness forgets nothing: the next request of the key is
\* counted as it would be with the entry kept.
StaleIsOver ==
    \A k \in Keys : (hits[k] # NoEntry /\ Stale(hits[k])) => Counted(hits[k]) = Counted(NoEntry)

\* In any window's time a key is let through at most twice its limit, whatever
\* the cleanups have dropped as stale, unless its counter was evicted or the
\* process restarted.
LimitHolds ==
    \A k \in Keys \ evicted : \A t \in 1 .. now :
        Cardinality(Within(passed[k], t)) <= 2 * MaxHits

\* Who asks no more than the limit in a window's time is never refused.
ModestAreServed ==
    \A k \in Keys : \A t \in asked[k] :
        Cardinality(Within(asked[k], t)) <= MaxHits => t \in passed[k]
=============================================================================

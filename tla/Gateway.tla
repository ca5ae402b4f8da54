------------------------------ MODULE Gateway ------------------------------
(***************************************************************************)
(* The middlewares in front of the handlers: the rate limiter and, below   *)
(* it, the idempotency cache, both over one Redis.  add_middleware puts    *)
(* the middleware added last on the outside, so a request passes           *)
(* RateLimiterMiddleware, IdempotencyMiddleware and the handler in this    *)
(* order.                                                                  *)
(*                                                                         *)
(* Every call to Redis is an await at which other requests run and which   *)
(* may fail.  The handler is one step with the outcomes that Inventory     *)
(* gives it: a response with or without an effect, or an exception before  *)
(* or after the commit.  The requests are those of one caller within the   *)
(* 24 hours for which Redis keeps a key.                                   *)
(*                                                                         *)
(* "Seeded bug" marks variants of the definition that follows them, which  *)
(* PROJECT.json pairs with the property they violate.                      *)
(***************************************************************************)
EXTENDS Naturals, FiniteSets

CONSTANTS
    Requests,       \* HTTP requests, each sent once; a retry is another one
    Endpoint,       \* request -> its method and path
    Header,         \* request -> its Idempotency-Key, None without one
    Limit,          \* settings.rate_limit_per_minute
    MaxWindow,      \* bound on the minutes that pass
    MaxFaults,      \* bound on failed Redis calls and dead processes
    None            \* no header

ASSUME GatewayAssumption ==
    /\ IsFiniteSet(Requests)
    /\ Limit \in Nat \ {0} /\ MaxWindow \in Nat \ {0} /\ MaxFaults \in Nat

Responses == {"done", "refused"}
Replies == Responses \cup {"limited", "busy", "error"}

\* Seeded bug: one endpoint's key answers for another.
RedisKeyOfHeader(r) == Header[r]
\* The key under which the request is looked up and stored.
RedisKey(r) == <<Endpoint[r], Header[r]>>

VARIABLES
    marker,         \* what Redis holds under the keys of the idempotency cache
    window,         \* the minute
    count,          \* the rate limiter's counters, one per minute
    expires,        \* the minute in which a counter was given its 60 seconds
    http,           \* the requests
    punctual,       \* history: those counted in the minute they arrived in
    faults          \* faults so far

limiter == <<window, count, expires, punctual>>
vars == <<marker, limiter, http, faults>>

RedisKeys == {RedisKey(r) : r \in {q \in Requests : Header[q] # None}}

Steps == {"new", "count", "expire", "lookup", "claim", "handler", "release", "store",
          "answered", "lost"}

\* "owner" of the marker, or "through" without it.
Modes == {"none", "owner", "through"}

\* "late" when the handler committed and then raised, or died.
Effects == {"none", "committed", "late"}

\* pass: how often the rate limiter has called the handler's side, 0 when the
\* request is over.
\* minute: the window whose counter the request increments.
\* admitted: the counter was within the limit.
Passes == 0..2

Exchanges == [pc : Steps, pass : Passes, minute : 0..MaxWindow, admitted : BOOLEAN,
              mode : Modes, effect : Effects, replayed : BOOLEAN,
              reply : Replies \cup {"none"}]

Init ==
    /\ marker = [k \in RedisKeys |-> "none"]
    /\ window = 1
    /\ count = [m \in 1..MaxWindow |-> 0]
    /\ expires = [m \in 1..MaxWindow |-> 0]
    /\ punctual = {}
    /\ http = [r \in Requests |->
                  [pc |-> "new", pass |-> 0, minute |-> 0, admitted |-> FALSE, mode |-> "none",
                   effect |-> "none", replayed |-> FALSE, reply |-> "none"]]
    /\ faults = 0

At(r, step) == http[r].pc = step

Goto(r, step) == http' = [http EXCEPT ![r].pc = step]
Answer(r, reply) ==
    http' = [http EXCEPT ![r].pc = "answered", ![r].pass = 0, ![r].reply = reply]

\* A call to Redis raises.
Fault == faults < MaxFaults /\ faults' = faults + 1

-----------------------------------------------------------------------------
(* RateLimiterMiddleware.dispatch *)

\* The request was counted within the limit and goes on to the next middleware.
Admit(r) == http' = [http EXCEPT ![r].pc = "lookup", ![r].pass = 1, ![r].admitted = TRUE]

\* The except clause: whatever was raised, the request goes on uncounted, and
\* nothing catches what is raised then.
PassAgain(r) == http' = [http EXCEPT ![r].pc = "lookup", ![r].pass = 2, ![r].mode = "none"]

\* The key is computed from the clock, and INCR is awaited after that.
Arrive(r) ==
    /\ At(r, "new")
    /\ http' = [http EXCEPT ![r].pc = "count", ![r].minute = window]
    /\ UNCHANGED <<marker, limiter, faults>>

\* Seeded bug: off by one.
ExceededLate(current) == current > Limit + 1
Exceeded(current) == current > Limit

\* Seeded bug: a time to live shorter than the minute.
ExpiredEarly(m) == expires[m] \in 1..window
\* Redis drops a counter 60 seconds after EXPIRE: at some moment of the next
\* minute, never in the same one.
Expired(m) == expires[m] \in 1..(window - 1)

\* INCR makes the counter of the request's minute current: one more, or 1 where
\* Redis has dropped it, as it has when the next minute is over too.
Incr(r, current) ==
    LET minute == http[r].minute IN
    /\ \/ /\ current = count[minute] + 1
          /\ expires[minute] = 0 \/ expires[minute] + 2 > window
          /\ UNCHANGED expires
       \/ /\ Expired(minute)
          /\ current = 1
          /\ expires' = [expires EXCEPT ![minute] = 0]
    /\ count' = [count EXCEPT ![minute] = current]

\* The key was computed before.
Count(r) ==
    /\ At(r, "count")
    /\ \E current \in {1, count[http[r].minute] + 1} :
          /\ Incr(r, current)
          /\ CASE current = 1 -> Goto(r, "expire")
               [] Exceeded(current) -> Answer(r, "limited")
               [] OTHER -> Admit(r)
    /\ punctual' = IF window = http[r].minute THEN punctual \cup {r} ELSE punctual
    /\ UNCHANGED <<marker, window, faults>>

\* The 60 seconds of a counter begin.
SetExpiry(r) == expires' = [expires EXCEPT ![http[r].minute] = window]

\* EXPIRE; Limit is at least 1, the first request of a counter passes.
Expire(r) ==
    /\ At(r, "expire")
    /\ SetExpiry(r)
    /\ Admit(r)
    /\ UNCHANGED <<marker, window, count, punctual, faults>>

\* INCR or EXPIRE raises, before or after Redis has executed it.
LimiterFails(r) ==
    /\ \/ /\ At(r, "count") \/ At(r, "expire")
          /\ UNCHANGED <<count, expires>>
       \/ /\ At(r, "count")
          /\ \E current \in {1, count[http[r].minute] + 1} : Incr(r, current)
       \/ /\ At(r, "expire")
          /\ SetExpiry(r)
          /\ UNCHANGED count
    /\ PassAgain(r)
    /\ Fault
    /\ UNCHANGED <<marker, window, punctual>>

\* The next minute has a counter of its own.
NextWindow ==
    /\ window < MaxWindow
    /\ window' = window + 1
    /\ UNCHANGED <<marker, count, expires, http, punctual, faults>>

-----------------------------------------------------------------------------
(* IdempotencyMiddleware.dispatch *)

EnterHandler(r, mode) == http' = [http EXCEPT ![r].pc = "handler", ![r].mode = mode]

\* Seeded bug: whatever is stored is a response.
NeverInProgress(stored) == FALSE
\* The marker of a request in progress has no body: data["body"] raises a
\* KeyError and the except clause, meant for Redis, lets the request through.
InProgress(stored) == stored = "processing"

\* GET
Lookup(r) ==
    /\ At(r, "lookup")
    /\ IF Header[r] = None THEN EnterHandler(r, "through")
       ELSE LET stored == marker[RedisKey(r)] IN
            CASE stored = "none" -> Goto(r, "claim")
              [] InProgress(stored) -> EnterHandler(r, "through")
              [] OTHER -> http' = [http EXCEPT ![r].pc = "answered", ![r].pass = 0,
                                               ![r].replayed = TRUE, ![r].reply = stored]
    /\ UNCHANGED <<marker, limiter, faults>>

\* Seeded bug: SET without NX.
AlwaysAcquired(r) == TRUE
Acquired(r) == marker[RedisKey(r)] = "none"

\* SET NX
Claim(r) ==
    /\ At(r, "claim")
    /\ IF Acquired(r)
       THEN /\ marker' = [marker EXCEPT ![RedisKey(r)] = "processing"]
            /\ EnterHandler(r, "owner")
       ELSE Answer(r, "busy") /\ UNCHANGED marker
    /\ UNCHANGED <<limiter, faults>>

\* GET or SET NX raises, the latter before or after Redis has executed it.
CacheFails(r) ==
    /\ \/ At(r, "lookup") /\ Header[r] # None /\ UNCHANGED marker
       \/ At(r, "claim") /\ UNCHANGED marker
       \/ /\ At(r, "claim")
          /\ marker[RedisKey(r)] = "none"
          /\ marker' = [marker EXCEPT ![RedisKey(r)] = "processing"]
    /\ EnterHandler(r, "through")
    /\ Fault
    /\ UNCHANGED limiter

\* The handler responds.  An owner stores the response before it is sent.
Respond(r, response) ==
    /\ At(r, "handler")
    /\ http' = [http EXCEPT
           ![r].pc = IF http[r].mode = "owner" THEN "store" ELSE "answered",
           ![r].pass = IF http[r].mode = "owner" THEN @ ELSE 0,
           ![r].effect = IF response = "done" THEN "committed" ELSE @,
           ![r].reply = response]
    /\ UNCHANGED <<marker, limiter, faults>>

\* An exception reaches the rate limiter, or on the second pass the server.
Rethrow(r, effect) ==
    http' = [http EXCEPT
        ![r].pc = IF http[r].pass = 1 THEN "lookup" ELSE "answered",
        ![r].pass = IF @ = 1 THEN 2 ELSE 0,
        ![r].mode = "none",
        ![r].effect = effect,
        ![r].reply = IF http[r].pass = 1 THEN "none" ELSE "error"]

\* The handler raises before its commit, or after it when the refresh fails.
Raise(r, effect) ==
    /\ At(r, "handler")
    /\ effect \in {http[r].effect, "late"}
    /\ IF http[r].mode = "owner"
       THEN http' = [http EXCEPT ![r].pc = "release", ![r].effect = effect]
       ELSE Rethrow(r, effect)
    /\ UNCHANGED <<marker, limiter, faults>>

\* Seeded bug: the marker stays.
StillMarked(r) == marker
Unmarked(r) == [marker EXCEPT ![RedisKey(r)] = "none"]

\* DELETE, and raise
Release(r) ==
    /\ At(r, "release")
    /\ marker' = Unmarked(r)
    /\ Rethrow(r, http[r].effect)
    /\ UNCHANGED <<limiter, faults>>

ReleaseFails(r) ==
    /\ At(r, "release")
    /\ Rethrow(r, http[r].effect)
    /\ Fault
    /\ UNCHANGED <<marker, limiter>>

\* SET of the response
Store(r) ==
    /\ At(r, "store")
    /\ marker' = [marker EXCEPT ![RedisKey(r)] = http[r].reply]
    /\ Answer(r, http[r].reply)
    /\ UNCHANGED <<limiter, faults>>

StoreFails(r) ==
    /\ At(r, "store")
    /\ Answer(r, http[r].reply)
    /\ Fault
    /\ UNCHANGED <<marker, limiter>>

-----------------------------------------------------------------------------
(* The system *)

InFlight(r) == http[r].pc \notin {"new", "answered", "lost"}

\* The process dies with the request, inside the handler before or after its
\* commit: nothing runs any except clause.
Dies(r, effect) ==
    /\ InFlight(r)
    /\ effect = http[r].effect \/ (At(r, "handler") /\ effect = "late")
    /\ http' = [http EXCEPT ![r].pc = "lost", ![r].pass = 0, ![r].effect = effect]
    /\ Fault
    /\ UNCHANGED <<marker, limiter>>

Next ==
    \/ NextWindow
    \/ \E r \in Requests :
          \/ Arrive(r) \/ Count(r) \/ Expire(r) \/ LimiterFails(r)
          \/ Lookup(r) \/ Claim(r) \/ CacheFails(r)
          \/ \E response \in Responses : Respond(r, response)
          \/ \E effect \in Effects : Raise(r, effect) \/ Dies(r, effect)
          \/ Release(r) \/ ReleaseFails(r)
          \/ Store(r) \/ StoreFails(r)

Spec == Init /\ [][Next]_vars

-----------------------------------------------------------------------------
(* Properties *)

TypeOK ==
    /\ marker \in [RedisKeys -> Responses \cup {"none", "processing"}]
    /\ window \in 1..MaxWindow
    /\ count \in [1..MaxWindow -> Nat]
    /\ expires \in [1..MaxWindow -> 0..MaxWindow]
    /\ punctual \subseteq Requests
    /\ http \in [Requests -> Exchanges]
    /\ faults \in 0..MaxFaults

\* Two requests an idempotency key identifies with each other.
Duplicates(q, r) ==
    Header[q] # None /\ Header[q] = Header[r] /\ Endpoint[q] = Endpoint[r]

Owners(r) == {q \in Requests : /\ http[q].mode = "owner"
                               /\ http[q].pc \in {"handler", "release", "store"}
                               /\ Duplicates(q, r)}

\* The "processing" marker is never taken from its owner or shared, whatever
\* the duplicates do, which Redis calls fail and who dies; and without faults it
\* is never left behind either.
MarkerMatchesOwner ==
    \A r \in Requests : Header[r] # None =>
        LET owners == Owners(r) IN
        /\ \A p, q \in owners : p = q
        /\ owners # {} => marker[RedisKey(r)] = "processing"
        /\ faults = 0 /\ marker[RedisKey(r)] = "processing" => owners # {}

\* Of the requests that owned the marker only one was answered with an effect,
\* even if processes died and Redis calls failed: a duplicated effect is one of
\* a request that an except clause let through, or of one that raised or died
\* after its commit.
OwnersProcessOnce ==
    LET effective == {r \in Requests : http[r].mode = "owner" /\ http[r].effect = "committed"} IN
    \A q, r \in effective : Duplicates(q, r) => q = r

\* A replayed response was given to a request for the same endpoint under the
\* same key, even if processes died and Redis calls failed.
ReplaysAreReal ==
    \A r \in Requests : http[r].replayed =>
        \E q \in Requests : /\ Duplicates(q, r)
                            /\ ~http[q].replayed
                            /\ http[q].reply = http[r].reply

\* Of the requests counted in the minute they arrived in, no more are let
\* through than the limit, in whatever order the calls to Redis come, whichever
\* requests die or go on uncounted, and although counters expire: none does in
\* its own minute.  A request counted later may find its counter gone; it starts
\* a new one and is let through beyond the limit.
QuotaHeld ==
    \A m \in 1..MaxWindow :
        Cardinality({r \in punctual : http[r].minute = m /\ http[r].admitted}) <= Limit

\* While Redis answers, the except clause lets a duplicate past the cache only
\* as long as another one is being processed, and a duplicate is told that it is
\* being processed only then or when the response came in between.
BypassNeedsDuplicate ==
    [][\A r \in Requests : Header[r] # None /\ faults' = 0 =>
          /\ http[r].mode # "through" /\ http'[r].mode = "through" => Owners(r) # {}
          /\ http[r].reply # "busy" /\ http'[r].reply = "busy" =>
                \E q \in Requests : /\ Duplicates(q, r)
                                    /\ \/ q \in Owners(r)
                                       \/ At(q, "answered") /\ http[q].reply \in Responses]_vars

\* Duplicates are processed once (idempotency.py:4).
ProcessedOnce ==
    \A q, r \in Requests :
        Duplicates(q, r) /\ http[q].effect = "committed" /\ http[r].effect = "committed"
            => q = r

\* Cached responses skip the rate limiter (main.py:61).
CachedSkipsLimiter == \A r \in Requests : http[r].replayed => ~http[r].admitted

\* A request is passed down uncounted only when Redis is down
\* (rate_limiter.py:59).
SecondPassWithoutRedis ==
    [][\A r \in Requests : http[r].pass # 2 /\ http'[r].pass = 2 => faults' # faults]_vars

=============================================================================

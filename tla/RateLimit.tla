------------------------------ MODULE RateLimit ------------------------------
(***************************************************************************)
(* The rate limit of POST /events: the dependency _enforce_rate_limit asks *)
(* RedisCache.check_rate_limit, and only a request it lets through reaches *)
(* create_event.  The clock is read once, before INCR; INCR and EXPIRE are *)
(* separate calls of concurrent requests; and a counter stays in Redis     *)
(* until its TTL has run out, for ever if its EXPIRE was lost.             *)
(*                                                                         *)
(* limit      settings.rate_limit_per_minute; 0 switches the check off     *)
(* now, tick  time.time(): the window it falls in, and the ticks into it   *)
(* check      how far the check of each request has come: arriving,        *)
(*            incrementing, expiring, admitted or limited (429)            *)
(* bucket     the window that the clock showed to each request             *)
(* counter    the value of each counter in Redis, 0 when there is no key   *)
(* ttl        the ticks left to the key, 0 when it has no TTL              *)
(* counted    history: the requests whose INCR was applied                 *)
(* late       history: those of them whose window was over by then         *)
(* open       history: the requests let through because INCR had failed    *)
(***************************************************************************)
EXTENDS Naturals, FiniteSets

CONSTANTS
    Requests,
    ClientOf,  \* the address each request comes from
    Limits,    \* the limits that may be configured
    Window,    \* the ticks in a window
    LastWindow \* bound on the windows

ASSUME RateLimitAssumption ==
    /\ IsFiniteSet(Requests) /\ DOMAIN ClientOf = Requests
    /\ Limits \subseteq Nat
    /\ Window \in Nat \ {0} /\ LastWindow \in Nat

VARIABLES limit, now, tick, check, bucket, counter, ttl, counted, late, open

vars == <<limit, now, tick, check, bucket, counter, ttl, counted, late, open>>

Counters == {ClientOf[r] : r \in Requests} \X (0 .. LastWindow)

\* Faulty variant: one counter for each client, whatever the window.
KeyPerClient(r) == <<ClientOf[r], 0>>

\* The key ratelimit:{identifier}:{bucket}.
CounterOf(r) == <<ClientOf[r], bucket[r]>>

Init ==
    /\ limit \in Limits
    /\ now = 0 /\ tick \in 0 .. (Window - 1)
    /\ check = [r \in Requests |-> "arriving"]
    /\ bucket = [r \in Requests |-> 0]
    /\ counter = [c \in Counters |-> 0]
    /\ ttl = [c \in Counters |-> 0]
    /\ counted = {} /\ late = {} /\ open = {}

Moves(r, from, to) ==
    /\ check[r] = from
    /\ check' = [check EXCEPT ![r] = to]
    /\ UNCHANGED <<limit, now, tick>>

-----------------------------------------------------------------------------
Unlimited(r) ==
    /\ limit = 0
    /\ Moves(r, "arriving", "admitted")
    /\ UNCHANGED <<bucket, counter, ttl, counted, late, open>>

ReadClock(r) ==
    /\ limit > 0
    /\ Moves(r, "arriving", "incrementing")
    /\ bucket' = [bucket EXCEPT ![r] = now]
    /\ UNCHANGED <<counter, ttl, counted, late, open>>

\* INCR as Redis applies it: a new key has no TTL.
Count(r) ==
    /\ counter' = [counter EXCEPT ![CounterOf(r)] = @ + 1]
    /\ counted' = counted \cup {r}
    /\ late' = IF now > bucket[r] THEN late \cup {r} ELSE late
    /\ UNCHANGED <<bucket, ttl>>

\* The reply of INCR is one more than the value was.
Incr(r) ==
    /\ LET count == counter[CounterOf(r)] + 1
       IN  \/ count = 1 /\ Moves(r, "incrementing", "expiring")
           \/ count \in 2 .. limit /\ Moves(r, "incrementing", "admitted")
           \/ count > 1 /\ count > limit /\ Moves(r, "incrementing", "limited")
    /\ Count(r)
    /\ UNCHANGED open

\* Faulty variant: a tick less than the window.
SetShortTtl(r) ==
    ttl' = [ttl EXCEPT ![CounterOf(r)] = IF counter[CounterOf(r)] = 0 THEN 0 ELSE Window - 1]

\* EXPIRE as Redis applies it: nothing happens when the key is gone.
SetTtl(r) ==
    ttl' = [ttl EXCEPT ![CounterOf(r)] = IF counter[CounterOf(r)] = 0 THEN 0 ELSE Window]

Expire(r) ==
    /\ Moves(r, "expiring", "admitted")
    /\ SetTtl(r)
    /\ UNCHANGED <<bucket, counter, counted, late, open>>

\* A call raises, whether it was applied or not, and the request is let through.
IncrFails(r) ==
    /\ Moves(r, "incrementing", "admitted")
    /\ Count(r) \/ UNCHANGED <<bucket, counter, ttl, counted, late>>
    /\ open' = open \cup {r}

ExpireFails(r) ==
    /\ Moves(r, "expiring", "admitted")
    /\ SetTtl(r) \/ UNCHANGED ttl
    /\ UNCHANGED <<bucket, counter, counted, late, open>>

\* Time passes, and the keys whose TTL ends are gone.
Tick ==
    /\ \/ tick < Window - 1 /\ tick' = tick + 1 /\ now' = now
       \/ tick = Window - 1 /\ tick' = 0 /\ now < LastWindow /\ now' = now + 1
    /\ counter' = [c \in Counters |-> IF ttl[c] = 1 THEN 0 ELSE counter[c]]
    /\ ttl' = [c \in Counters |-> IF ttl[c] = 0 THEN 0 ELSE ttl[c] - 1]
    /\ UNCHANGED <<limit, check, bucket, counted, late, open>>

Done ==
    /\ \A r \in Requests : check[r] \in {"admitted", "limited"}
    /\ UNCHANGED vars

Next ==
    \/ \E r \in Requests :
          \/ Unlimited(r) \/ ReadClock(r)
          \/ Incr(r) \/ IncrFails(r)
          \/ Expire(r) \/ ExpireFails(r)
    \/ Tick
    \/ Done

Spec == Init /\ [][Next]_vars

-----------------------------------------------------------------------------
(* Properties. *)

SameCounter(r) == {q \in Requests : ClientOf[q] = ClientOf[r] /\ bucket[q] = bucket[r]}

\* No more requests of one client than the limit are let through in a window,
\* however many of them are being checked at once: the TTL, which starts with
\* the first request and not with the window, never ends a counter whose window
\* still runs.  Two kinds of request escape: those let through because Redis
\* failed, and those counted after their window, when the key may be gone.
LimitKept ==
    limit > 0 =>
        \A r \in counted :
            Cardinality({q \in SameCounter(r) \cap counted :
                            check[q] # "limited" /\ q \notin open \cup late}) <= limit

\* A client is turned away only for what it did itself in that window: more
\* requests than the limit were counted.  A counter whose EXPIRE was lost, and
\* that no TTL will ever end, locks nobody out.
RejectionIsReal ==
    \A r \in Requests :
        check[r] = "limited" => Cardinality(SameCounter(r) \cap counted) > limit

=============================================================================

-------------------------------- MODULE Stats --------------------------------
(***************************************************************************)
(* The two summaries of the events collection: the rollup document that    *)
(* RollupScheduler of app/worker/rollup.py refreshes for GET /events/stats *)
(* and the summary that GET /events/stats/realtime keeps in Redis with     *)
(* RedisCache.get_or_set.  Both count events with an aggregation that runs *)
(* beside the inserts, and write the result in a later call.  A count is   *)
(* modelled by its total; that events leave the realtime window with time  *)
(* is not.                                                                 *)
(*                                                                         *)
(* events   the number of events in the collection                         *)
(* rollup   the total in the rollup document, None before the first one    *)
(* refresh  the _refresh of each caller: idle, counting or writing         *)
(* tally    what each has counted; while it counts, the events it must see *)
(* cached   the total in the summary in Redis, None when there is no key   *)
(* ttl      the ticks left to that key                                     *)
(* reader   each realtime request: idle, counting or writing               *)
(* fresh    as tally, for each realtime request                            *)
(* asked    the GET /events/stats of one client, which asks again and      *)
(*          again: idle or counting, that is, served live                  *)
(* seen     as tally, for that request                                     *)
(* last     its last answer: where it came from, and the total             *)
(***************************************************************************)
EXTENDS Naturals

CONSTANTS MaxEvents, Readers, Ttl, None

ASSUME StatsAssumption ==
    /\ MaxEvents \in Nat
    /\ Ttl \in Nat \ {0}
    /\ None \notin Nat

\* The callers of _refresh: RollupScheduler.start, for the first one, and _run.
Refreshers == {"start", "run"}

VARIABLES events, rollup, refresh, tally, cached, ttl, reader, fresh, asked, seen, last

rollupVars == <<rollup, refresh, tally>>

realtimeVars == <<cached, ttl, reader, fresh>>

clientVars == <<asked, seen, last>>

statsVars == <<events, rollupVars, realtimeVars, clientVars>>

\* The collections and the cache are as earlier processes have left them.
StatsInit ==
    /\ events \in 0 .. MaxEvents
    /\ rollup \in {None} \cup 0 .. events
    /\ \/ cached = None /\ ttl = 0
       \/ cached \in 0 .. events /\ ttl \in 1 .. Ttl
    /\ refresh = [k \in Refreshers |-> "idle"]
    /\ tally = [k \in Refreshers |-> 0]
    /\ reader = [r \in Readers |-> "idle"]
    /\ fresh = [r \in Readers |-> 0]
    /\ asked = "idle" /\ seen = 0
    /\ last = [source |-> "none", total |-> 0]

\* bulk_write, by a worker of this process or of another one.
Insert ==
    /\ events < MaxEvents
    /\ events' = events + 1
    /\ UNCHANGED <<rollupVars, realtimeVars, clientVars>>

\* What an aggregation may count that began when there were `before` events: no
\* event is ever deleted, and each one inserted meanwhile is counted or not.
Counts(before) == before .. events

-----------------------------------------------------------------------------
(* The rollup: refresh_event_type_rollup, awaited by RollupScheduler. *)

BeginRefresh(k) ==
    /\ refresh[k] = "idle"
    /\ refresh' = [refresh EXCEPT ![k] = "counting"]
    /\ tally' = [tally EXCEPT ![k] = events]
    /\ UNCHANGED <<events, rollup, realtimeVars, clientVars>>

CountForRollup(k) ==
    /\ refresh[k] = "counting"
    /\ refresh' = [refresh EXCEPT ![k] = "writing"]
    /\ \E total \in Counts(tally[k]) : tally' = [tally EXCEPT ![k] = total]
    /\ UNCHANGED <<events, rollup, realtimeVars, clientVars>>

RefreshOver(k) ==
    /\ refresh' = [refresh EXCEPT ![k] = "idle"]
    /\ tally' = [tally EXCEPT ![k] = 0]
    /\ UNCHANGED <<events, realtimeVars, clientVars>>

WriteRollup(k) ==
    /\ refresh[k] = "writing"
    /\ rollup' = tally[k]
    /\ RefreshOver(k)

\* A call raises or is cancelled; an update may have been applied.
AbandonRefresh(k) ==
    /\ refresh[k] # "idle"
    /\ \/ UNCHANGED rollup
       \/ refresh[k] = "writing" /\ rollup' = tally[k]
    /\ RefreshOver(k)

-----------------------------------------------------------------------------
(* The realtime summary: get_realtime_stats. *)

\* Faulty variant: a hit renews the key.
HitRenews(r) ==
    /\ reader[r] = "idle"
    /\ cached # None
    /\ ttl' = Ttl
    /\ UNCHANGED <<events, rollupVars, cached, reader, fresh, clientVars>>

\* GET finds the key, and the request is answered.
Hit(r) ==
    /\ reader[r] = "idle"
    /\ cached # None
    /\ UNCHANGED statsVars

\* GET finds no key, or raises.
Miss(r) ==
    /\ reader[r] = "idle"
    /\ reader' = [reader EXCEPT ![r] = "counting"]
    /\ fresh' = [fresh EXCEPT ![r] = events]
    /\ UNCHANGED <<events, rollupVars, cached, ttl, clientVars>>

CountForReader(r) ==
    /\ reader[r] = "counting"
    /\ reader' = [reader EXCEPT ![r] = "writing"]
    /\ \E total \in Counts(fresh[r]) : fresh' = [fresh EXCEPT ![r] = total]
    /\ UNCHANGED <<events, rollupVars, cached, ttl, clientVars>>

ReaderDone(r) ==
    /\ reader' = [reader EXCEPT ![r] = "idle"]
    /\ fresh' = [fresh EXCEPT ![r] = 0]
    /\ UNCHANGED <<events, rollupVars, clientVars>>

\* SET with EX, whatever is in the cache by now.
SetSummary(r) ==
    /\ reader[r] = "writing"
    /\ cached' = fresh[r] /\ ttl' = Ttl
    /\ ReaderDone(r)

\* The aggregation raises (503), or SET does, and the caller is answered
\* nevertheless.
ReaderFails(r) ==
    /\ reader[r] # "idle"
    /\ ReaderDone(r)
    /\ UNCHANGED <<cached, ttl>>

\* Time passes in Redis.
TtlTick ==
    /\ ttl > 0
    /\ ttl' = ttl - 1
    /\ cached' = IF ttl' = 0 THEN None ELSE cached
    /\ UNCHANGED <<events, rollupVars, reader, fresh, clientVars>>

-----------------------------------------------------------------------------
(* The unfiltered, unbucketed GET /events/stats: get_stats. *)

Answered(origin, count) == last' = [source |-> origin, total |-> count]

\* get_event_type_rollup finds the document.
AskRollup ==
    /\ asked = "idle"
    /\ rollup # None
    /\ Answered("rollup", rollup)
    /\ UNCHANGED <<events, rollupVars, realtimeVars, asked, seen>>

\* It finds none, and aggregate_counts is called.
AskLive ==
    /\ asked = "idle"
    /\ rollup = None
    /\ asked' = "counting"
    /\ seen' = events
    /\ UNCHANGED <<events, rollupVars, realtimeVars, last>>

\* The aggregation returns, or raises (503).
AnswerLive ==
    /\ asked = "counting"
    /\ asked' = "idle"
    /\ seen' = 0
    /\ \/ \E total \in Counts(seen) : Answered("live", total)
       \/ UNCHANGED last
    /\ UNCHANGED <<events, rollupVars, realtimeVars>>

-----------------------------------------------------------------------------
Answering(r) == CountForReader(r) \/ SetSummary(r) \/ ReaderFails(r)

=============================================================================

----------------------------- MODULE Idempotency -----------------------------
(***************************************************************************)
(* POST /events with an Idempotency-Key: create_event asks RedisCache.     *)
(* check_idempotency, IngestionService.ingest derives the event id from    *)
(* the key, and the insert into MongoDB keeps the first document of an id. *)
(* The two calls to Redis, the enqueueing and the insert are separate      *)
(* steps of concurrent requests.  The pipeline in between is that of       *)
(* WorkerPool; here an event waits in it and is then inserted, in any      *)
(* order.                                                                  *)
(*                                                                         *)
(* request   how far each request has come: new, comparing (SET NX found   *)
(*           the key taken), checked, or the status it is answered with    *)
(* claim     the fingerprint in Redis under each key                       *)
(* queued    the accepted requests whose event is not inserted yet         *)
(* document  the body stored under each event id                           *)
(* forgotten history: the keys whose claim has expired, or for which a     *)
(*           check has failed open                                         *)
(***************************************************************************)
EXTENDS Naturals

CONSTANTS
    Requests, Keys, Bodies,
    KeyOf,         \* the key each request carries, or NoKey
    BodyOf,        \* the body each request carries
    None, NoKey,
    KeysExpire,    \* whether the TTL of a key may run out
    RedisMayFail   \* whether a call to Redis may raise

ASSUME IdempotencyAssumption ==
    /\ KeyOf \in [Requests -> Keys \cup {NoKey}]
    /\ BodyOf \in [Requests -> Bodies]
    /\ Keys \cap Requests = {}    \* the uuid5 of a key is no uuid4
    /\ NoKey \notin Keys /\ None \notin Bodies \cup Requests
    /\ KeysExpire \in BOOLEAN /\ RedisMayFail \in BOOLEAN

VARIABLES request, claim, queued, document, forgotten

vars == <<request, claim, queued, document, forgotten>>

Keyed(r) == KeyOf[r] # NoKey

\* Faulty variant: a fingerprint that covers what the server fills in for a
\* field the client leaves out, which differs from one request to the next.
FingerprintOfAll(r) == r

\* The hash of the fields that the client has set.
Fingerprint(r) == BodyOf[r]

\* uuid5 of the key, or a uuid4 that no other request has.
EventIdOf(r) == IF Keyed(r) THEN KeyOf[r] ELSE r

Init ==
    /\ request = [r \in Requests |-> "new"]
    /\ claim = [k \in Keys |-> None]
    /\ queued = {}
    /\ document = [id \in Keys \cup Requests |-> None]
    /\ forgotten = {}

Moves(r, from, to) ==
    /\ request[r] = from
    /\ request' = [request EXCEPT ![r] = to]

-----------------------------------------------------------------------------
Unkeyed(r) ==
    /\ ~Keyed(r)
    /\ Moves(r, "new", "checked")
    /\ UNCHANGED <<claim, queued, document, forgotten>>

\* Faulty variant: SET without NX.
ClaimAlways(r) ==
    /\ Keyed(r)
    /\ Moves(r, "new", "checked")
    /\ claim' = [claim EXCEPT ![KeyOf[r]] = Fingerprint(r)]
    /\ UNCHANGED <<queued, document, forgotten>>

\* SET NX.
Claim(r) ==
    /\ Keyed(r)
    /\ \/ /\ claim[KeyOf[r]] = None
          /\ Moves(r, "new", "checked")
          /\ claim' = [claim EXCEPT ![KeyOf[r]] = Fingerprint(r)]
       \/ /\ claim[KeyOf[r]] # None
          /\ Moves(r, "new", "comparing")
          /\ UNCHANGED claim
    /\ UNCHANGED <<queued, document, forgotten>>

\* GET, which returns None if the key has expired since the SET NX.
Compare(r) ==
    /\ \/ Moves(r, "comparing", "checked") /\ claim[KeyOf[r]] = Fingerprint(r)
       \/ Moves(r, "comparing", "409") /\ claim[KeyOf[r]] # Fingerprint(r)
    /\ UNCHANGED <<claim, queued, document, forgotten>>

\* Either call raises, and the check fails open.  A SET NX whose reply is lost
\* may have claimed the key.
CheckFails(r) ==
    /\ RedisMayFail
    /\ Keyed(r)
    /\ \/ Moves(r, "new", "checked")
       \/ Moves(r, "comparing", "checked")
    /\ \/ UNCHANGED claim
       \/ /\ request[r] = "new" /\ claim[KeyOf[r]] = None
          /\ claim' = [claim EXCEPT ![KeyOf[r]] = Fingerprint(r)]
    /\ forgotten' = forgotten \cup {KeyOf[r]}
    /\ UNCHANGED <<queued, document>>

\* The TTL of a key runs out.
Expire(k) ==
    /\ KeysExpire
    /\ claim[k] # None
    /\ claim' = [claim EXCEPT ![k] = None]
    /\ forgotten' = forgotten \cup {k}
    /\ UNCHANGED <<request, queued, document>>

\* ingest: whether the queue has room, or the service is closed, is up to the
\* other requests, the workers and the shutdown.
Ingest(r) ==
    /\ \/ Moves(r, "checked", "202") /\ queued' = queued \cup {r}
       \/ Moves(r, "checked", "429") /\ UNCHANGED queued
       \/ Moves(r, "checked", "503") /\ UNCHANGED queued
    /\ UNCHANGED <<claim, document, forgotten>>

\* The insert: a duplicate _id is skipped.
Insert(r) ==
    /\ r \in queued
    /\ queued' = queued \ {r}
    /\ document' = [document EXCEPT ![EventIdOf(r)] = IF @ = None THEN BodyOf[r] ELSE @]
    /\ UNCHANGED <<request, claim, forgotten>>

Answered(r) == request[r] \in {"202", "409", "429", "503"}

\* Every request is answered and every event inserted.
Done ==
    /\ \A r \in Requests : Answered(r)
    /\ queued = {}
    /\ UNCHANGED vars

Next ==
    \/ \E r \in Requests :
          Unkeyed(r) \/ Claim(r) \/ Compare(r) \/ CheckFails(r) \/ Ingest(r) \/ Insert(r)
    \/ \E k \in Keys : Expire(k)
    \/ Done

Spec == Init /\ [][Next]_vars

-----------------------------------------------------------------------------
(* Properties. *)

Delivered(r) == request[r] = "202" /\ r \notin queued

\* A body that was accepted is the one that is stored: no other one hides
\* behind its event id, as long as Redis has kept the claim on the key.
AcceptedIsStored ==
    \A r \in Requests :
        Delivered(r) /\ KeyOf[r] \notin forgotten => document[EventIdOf(r)] = BodyOf[r]

\* A retry with the same body is never a conflict, also when the first attempt
\* was turned away by a full queue after it had claimed the key: a 409 means
\* that a request with another body came before.
ConflictIsReal ==
    \A r \in Requests :
        request[r] = "409" /\ KeyOf[r] \notin forgotten =>
            \E q \in Requests :
                KeyOf[q] = KeyOf[r] /\ BodyOf[q] # BodyOf[r] /\ request[q] # "new"

-----------------------------------------------------------------------------
(* What the documentation says of the keys and the code does not keep. *)

\* redis_cache.py, check_idempotency: a conflict is a key that was reused with
\* a different body.
NoFalseConflict ==
    \A r \in Requests :
        request[r] = "409" => \E q \in Requests : KeyOf[q] = KeyOf[r] /\ BodyOf[q] # BodyOf[r]

=============================================================================

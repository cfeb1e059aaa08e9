------------------------------- MODULE Events -------------------------------
(***************************************************************************)
(* What the ingestion pipeline of acheron passes around.                   *)
(*                                                                         *)
(* A submission is one POST /events request that reaches                   *)
(* IngestionService.ingest.  It becomes an EventDocument whose event_id is *)
(* a fresh uuid4, or, when the request carries an Idempotency-Key, uuid5   *)
(* of the key: submissions with the same key share their event_id.  The    *)
(* rest of the document is not modelled; submissions with one event_id     *)
(* carry one body (a key reused with another body is a 409 before it gets  *)
(* here).                                                                  *)
(***************************************************************************)
EXTENDS Naturals, FiniteSets

CONSTANTS
    Subs,        \* submissions
    EventIds,    \* event ids: the _id of an event in both Mongo collections
    EventId,     \* the event id that ingest gives each submission
    Workers,     \* the consumer tasks of the worker pool
    Unencodable, \* ids of events that the driver cannot encode as BSON
                 \* (say, metadata with an integer wider than 64 bits)
    Refusable    \* ids of events for which MongoDB may answer a bulk insert
                 \* with a write error other than a duplicate key

ASSUME EventsAssumption ==
    /\ IsFiniteSet(Subs)
    /\ EventId \in [Subs -> EventIds]
    /\ Workers # {}
    /\ Unencodable \subseteq EventIds
    /\ Refusable \subseteq EventIds

\* Faulty variant: documents without an _id of their own event.
IdsPerSubmission(subs) == subs

\* The _ids of a batch once _dedupe_by_id has collapsed the repeated ones.
IdsOf(subs) == {EventId[s] : s \in subs}

=============================================================================

----------------------------- MODULE EsIndexer -----------------------------
(***************************************************************************)
(* The outbox: app/worker/es_indexer.py copies the events that MongoDB     *)
(* holds with es_indexed = false to Elasticsearch, through                 *)
(* ElasticsearchStore.bulk_index, and marks them.  Either store may be     *)
(* unreachable at any call, and the process may end between any two.       *)
(*                                                                         *)
(* An event is the rank of its received_at: fetch_unindexed sorts by it.   *)
(*                                                                         *)
(* stored       the events in MongoDB                                      *)
(* marked       those with es_indexed = true                               *)
(* indexed      the events in the Elasticsearch index                      *)
(* esIndex      the index: absent, created with the explicit mapping, or   *)
(*              auto-created by a write, with a dynamic one                *)
(* mappingReady ElasticsearchStore._mapping_ready                          *)
(* pc           the call the indexer task awaits: fetching (from the       *)
(*              outbox), checking (that the index exists), creating (it),  *)
(*              indexing, marking; idle between two passes; down           *)
(* batch        the events fetched for this pass                           *)
(* halts        how often the process has ended                            *)
(***************************************************************************)
EXTENDS Naturals, FiniteSets

CONSTANTS
    NumEvents,  \* the events are 1..NumEvents
    BatchSize,
    Rejectable, \* events for which Elasticsearch may fail a bulk item
    MaxHalts    \* bound on halts

Events == 1..NumEvents

ASSUME EsIndexerAssumption ==
    /\ NumEvents \in Nat
    /\ BatchSize \in Nat \ {0}
    /\ Rejectable \subseteq Events
    /\ MaxHalts \in Nat

VARIABLES stored, marked, indexed, esIndex, mappingReady, pc, batch, halts

vars == <<stored, marked, indexed, esIndex, mappingReady, pc, batch, halts>>

Unindexed == stored \ marked

\* Faulty variant: a cursor in the place of the marker.
FetchedAfterCursor ==
    LET newer == {e \in Unindexed : \A m \in marked : m < e}
    IN  {e \in newer : Cardinality({d \in newer : d < e}) < BatchSize}

\* Faulty variant: one event more than the limit.
FetchedOneMore ==
    {e \in Unindexed : Cardinality({d \in Unindexed : d < e}) <= BatchSize}

\* fetch_unindexed: up to BatchSize pending events, oldest first.
FetchedBatch ==
    {e \in Unindexed : Cardinality({d \in Unindexed : d < e}) < BatchSize}

\* MongoDB and Elasticsearch are empty, the process is not started.
Init ==
    /\ stored = {}
    /\ marked = {}
    /\ indexed = {}
    /\ esIndex = "absent"
    /\ mappingReady = FALSE
    /\ pc = "down"
    /\ batch = {}
    /\ halts = 0

-----------------------------------------------------------------------------
\* A worker inserts the event with its marker, one atomic document; the order
\* of the inserts is not that of received_at.
Store(e) ==
    /\ e \notin stored
    /\ stored' = stored \cup {e}
    /\ UNCHANGED <<marked, indexed, esIndex, mappingReady, pc, batch, halts>>

\* ensure_mapping, where the index may have been there already.
Mapped == IF esIndex = "absent" THEN "explicit" ELSE esIndex

\* Startup: ensure_mapping is tried, and the indexer starts whether it returns
\* or raises (with or without an effect on the index).
Start ==
    /\ pc = "down"
    /\ \/ mappingReady' = TRUE /\ esIndex' = Mapped
       \/ UNCHANGED mappingReady /\ esIndex' \in {esIndex, Mapped}
    /\ pc' = "fetching"
    /\ UNCHANGED <<stored, marked, indexed, batch, halts>>

\* Faulty variant: the index is not looked for before it is written.
FetchUnchecked ==
    /\ pc = "fetching"
    /\ batch' = FetchedBatch
    /\ pc' = IF batch' = {} THEN "idle" ELSE "indexing"
    /\ UNCHANGED <<stored, marked, indexed, esIndex, mappingReady, halts>>

Fetch ==
    /\ pc = "fetching"
    /\ batch' = FetchedBatch
    /\ pc' = CASE batch' = {}                   -> "idle"
               [] batch' # {} /\ mappingReady  -> "indexing"
               [] batch' # {} /\ ~mappingReady -> "checking"
    /\ UNCHANGED <<stored, marked, indexed, esIndex, mappingReady, halts>>

\* ensure_mapping, its two calls.
CheckMapping ==
    /\ pc = "checking"
    /\ mappingReady' = (esIndex # "absent")
    /\ pc' = IF esIndex = "absent" THEN "creating" ELSE "indexing"
    /\ UNCHANGED <<stored, marked, indexed, esIndex, batch, halts>>

CreateMapping ==
    /\ pc = "creating"
    /\ esIndex' = "explicit"
    /\ mappingReady' = TRUE
    /\ pc' = "indexing"
    /\ UNCHANGED <<stored, marked, indexed, batch, halts>>

\* A bulk write creates the index it does not find.
IndexAll(events) ==
    /\ indexed' = indexed \cup events
    /\ esIndex' = IF esIndex = "absent" THEN "dynamic" ELSE esIndex

\* Faulty variant: a bulk call that raises half-way is taken for a success.
BulkIndexSwallows ==
    /\ pc = "indexing"
    /\ \E some \in SUBSET batch : IndexAll(some)
    /\ pc' = "marking"
    /\ UNCHANGED <<stored, marked, mappingReady, batch, halts>>

\* async_bulk returns; bulk_index logs the items that failed and returns too.
BulkIndex ==
    /\ pc = "indexing"
    /\ \E errors \in SUBSET (batch \cap Rejectable) : IndexAll(batch \ errors)
    /\ pc' = "marking"
    /\ UNCHANGED <<stored, marked, mappingReady, batch, halts>>

\* mark_indexed: one update of all the events of its argument.
Mark(events) == marked' = marked \cup events

\* Faulty variant: every pending event is marked, not those of the batch.
MarkPending ==
    /\ pc = "marking"
    /\ Mark(Unindexed)
    /\ pc' = IF Cardinality(batch) = BatchSize THEN "fetching" ELSE "idle"
    /\ batch' = {}
    /\ UNCHANGED <<stored, indexed, esIndex, mappingReady, halts>>

\* Faulty variant: an event whose item may fail is never marked.
MarkAccepted ==
    /\ pc = "marking"
    /\ Mark(batch \ Rejectable)
    /\ pc' = IF Cardinality(batch) = BatchSize THEN "fetching" ELSE "idle"
    /\ batch' = {}
    /\ UNCHANGED <<stored, indexed, esIndex, mappingReady, halts>>

\* A full batch means that more may be pending: the loop does not sleep.
MarkIndexed ==
    /\ pc = "marking"
    /\ Mark(batch)
    /\ pc' = IF Cardinality(batch) = BatchSize THEN "fetching" ELSE "idle"
    /\ batch' = {}
    /\ UNCHANGED <<stored, indexed, esIndex, mappingReady, halts>>

\* What a call that does not return may have done all the same.
HalfDone ==
    \/ UNCHANGED <<marked, indexed, esIndex>>
    \/ /\ pc = "creating"
       /\ esIndex' = "explicit"
       /\ UNCHANGED <<marked, indexed>>
    \/ /\ pc = "indexing"
       /\ \E some \in SUBSET batch : IndexAll(some)
       /\ UNCHANGED marked
    \/ /\ pc = "marking"
       /\ \E some \in SUBSET batch : Mark(some)
       /\ UNCHANGED <<indexed, esIndex>>

\* The awaited call raises; _run logs it and waits for the next pass.
PassFails ==
    /\ pc \in {"fetching", "checking", "creating", "indexing", "marking"}
    /\ HalfDone
    /\ pc' = "idle"
    /\ batch' = {}
    /\ UNCHANGED <<stored, mappingReady, halts>>

\* The poll interval is over.
Wake ==
    /\ pc = "idle"
    /\ pc' = "fetching"
    /\ UNCHANGED <<stored, marked, indexed, esIndex, mappingReady, batch, halts>>

\* The process ends, by a crash or by es_indexer.stop(), which cancels the task
\* wherever it is.
Halt ==
    /\ pc # "down"
    /\ halts < MaxHalts
    /\ halts' = halts + 1
    /\ HalfDone
    /\ mappingReady' = FALSE
    /\ batch' = {}
    /\ pc' = "down"
    /\ UNCHANGED stored

-----------------------------------------------------------------------------
Next ==
    \/ \E e \in Events : Store(e)
    \/ Start \/ Fetch \/ CheckMapping \/ CreateMapping \/ BulkIndex \/ MarkIndexed
    \/ PassFails \/ Wake \/ Halt

Spec == Init /\ [][Next]_vars

\* The process is restarted, the loop goes on polling, and a call made again
\* and again succeeds at some point: both stores recover from any outage.
Fairness ==
    /\ WF_vars(Start)
    /\ WF_vars(Wake)
    /\ SF_vars(Fetch)
    /\ SF_vars(CheckMapping)
    /\ SF_vars(CreateMapping)
    /\ SF_vars(BulkIndex)
    /\ SF_vars(MarkIndexed)

FairSpec == Spec /\ Fairness

-----------------------------------------------------------------------------
(* Properties. *)

\* The values every variable may take; a pass has its limit.
TypeOK ==
    /\ stored \subseteq Events
    /\ marked \subseteq Events
    /\ indexed \subseteq Events
    /\ esIndex \in {"absent", "explicit", "dynamic"}
    /\ mappingReady \in BOOLEAN
    /\ pc \in {"down", "idle", "fetching", "checking", "creating", "indexing", "marking"}
    /\ batch \subseteq Events /\ Cardinality(batch) <= BatchSize
    /\ halts \in 0..MaxHalts

\* The marker is flipped only on success of the bulk call: an event that is
\* marked is in the index, whatever calls failed and whenever the process ended,
\* unless Elasticsearch may have failed its item, which bulk_index only logs.
MarkedIsIndexed == marked \subseteq indexed \cup Rejectable

\* The index is never auto-created with a dynamic mapping, also when
\* Elasticsearch was down at startup, or lost the reply to the creation.
NoDynamicMapping == esIndex # "dynamic"

\* The store is the single commit point and the index its copy.  The marker
\* acknowledges the events but those whose item may fail, which it only skips.
MirrorOfStore == INSTANCE Mirror
    WITH source <- stored, copy <- indexed, acked <- marked \ Rejectable

\* The indexer implements the mirror.
ImplementsMirror == MirrorOfStore!MirrorSpec

\* Elasticsearch catches up on its own, with every event whose item it accepts:
\* no event is left behind in the outbox, even if it is stored after younger
\* ones were indexed.
EventuallyIndexed == \A e \in Events \ Rejectable : e \in stored ~> e \in indexed

\* The outbox drains: an event that fails in Elasticsearch does not hold up the
\* others.
OutboxDrains == \A e \in Events : e \in stored ~> e \in marked

=============================================================================

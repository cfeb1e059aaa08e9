------------------------------ MODULE Platform ------------------------------
(***************************************************************************)
(* The pipeline and the replays across restarts: the process is killed at  *)
(* any moment, or ends after a graceful shutdown, and is started again.    *)
(* The two collections are all that survives: the queue, the batches and   *)
(* the dead-letter buffer are memory of the process, which nothing writes  *)
(* down when it stops.                                                     *)
(*                                                                         *)
(* crashes  the restarts so far                                            *)
(***************************************************************************)
EXTENDS DlqReplay

CONSTANT MaxCrashes

ASSUME PlatformAssumption == MaxCrashes \in Nat

VARIABLE crashes

platformVars == <<vars, replayVars, crashes>>

PlatformInit == ReplayInit /\ crashes = 0

\* The calls that MongoDB may still apply, in part or not at all: the inserts
\* of the workers and of the replays, the persists, and the deletes.
Sent(batches) == UNION {ids \in batches : Encodable(ids)}

Inserting ==
    Sent({IdsOf(batch[w]) : w \in {v \in Workers : pc[v] = "writing"}}
         \cup {{target[r]} : r \in {q \in Replays : replay[q] = "writing"}})

Persisting == Sent({IdsOf(pending[w]) : w \in Workers})

\* Faulty variant: the rewrite and the delete are sent together.
DeletingEarly == {target[r] : r \in {q \in Replays : replay[q] \in {"writing", "deleting"}}}

Deleting == {target[r] : r \in {q \in Replays : replay[q] = "deleting"}}

\* What only the memory of the process holds.
InMemory == Held \cup unpersisted \cup UNION {pending[w] : w \in Workers}

Forgotten ==
    /\ queue' = <<>> /\ unfinished' = 0 /\ getters' = Workers
    /\ unpersisted' = {} /\ recorded' = 0 /\ pending' = [w \in Workers |-> {}]
    /\ phase' = "running" /\ pc' = [w \in Workers |-> "getting"]
    /\ batch' = [w \in Workers |-> {}] /\ attempt' = [w \in Workers |-> 0]
    /\ processed' = 0
    /\ UNCHANGED <<racedFailure, answer>>

Restart ==
    /\ crashes < MaxCrashes
    /\ crashes' = crashes + 1
    /\ \E inserted \in SUBSET Inserting : stored' = stored \cup inserted
    /\ \E persisted \in SUBSET Persisting, deleted \in SUBSET Deleting :
          dead' = (dead \cup persisted) \ deleted
    /\ Forgotten
    /\ dropped' = dropped \cup InMemory
    /\ replay' = [r \in Replays |->
                     IF replay[r] \in {"writing", "deleting"} THEN "failed" ELSE replay[r]]
    /\ UNCHANGED <<refused, target>>

PlatformNext ==
    \/ ReplayNext /\ UNCHANGED crashes
    \/ Restart

PlatformSpec == PlatformInit /\ [][PlatformNext]_platformVars

-----------------------------------------------------------------------------
(* Properties.  NoSilentLoss of WorkerPool and ReplayKeepsEvent of DlqReplay *)
(* are two of them.                                                          *)

\* A 202 is kept through replays and restarts as it is without them: an event
\* leaves the process for a collection, or because the process ended with it in
\* memory; a replay, a half-done call or a restart never takes an event out of
\* both collections, nor brings back one that nobody accepted.  (A refused event
\* counts as settled: bulk_write does not tell it from a duplicate.)
Settled == INSTANCE Delivery WITH
    accepted <- Accepted,
    inside <- InMemory,
    safe <- stored \cup dead \cup refused,
    excused <- {s \in Subs : s \in dropped \/ racedFailure}

KeepsPromise == Settled!Spec

=============================================================================

------------------------------ MODULE DlqReplay ------------------------------
(***************************************************************************)
(* POST /events/dlq/{event_id}/replay beside the pipeline that fills the   *)
(* dead-letter collection: replay_dead_letter of app/api/routes_events.py  *)
(* reads the record, writes its event to the events collection and deletes *)
(* the record.  At each of its three calls the workers go on, and other    *)
(* replays, of the same record too.                                        *)
(*                                                                         *)
(* replay   how far each replay request has come: new, writing, deleting,  *)
(*          or its answer: replayed (200), absent (404), failed (503 when  *)
(*          the driver raised, 500 when the event cannot be encoded)       *)
(* target   the event id each replay request names                         *)
(***************************************************************************)
EXTENDS WorkerPool

CONSTANT Replays

VARIABLES replay, target

replayVars == <<replay, target>>

ReplayInit ==
    /\ Init
    /\ replay = [r \in Replays |-> "new"]
    /\ target \in [Replays -> EventIds]

Goes(r, from, to) ==
    /\ replay[r] = from
    /\ replay' = [replay EXCEPT ![r] = to]
    /\ UNCHANGED <<target, queueVars, dlqVars, poolVars>>

\* get_dead_letter
FindRecord(r) ==
    /\ phase = "running"
    /\ \/ target[r] \in dead /\ Goes(r, "new", "writing")
       \/ target[r] \notin dead /\ Goes(r, "new", "absent")
       \/ Goes(r, "new", "failed")
    /\ UNCHANGED mongoVars

\* Faulty variant: the record is deleted even if the rewrite has raised.
RewriteOrNot(r) ==
    /\ Goes(r, "writing", "deleting")
    /\ BulkWrite({target[r]}) \/ BulkWriteFails({target[r]})

Rewrite(r) ==
    /\ Goes(r, "writing", "deleting")
    /\ BulkWrite({target[r]})

RewriteFails(r) ==
    /\ Goes(r, "writing", "failed")
    /\ BulkWriteFails({target[r]})

\* Faulty variant: the filter of the delete is left out.
ForgetAll(id) ==
    /\ dead' = {}
    /\ UNCHANGED <<stored, refused>>

Forget(id) ==
    /\ dead' = dead \ {id}
    /\ UNCHANGED <<stored, refused>>

\* delete_dead_letter: it makes no difference whether a record was deleted.
DeleteRecord(r) ==
    /\ Goes(r, "deleting", "replayed")
    /\ Forget(target[r])

DeleteFails(r) ==
    /\ Goes(r, "deleting", "failed")
    /\ Forget(target[r]) \/ UNCHANGED mongoVars

ReplayStep(r) ==
    \/ FindRecord(r)
    \/ Rewrite(r) \/ RewriteFails(r)
    \/ DeleteRecord(r) \/ DeleteFails(r)

\* As any other request, a replay is over before the shutdown starts.
ReplaysSettled == \A r \in Replays : replay[r] \notin {"writing", "deleting"}

PoolStep ==
    /\ \/ \E s \in Subs : Request(s)
       \/ \E w \in Workers : WorkerStep(w)
       \/ ReplaysSettled /\ Stop
       \/ Drained \/ DrainTimeout
       \/ Terminated
    /\ UNCHANGED replayVars

ReplayNext == PoolStep \/ \E r \in Replays : ReplayStep(r)

ReplaySpec == ReplayInit /\ [][ReplayNext]_<<vars, replayVars>>

-----------------------------------------------------------------------------
(* Properties.  NoSilentLoss of WorkerPool is one of them. *)

\* A record leaves the dead-letter collection only when its event is in the
\* events collection (or was refused there, which bulk_write does not tell),
\* whatever two replays of one record and the workers do at the same time.
ReplayKeepsEvent == [][dead \subseteq dead' \cup stored \cup refused]_<<vars, replayVars>>

-----------------------------------------------------------------------------
(* What the documentation says of the replay and the code does not keep. *)

\* routes_events.py, replay_dead_letter: the record is retained if the rewrite
\* fails, so a replay is safe to retry.
RetainedUnlessStored == [][dead \subseteq dead' \cup stored]_<<vars, replayVars>>

=============================================================================

-------------------------- MODULE DeadLetterQueue --------------------------
(***************************************************************************)
(* The dead-letter queue of app/queue/dlq.py over its durable sink, the    *)
(* MongoStore.  The workers push into it: each may be inside push_many,    *)
(* suspended at the await of the sink, while another one enters it.        *)
(*                                                                         *)
(* unpersisted  the entries in DeadLetterQueue._unpersisted                *)
(* recorded     DeadLetterQueue._recorded                                  *)
(* pending      for each worker the local list `pending` of the push_many  *)
(*              it is inside of, {} when it is inside of none              *)
(* racedFailure history: a persist has failed while another push_many was  *)
(*              suspended at its own                                       *)
(***************************************************************************)
EXTENDS MongoStore

VARIABLES unpersisted, recorded, pending, racedFailure

dlqVars == <<unpersisted, recorded, pending, racedFailure>>

DLQInit ==
    /\ unpersisted = {}
    /\ recorded = 0
    /\ pending = [w \in Workers |-> {}]
    /\ racedFailure = FALSE

Pushing(w) == pending[w] # {}

\* Faulty variant: the entries still in the buffer are counted again.
PushManyRecounts(w, events) ==
    /\ recorded' = recorded + Cardinality(unpersisted \cup events)
    /\ pending' = [pending EXCEPT ![w] = unpersisted \cup events]
    /\ UNCHANGED <<unpersisted, racedFailure>>

\* push_many up to its await: the events are counted, and what is to be
\* persisted is fixed: the buffer of this moment with the events added.
PushMany(w, events) ==
    /\ recorded' = recorded + Cardinality(events)
    /\ pending' = [pending EXCEPT ![w] = unpersisted \cup events]
    /\ UNCHANGED <<unpersisted, racedFailure>>

\* The persist succeeds: push_many clears the buffer and returns.
PushPersisted(w) ==
    /\ Pushing(w)
    /\ PersistDeadLetters(IdsOf(pending[w]))
    /\ unpersisted' = {}
    /\ pending' = [pending EXCEPT ![w] = {}]
    /\ UNCHANGED <<recorded, racedFailure>>

\* Faulty variant: the new entries are not retained.
PushForgets(w) ==
    /\ Pushing(w)
    /\ PersistDeadLettersFails(IdsOf(pending[w]))
    /\ pending' = [pending EXCEPT ![w] = {}]
    /\ racedFailure' = (racedFailure \/ \E v \in Workers \ {w} : Pushing(v))
    /\ UNCHANGED <<unpersisted, recorded>>

\* The persist raises: this call's list becomes the buffer.
PushBuffered(w) ==
    /\ Pushing(w)
    /\ PersistDeadLettersFails(IdsOf(pending[w]))
    /\ unpersisted' = pending[w]
    /\ pending' = [pending EXCEPT ![w] = {}]
    /\ racedFailure' = (racedFailure \/ \E v \in Workers \ {w} : Pushing(v))
    /\ UNCHANGED recorded

\* The caller is cancelled at the await.  CancelledError is not an Exception:
\* the buffer stays as it is.
PushCancelled(w) ==
    /\ Pushing(w)
    /\ PersistDeadLettersFails(IdsOf(pending[w]))
    /\ pending' = [pending EXCEPT ![w] = {}]
    /\ UNCHANGED <<unpersisted, recorded, racedFailure>>

=============================================================================

----------------------------- MODULE MongoStore -----------------------------
(***************************************************************************)
(* The two collections the pipeline writes, with the write operations of   *)
(* app/storage/mongo.py on them.  Both collections are keyed by event id,  *)
(* so inserting is idempotent: a repeated _id is a duplicate-key write     *)
(* error, which bulk_write and persist_dead_letters swallow together with  *)
(* every other BulkWriteError.                                             *)
(*                                                                         *)
(* stored   the _ids in the events collection                              *)
(* dead     the _ids in the dead_letter collection                         *)
(* refused  history: the ids MongoDB answered with a write error other     *)
(*          than a duplicate key, in a call that returned as a success     *)
(***************************************************************************)
EXTENDS Events

VARIABLES stored, dead, refused

mongoVars == <<stored, dead, refused>>

MongoInit ==
    /\ stored = {}
    /\ dead = {}
    /\ refused = {}

Encodable(ids) == ids \cap Unencodable = {}

\* What an insert_many that raises may have written by then.  Encoding
\* precedes sending: if that is what failed, nothing is written.
PartialWrites(ids) == IF Encodable(ids) THEN SUBSET ids ELSE {{}}

\* bulk_write returns.
BulkWrite(ids) ==
    /\ Encodable(ids)
    /\ \E errors \in SUBSET (ids \cap Refusable) :
          /\ stored' = stored \cup (ids \ errors)
          /\ refused' = refused \cup errors
    /\ UNCHANGED dead

\* bulk_write raises, or its caller is cancelled while it is under way.
BulkWriteFails(ids) ==
    /\ \E written \in PartialWrites(ids) : stored' = stored \cup written
    /\ UNCHANGED <<dead, refused>>

\* persist_dead_letters returns.
PersistDeadLetters(ids) ==
    /\ Encodable(ids)
    /\ \E errors \in SUBSET (ids \cap Refusable) :
          /\ dead' = dead \cup (ids \ errors)
          /\ refused' = refused \cup errors
    /\ UNCHANGED stored

\* persist_dead_letters raises, or its caller is cancelled.
PersistDeadLettersFails(ids) ==
    /\ \E written \in PartialWrites(ids) : dead' = dead \cup written
    /\ UNCHANGED <<stored, refused>>

=============================================================================

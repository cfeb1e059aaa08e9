--------------------------- MODULE PlatformProofs ---------------------------
(***************************************************************************)
(* Theorems about DlqReplay and Platform: what replays and restarts cannot *)
(* break, for any number of both.                                          *)
(***************************************************************************)
EXTENDS Platform, DeliveryProofs

-----------------------------------------------------------------------------
(* Replays beside the pipeline. *)

\* A replay that is about to delete its record has had bulk_write return.
Rewritten ==
    /\ target \in [Replays -> EventIds]
    /\ replay \in [Replays -> {"new", "writing", "deleting", "replayed", "absent", "failed"}]
    /\ \A r \in Replays : replay[r] = "deleting" => target[r] \in stored \cup refused

ReplayInv == LossInv /\ Rewritten

LEMMA ReplayInvInit == ReplayInit => ReplayInv
<1> SUFFICES ASSUME ReplayInit
             PROVE  ReplayInv
  OBVIOUS
<1>1. Init
  BY DEF ReplayInit
<1>2. LossInv
  BY <1>1, LossInit
<1>3. Rewritten
  BY DEF ReplayInit, Rewritten
<1> QED
  BY <1>2, <1>3 DEF ReplayInv

\* A replay leaves the pipeline alone, adds to the events collection, and takes
\* from the dead-letter collection only an event that it has rewritten.
LEMMA ReplayEffect ==
    ASSUME ReplayInv, NEW r \in Replays, ReplayStep(r)
    PROVE  /\ UNCHANGED <<queueVars, dlqVars, poolVars, target>>
           /\ stored \subseteq stored' /\ refused \subseteq refused'
           /\ dead \subseteq dead' \cup stored \cup refused
           /\ Rewritten'
<1> USE DEF ReplayInv, Rewritten, Goes
<1>1. CASE FindRecord(r)
  BY <1>1 DEF FindRecord, mongoVars
<1>2. CASE Rewrite(r)
  BY <1>2 DEF Rewrite, BulkWrite
<1>3. CASE RewriteFails(r)
  BY <1>3 DEF RewriteFails, BulkWriteFails
<1>4. CASE DeleteRecord(r)
  BY <1>4 DEF DeleteRecord, Forget
<1>5. CASE DeleteFails(r)
  BY <1>5 DEF DeleteFails, Forget, mongoVars
<1> QED
  BY <1>1, <1>2, <1>3, <1>4, <1>5 DEF ReplayStep

\* So everything that holds of the pipeline alone goes on holding.
LEMMA ReplayTypes ==
    ASSUME ReplayInv, NEW r \in Replays, ReplayStep(r)
    PROVE  TypeOK'
<1>1. TypeOK /\ target[r] \in EventIds
  BY DEF ReplayInv, LossInv, HoldingInv, Rewritten
<1>2. UNCHANGED <<queueVars, dlqVars, poolVars>>
  BY ReplayEffect
<1>3. stored' \subseteq EventIds /\ dead' \subseteq EventIds /\ refused' \subseteq EventIds
  <2>1. CASE FindRecord(r)
    BY <1>1, <2>1, MongoType DEF FindRecord
  <2>2. CASE Rewrite(r) \/ RewriteFails(r)
    BY <1>1, <2>2, MongoType DEF Rewrite, RewriteFails
  <2>3. CASE DeleteRecord(r) \/ DeleteFails(r)
    BY <1>1, <2>3 DEF DeleteRecord, DeleteFails, Forget, TypeOK, mongoVars
  <2> QED
    BY <2>1, <2>2, <2>3 DEF ReplayStep
<1> QED
  BY <1>1, <1>2, <1>3 DEF TypeOK, queueVars, dlqVars, poolVars

LEMMA ReplayKeepsPool ==
    ASSUME LossInv, TypeOK', UNCHANGED <<queueVars, dlqVars, poolVars>>
    PROVE  HoldingInv' /\ Pushes'
<1> USE DEF LossInv, HoldingInv, queueVars, dlqVars, poolVars
<1>1. Held' = Held /\ Accepted' = Accepted
  BY DEF Held, Accepted
<1>2. OneHolder' /\ Hands' /\ QueueAccounting'
  BY <1>1 DEF OneHolder, Hands, QueueAccounting
<1>3. Pushes'
  BY DEF Pushes, Pushing
<1> QED
  BY <1>2, <1>3

LEMMA PoolStepIsNext == PoolStep => Next /\ UNCHANGED replayVars
BY DEF PoolStep, Next, Shutdown

LEMMA ReplayInvStep == ReplayInv /\ [ReplayNext]_<<vars, replayVars>> => ReplayInv'
<1> SUFFICES ASSUME ReplayInv, [ReplayNext]_<<vars, replayVars>>
             PROVE  ReplayInv'
  OBVIOUS
<1>1. ASSUME NEW r \in Replays, ReplayStep(r)
      PROVE  ReplayInv'
  <2>1. /\ UNCHANGED <<queueVars, dlqVars, poolVars>>
        /\ stored \subseteq stored' /\ refused \subseteq refused'
        /\ dead \subseteq dead' \cup stored \cup refused
        /\ Rewritten'
    BY <1>1, ReplayEffect
  <2>2. TypeOK'
    BY <1>1, ReplayTypes DEF ReplayInv, LossInv, HoldingInv
  <2>3. HoldingInv' /\ Pushes'
    BY <2>1, <2>2, ReplayKeepsPool DEF ReplayInv, LossInv
  <2>4. NoSilentLoss'
    BY <2>1 DEF ReplayInv, LossInv, NoSilentLoss, Recoverable, GivenUp, Accepted, Held,
                queueVars, dlqVars, poolVars
  <2> QED
    BY <2>1, <2>3, <2>4 DEF ReplayInv, LossInv
<1>2. CASE [Next]_vars /\ UNCHANGED replayVars
  <2>1. LossInv'
    BY <1>2, LossStep DEF ReplayInv
  <2>2. stored \subseteq stored' /\ refused \subseteq refused'
    BY <1>2, Accumulates DEF ReplayInv, LossInv, HoldingInv
  <2> QED
    BY <1>2, <2>1, <2>2 DEF ReplayInv, Rewritten, replayVars
<1> QED
  BY <1>1, <1>2, PoolStepIsNext DEF ReplayNext

\* A 202 is kept while dead-lettered events are replayed, however the replays
\* interleave with the workers and with each other: with the exceptions of
\* NoSilentLossHolds, and an event that MongoDB refused in a replay.
THEOREM NoSilentLossUnderReplay == ReplaySpec => []NoSilentLoss
<1>1. ReplayInv => NoSilentLoss
  BY DEF ReplayInv, LossInv
<1> QED
  BY <1>1, ReplayInvInit, ReplayInvStep, PTL DEF ReplaySpec

LEMMA ReplayStepKeepsEvent ==
    ASSUME ReplayInv, ReplayNext
    PROVE  dead \subseteq dead' \cup stored \cup refused
<1>1. CASE PoolStep
  BY <1>1, PoolStepIsNext, Accumulates DEF ReplayInv, LossInv, HoldingInv
<1>2. ASSUME NEW r \in Replays, ReplayStep(r)
      PROVE  dead \subseteq dead' \cup stored \cup refused
  BY <1>2, ReplayEffect
<1> QED
  BY <1>1, <1>2 DEF ReplayNext

\* replay_dead_letter deletes a record only after bulk_write has returned for
\* its event: the record's event is then in the events collection or was
\* refused there.
THEOREM ReplayKeepsEventHolds == ReplaySpec => ReplayKeepsEvent
<1>1. ReplayInv /\ [ReplayNext]_<<vars, replayVars>>
        => [dead \subseteq dead' \cup stored \cup refused]_<<vars, replayVars>>
  BY ReplayStepKeepsEvent
<1> QED
  BY <1>1, ReplayInvInit, ReplayInvStep, PTL DEF ReplaySpec, ReplayKeepsEvent

\* If MongoDB refuses no event, nothing is taken for a duplicate.
LEMMA NothingRefused ==
    ASSUME Refusable = {}, NEW ids, refused = {},
           \/ BulkWrite(ids) \/ BulkWriteFails(ids)
           \/ PersistDeadLetters(ids) \/ PersistDeadLettersFails(ids)
           \/ UNCHANGED mongoVars
    PROVE  refused' = {}
BY DEF BulkWrite, BulkWriteFails, PersistDeadLetters, PersistDeadLettersFails, mongoVars

LEMMA NothingRefusedStep ==
    ASSUME Refusable = {}, refused = {}, ReplayNext \/ UNCHANGED <<vars, replayVars>>
    PROVE  refused' = {}
<1>1. ASSUME NEW w \in Workers, WorkerStep(w)
      PROVE  refused' = {}
  <2>1. CASE Resume(w) \/ GetTimeout(w) \/ BackoffOver(w)
    BY <2>1 DEF Resume, GetTimeout, BackoffOver, mongoVars
  <2>2. CASE WriteOk(w) \/ WriteFail(w)
    BY <2>2, NothingRefused DEF WriteOk, WriteFail
  <2>3. CASE PersistOk(w) \/ PersistFail(w)
    BY <2>3, NothingRefused DEF PersistOk, PersistFail, PushPersisted, PushBuffered
  <2>4. CASE Cancel(w)
    BY <2>4, NothingRefused DEF Cancel, PushCancelled, mongoVars
  <2> QED
    BY <1>1, <2>1, <2>2, <2>3, <2>4 DEF WorkerStep
<1>2. CASE PoolStep
  BY <1>1, <1>2 DEF PoolStep, Request, Accept, RejectFull, RejectClosed, Answer, Stop, Drained,
                    DrainTimeout, Terminated, vars, mongoVars
<1>3. ASSUME NEW r \in Replays, ReplayStep(r)
      PROVE  refused' = {}
  BY <1>3, NothingRefused DEF ReplayStep, FindRecord, Rewrite, RewriteFails, DeleteRecord,
                              DeleteFails, Forget, mongoVars
<1>4. CASE UNCHANGED <<vars, replayVars>>
  BY <1>4 DEF vars, mongoVars
<1> QED
  BY <1>2, <1>3, <1>4 DEF ReplayNext

\* routes_events.py, replay_dead_letter: "the record is retained if the rewrite
\* fails" is true as long as MongoDB refuses no event with a write error other
\* than a duplicate key, which bulk_write swallows.
THEOREM RetainedIfNothingRefused ==
    ASSUME Refusable = {}
    PROVE  ReplaySpec => RetainedUnlessStored
<1> DEFINE RetainedInv == ReplayInv /\ refused = {}
<1>1. ReplayInit => RetainedInv
  BY ReplayInvInit DEF ReplayInit, Init, MongoInit
<1>2. RetainedInv /\ [ReplayNext]_<<vars, replayVars>> => RetainedInv'
  BY ReplayInvStep, NothingRefusedStep
<1>3. RetainedInv /\ [ReplayNext]_<<vars, replayVars>>
        => [dead \subseteq dead' \cup stored]_<<vars, replayVars>>
  BY ReplayStepKeepsEvent
<1> QED
  BY <1>1, <1>2, <1>3, PTL DEF ReplaySpec, RetainedUnlessStored

-----------------------------------------------------------------------------
(* Replays and restarts. *)

\* A replay that has found its record rewrites an event that was accepted once.
Found ==
    \A r \in Replays :
        replay[r] \in {"writing", "deleting"} => target[r] \in stored \cup dead \cup refused

PlatformInv == ReplayInv /\ PendingKnown /\ Found

LEMMA PlatformInvParts ==
    PlatformInv => DeliveryInv /\ TypeOK /\ Rewritten /\ InMemory = Inside /\ InMemory' = Inside'
BY DEF PlatformInv, DeliveryInv, ReplayInv, LossInv, HoldingInv, InMemory, Inside

LEMMA PlatformInitial == PlatformInit => Settled!Init /\ PlatformInv
<1> SUFFICES ASSUME PlatformInit
             PROVE  Settled!Init /\ PlatformInv
  OBVIOUS
<1>1. ReplayInv /\ Init
  BY ReplayInvInit DEF PlatformInit, ReplayInit
<1>2. DeliveryInv
  BY <1>1, DeliveryInit
<1>3. Held = {} /\ unpersisted = {} /\ \A w \in Workers : pending[w] = {}
  BY <1>1 DEF Init, QueueInit, DLQInit, Held, Range
<1>4. /\ Accepted = {} /\ stored \cup dead \cup refused = {}
      /\ \A s \in Subs : ~(s \in dropped \/ racedFailure)
  BY <1>1 DEF Init, MongoInit, DLQInit, Accepted
<1>5. Found
  BY DEF PlatformInit, ReplayInit, Found
<1> QED
  BY <1>1, <1>2, <1>3, <1>4, <1>5 DEF Settled!Init, InMemory, PlatformInv, DeliveryInv

-----------------------------------------------------------------------------
\* The collections together, and what was refused, only grow.
Settles ==
    stored \cup dead \cup refused \subseteq stored' \cup dead' \cup refused'

(* A step of the pipeline. *)
LEMMA PoolSettles ==
    ASSUME PlatformInv, [Next]_vars, UNCHANGED replayVars
    PROVE  [Settled!Next]_(Settled!deliveryVars) /\ PlatformInv'
<1>1. DeliveryInv /\ TypeOK /\ InMemory = Inside /\ InMemory' = Inside'
  BY PlatformInvParts
<1>2. /\ stored \subseteq stored' /\ dead \subseteq dead'
      /\ refused \subseteq refused' /\ dropped \subseteq dropped'
  BY <1>1, Accumulates
<1>3. LossInv' /\ Kept
  BY <1>1, LossStep, EveryStepKeeps DEF DeliveryInv
<1>4. Rewritten' /\ Found'
  BY <1>2 DEF PlatformInv, ReplayInv, Rewritten, Found, replayVars
<1>5. ASSUME NEW s \in Subs, Accept(s)
      PROVE  Settled!Take(s) /\ PendingKnown'
  <2>1. PendingKnown'
    BY <1>1, <1>5, AcceptTakes
  <2>2. /\ queue' = Append(queue, s)
        /\ answer[s] = 0 /\ answer' = [answer EXCEPT ![s] = 202]
        /\ UNCHANGED <<stored, dead, refused, unpersisted, pending, racedFailure, batch, dropped>>
    BY <1>5 DEF Accept, PutNowait, Answer, mongoVars, dlqVars
  <2>3. /\ Held' = Held \cup {s}
        /\ s \notin Accepted /\ Accepted' = Accepted \cup {s}
    BY <1>1, <2>2, RangeAppend DEF Held, Accepted, TypeOK
  <2> QED
    BY <2>1, <2>2, <2>3 DEF Settled!Take, InMemory
<1>6. ASSUME \A s \in Subs : ~Accept(s)
      PROVE  Settled!Advance /\ PendingKnown'
  <2>1. PassedOn
    BY <1>1, <1>6, StepPassesOn
  <2>2. /\ PendingKnown' /\ UNCHANGED Accepted /\ Inside' \subseteq Inside
        /\ \A s \in Inside \ Inside' :
              \/ racedFailure' \/ s \in dropped'
              \/ EventId[s] \in stored' \cup dead' \cup refused'
    BY <1>1, <1>6, StepLetsGo
  <2>3. Inside \subseteq Subs
    BY <1>1 DEF TypeOK, Inside, Held, Range
  <2>4. \A s \in Subs : s \in dropped \/ racedFailure => s \in dropped' \/ racedFailure'
    BY <1>2, <1>3 DEF Kept
  <2> QED
    BY <1>1, <1>2, <2>1, <2>2, <2>3, <2>4 DEF Settled!Advance, Settled!IdsOf, IdsOf, PassedOn
<1> QED
  BY <1>3, <1>4, <1>5, <1>6 DEF Settled!Next, PlatformInv, ReplayInv

(* A step of a replay. *)
LEMMA ReplaySettles ==
    ASSUME PlatformInv, NEW r \in Replays, ReplayStep(r)
    PROVE  [Settled!Next]_(Settled!deliveryVars) /\ PlatformInv'
<1> USE DEF PlatformInv
<1>1. /\ UNCHANGED <<queueVars, dlqVars, poolVars, target>>
      /\ stored \subseteq stored' /\ refused \subseteq refused'
      /\ dead \subseteq dead' \cup stored \cup refused
      /\ Rewritten'
  BY ReplayEffect
<1>2. ReplayInv'
  BY ReplayInvStep DEF ReplayNext
<1>3. stored' \cup dead' \cup refused' \subseteq stored \cup dead \cup refused
  <2>1. CASE FindRecord(r)
    BY <2>1 DEF FindRecord, mongoVars
  <2>2. CASE Rewrite(r) \/ RewriteFails(r)
    BY <2>2 DEF Rewrite, RewriteFails, Goes, Found, BulkWrite, BulkWriteFails, PartialWrites
  <2>3. CASE DeleteRecord(r) \/ DeleteFails(r)
    BY <2>3 DEF DeleteRecord, DeleteFails, Forget, mongoVars
  <2> QED
    BY <2>1, <2>2, <2>3 DEF ReplayStep
<1>4. Found'
  <2>1. \A q \in Replays : q # r => replay'[q] = replay[q]
    BY DEF ReplayStep, FindRecord, Rewrite, RewriteFails, DeleteRecord, DeleteFails, Goes,
           ReplayInv, Rewritten
  <2>2. replay'[r] \in {"writing", "deleting"} => target[r] \in stored \cup dead \cup refused
    BY DEF ReplayStep, FindRecord, Rewrite, RewriteFails, DeleteRecord, DeleteFails, Goes,
           ReplayInv, Rewritten, Found
  <2> QED
    BY <1>1, <2>1, <2>2 DEF Found
<1>5. /\ Accepted' = Accepted /\ InMemory' = InMemory /\ Held' = Held
      /\ UNCHANGED <<dropped, racedFailure, unpersisted, pending>>
  BY <1>1 DEF Accepted, InMemory, Held, queueVars, dlqVars, poolVars
<1>6. Settled!Advance
  BY <1>1, <1>3, <1>5 DEF Settled!Advance
<1>7. PendingKnown'
  BY <1>1, <1>5 DEF PendingKnown
<1> QED
  BY <1>2, <1>4, <1>6, <1>7 DEF Settled!Next

-----------------------------------------------------------------------------
(* A restart. *)

\* MongoDB may go on only with what the process had accepted.
LEMMA InFlight ==
    ASSUME PlatformInv
    PROVE  /\ Inserting \cup Persisting \subseteq stored \cup dead \cup refused \cup IdsOf(InMemory)
           /\ Deleting \subseteq stored \cup refused
<1>1. \A w \in Workers : /\ IdsOf(batch[w]) \subseteq IdsOf(InMemory)
                         /\ IdsOf(pending[w]) \subseteq IdsOf(InMemory)
  BY DEF IdsOf, InMemory, Held
<1>2. Deleting \subseteq stored \cup refused
  BY DEF Deleting, PlatformInv, ReplayInv, Rewritten
<1>3. Inserting \subseteq stored \cup dead \cup refused \cup IdsOf(InMemory)
  BY <1>1 DEF Inserting, Sent, PlatformInv, Found
<1>4. Persisting \subseteq IdsOf(InMemory)
  BY <1>1 DEF Persisting, Sent
<1> QED
  BY <1>2, <1>3, <1>4

LEMMA RestartEffect ==
    ASSUME PlatformInv, Restart
    PROVE  /\ InMemory' = {} /\ Held' = {} /\ Accepted' = Accepted
           /\ UNCHANGED <<racedFailure, answer, refused, target>>
           /\ stored \subseteq stored' /\ dead \subseteq dead' \cup stored \cup refused
           /\ stored' \cup dead' \subseteq stored \cup dead \cup refused \cup IdsOf(InMemory)
           /\ dropped' = dropped \cup InMemory
<1>1. /\ queue' = <<>> /\ unpersisted' = {} /\ pending' = [w \in Workers |-> {}]
      /\ batch' = [w \in Workers |-> {}]
      /\ UNCHANGED <<racedFailure, answer, refused, target>>
      /\ dropped' = dropped \cup InMemory
  BY DEF Restart, Forgotten
<1>2. Held' = {} /\ InMemory' = {}
  BY <1>1 DEF Held, InMemory, Range
<1>3. PICK inserted \in SUBSET Inserting, persisted \in SUBSET Persisting,
           deleted \in SUBSET Deleting :
         stored' = stored \cup inserted /\ dead' = (dead \cup persisted) \ deleted
  BY DEF Restart
<1> QED
  BY <1>1, <1>2, <1>3, InFlight DEF Accepted

LEMMA RestartSettles ==
    ASSUME PlatformInv, Restart
    PROVE  [Settled!Next]_(Settled!deliveryVars) /\ PlatformInv'
<1> USE DEF PlatformInv
<1>1. /\ InMemory' = {} /\ Held' = {} /\ Accepted' = Accepted
      /\ UNCHANGED <<racedFailure, answer, refused, target>>
      /\ stored \subseteq stored' /\ dead \subseteq dead' \cup stored \cup refused
      /\ stored' \cup dead' \subseteq stored \cup dead \cup refused \cup IdsOf(InMemory)
      /\ dropped' = dropped \cup InMemory
  BY RestartEffect
<1>2. TypeOK /\ InMemory \subseteq Subs
  BY PlatformInvParts DEF TypeOK, InMemory, Held, Range
<1>3. Settled!Advance
  BY <1>1, <1>2 DEF Settled!Advance, Settled!IdsOf, IdsOf
<1>4. /\ queue' = <<>> /\ unfinished' = 0 /\ getters' = Workers
      /\ unpersisted' = {} /\ recorded' = 0 /\ pending' = [w \in Workers |-> {}]
      /\ phase' = "running" /\ pc' = [w \in Workers |-> "getting"]
      /\ batch' = [w \in Workers |-> {}] /\ attempt' = [w \in Workers |-> 0]
      /\ processed' = 0
  BY DEF Restart, Forgotten
<1>5. TypeOK'
  <2>1. IdsOf(InMemory) \subseteq EventIds
    BY <1>2, IdsOfType
  <2> QED
    BY <1>1, <1>2, <1>4, <2>1 DEF TypeOK
<1>6. OneHolder' /\ Hands' /\ QueueAccounting'
  BY <1>1, <1>4, FS_EmptySet DEF OneHolder, Hands, QueueAccounting, Range, IsInjective
<1>7. Pushes' /\ PendingKnown'
  BY <1>4 DEF Pushes, Pushing, PendingKnown
<1>8. NoSilentLoss'
  <2>1. SUFFICES ASSUME ~racedFailure', NEW s \in Accepted'
                 PROVE  s \in Held' \/ Recoverable(s)' \/ GivenUp(s)'
    BY DEF NoSilentLoss
  <2>2. s \in Held \/ Recoverable(s) \/ GivenUp(s)
    BY <1>1, <2>1 DEF ReplayInv, LossInv, NoSilentLoss
  <2> QED
    BY <1>1, <2>2 DEF Recoverable, GivenUp, InMemory
<1>9. Rewritten' /\ Found'
  <2>1. replay' = [r \in Replays |->
                     IF replay[r] \in {"writing", "deleting"} THEN "failed" ELSE replay[r]]
    BY DEF Restart
  <2> QED
    BY <1>1, <2>1 DEF Rewritten, Found, ReplayInv
<1> QED
  BY <1>3, <1>5, <1>6, <1>7, <1>8, <1>9 DEF Settled!Next, ReplayInv, LossInv, HoldingInv

-----------------------------------------------------------------------------
LEMMA PlatformStep ==
    PlatformInv /\ [PlatformNext]_platformVars
        => [Settled!Next]_(Settled!deliveryVars) /\ PlatformInv'
<1> SUFFICES ASSUME PlatformInv, [PlatformNext]_platformVars
             PROVE  [Settled!Next]_(Settled!deliveryVars) /\ PlatformInv'
  OBVIOUS
<1>1. CASE PoolStep
  BY <1>1, PoolStepIsNext, PoolSettles
<1>2. ASSUME NEW r \in Replays, ReplayStep(r)
      PROVE  [Settled!Next]_(Settled!deliveryVars) /\ PlatformInv'
  BY <1>2, ReplaySettles
<1>3. CASE Restart
  BY <1>3, RestartSettles
<1>4. CASE UNCHANGED platformVars
  BY <1>4, PoolSettles DEF platformVars
<1> QED
  BY <1>1, <1>2, <1>3, <1>4 DEF PlatformNext, ReplayNext

\* Replays and restarts, at whatever moment, keep the promise of a 202.
THEOREM PromiseKept == PlatformSpec => KeepsPromise
BY PlatformInitial, PlatformStep, PTL DEF PlatformSpec, KeepsPromise, Settled!Spec

\* Nothing that has left the pipeline is lost by the end of the process: only
\* what was in memory is, and an accepted event is always in one place or given
\* up, unless MongoDB has refused it or a failed persist overlapped another.
THEOREM NoSilentLossAcrossRestarts == PlatformSpec => []NoSilentLoss
<1>1. PlatformInv => NoSilentLoss
  BY DEF PlatformInv, ReplayInv, LossInv
<1> QED
  BY <1>1, PlatformInitial, PlatformStep, PTL DEF PlatformSpec

\* The end of the process between the rewrite and the delete of a replay, or in
\* the middle of either, never deletes a record whose event is neither stored
\* nor one that MongoDB has refused.
THEOREM RestartKeepsEvent == PlatformSpec => ReplayKeepsEvent
<1>1. PlatformInv /\ [PlatformNext]_platformVars
        => [dead \subseteq dead' \cup stored \cup refused]_<<vars, replayVars>>
  <2> SUFFICES ASSUME PlatformInv, PlatformNext
               PROVE  dead \subseteq dead' \cup stored \cup refused
    BY DEF platformVars
  <2>1. CASE ReplayNext
    BY <2>1, ReplayStepKeepsEvent DEF PlatformInv
  <2>2. CASE Restart
    BY <2>2, RestartEffect
  <2> QED
    BY <2>1, <2>2 DEF PlatformNext
<1> QED
  BY <1>1, PlatformInitial, PlatformStep, PTL DEF PlatformSpec, ReplayKeepsEvent

-----------------------------------------------------------------------------
(* What the promise comes to. *)

\* Only what was accepted is in the process, and only that is written.
OnlyAccepted == InMemory \subseteq Accepted /\ stored \cup dead \cup refused \subseteq IdsOf(Accepted)

\* Whatever implements Delivery stores only what it has accepted: it is enough
\* to look at the steps of Delivery.
LEMMA DeliveryInventsNothing == Settled!Spec => []OnlyAccepted
<1>1. Settled!Init => OnlyAccepted
  BY DEF Settled!Init, OnlyAccepted
<1>2. OnlyAccepted /\ [Settled!Next]_(Settled!deliveryVars) => OnlyAccepted'
  <2> SUFFICES ASSUME OnlyAccepted, [Settled!Next]_(Settled!deliveryVars)
               PROVE  OnlyAccepted'
    OBVIOUS
  <2>1. ASSUME NEW s \in Subs, Settled!Take(s)
        PROVE  OnlyAccepted'
    BY <2>1 DEF Settled!Take, OnlyAccepted, IdsOf
  <2>2. CASE Settled!Advance
    BY <2>2 DEF Settled!Advance, Settled!IdsOf, OnlyAccepted, IdsOf
  <2>3. CASE UNCHANGED Settled!deliveryVars
    BY <2>3 DEF Settled!deliveryVars, OnlyAccepted, IdsOf
  <2> QED
    BY <2>1, <2>2, <2>3 DEF Settled!Next
<1> QED
  BY <1>1, <1>2, PTL DEF Settled!Spec

\* No event is stored or dead-lettered unless a submission of it was answered
\* 202: what a full queue or a closed service turned away is never written, by
\* a worker, a replay or a call that outlives its process.
THEOREM NothingInvented == PlatformSpec => [](stored \cup dead \subseteq IdsOf(Accepted))
<1>1. OnlyAccepted => stored \cup dead \subseteq IdsOf(Accepted)
  BY DEF OnlyAccepted
<1> QED
  BY <1>1, PromiseKept, DeliveryInventsNothing, PTL DEF KeepsPromise

=============================================================================

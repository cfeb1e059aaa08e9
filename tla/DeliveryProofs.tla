--------------------------- MODULE DeliveryProofs ---------------------------
(***************************************************************************)
(* WorkerPool implements Delivery, for any submissions, workers and        *)
(* bounds.                                                                 *)
(***************************************************************************)
EXTENDS WorkerPoolProofs

Inside == Held \cup unpersisted \cup UNION {pending[w] : w \in Workers}

\* An entry that a push_many is about to persist is known elsewhere too: it is
\* in a batch or in the buffer, or it no longer matters.
PendingKnown ==
    ~racedFailure =>
        \A w \in Workers : \A s \in pending[w] :
            \/ s \in Held \cup unpersisted \cup dropped
            \/ EventId[s] \in stored \cup dead \cup refused

DeliveryInv == LossInv /\ PendingKnown

-----------------------------------------------------------------------------
\* Apart from ingest, every step passes on what is inside, and writes only that.
PassedOn ==
    /\ Held' \subseteq Held
    /\ unpersisted' \subseteq Inside
    /\ \A w \in Workers : pending'[w] \subseteq pending[w] \cup unpersisted \cup Held
    /\ stored' \cup dead' \subseteq stored \cup dead \cup IdsOf(Inside)
    /\ refused' \subseteq refused \cup IdsOf(Inside)

\* A write stores events of the batch or of the list it was called with.
LEMMA WritesOnly ==
    ASSUME NEW S \in SUBSET Inside,
           \/ BulkWrite(IdsOf(S)) \/ BulkWriteFails(IdsOf(S))
           \/ PersistDeadLetters(IdsOf(S)) \/ PersistDeadLettersFails(IdsOf(S))
    PROVE  /\ stored' \cup dead' \subseteq stored \cup dead \cup IdsOf(Inside)
           /\ refused' \subseteq refused \cup IdsOf(Inside)
<1>1. IdsOf(S) \subseteq IdsOf(Inside)
  BY DEF IdsOf
<1>2. CASE BulkWrite(IdsOf(S))
  BY <1>1, <1>2 DEF BulkWrite
<1>3. CASE BulkWriteFails(IdsOf(S))
  BY <1>1, <1>3 DEF BulkWriteFails, PartialWrites
<1>4. CASE PersistDeadLetters(IdsOf(S))
  BY <1>1, <1>4 DEF PersistDeadLetters
<1>5. CASE PersistDeadLettersFails(IdsOf(S))
  BY <1>1, <1>5 DEF PersistDeadLettersFails, PartialWrites
<1> QED
  BY <1>2, <1>3, <1>4, <1>5

LEMMA StepPassesOn ==
    ASSUME DeliveryInv, [Next]_vars, \A s \in Subs : ~Accept(s)
    PROVE  PassedOn
<1>0. TypeOK /\ OneHolder /\ Hands
  BY DEF DeliveryInv, LossInv, HoldingInv
<1>1. ASSUME NEW w \in Workers
      PROVE  batch[w] \subseteq Inside /\ pending[w] \subseteq Inside
  BY DEF Inside, Held
<1>2. ASSUME UNCHANGED <<queue, batch, unpersisted, pending, stored, dead, refused>>
      PROVE  PassedOn
  BY <1>2 DEF PassedOn, Inside, Held
<1>3. ASSUME NEW s \in Subs, RejectFull(s) \/ RejectClosed(s)
      PROVE  PassedOn
  BY <1>2, <1>3 DEF RejectFull, RejectClosed, Answer, queueVars, mongoVars, dlqVars
<1>4. ASSUME NEW w \in Workers, Resume(w) \/ GetTimeout(w)
      PROVE  PassedOn
  <2>1. UNCHANGED <<unpersisted, pending, stored, dead, refused>>
    BY <1>4 DEF Resume, GetTimeout, mongoVars, dlqVars
  <2>2. \/ \E waiting \in SUBSET Workers : Poll(w, waiting)
        \/ UNCHANGED <<queue, batch>>
    BY <1>0, <1>4, AbandonGetType DEF Resume, GetTimeout, TypeOK
  <2>3. Held' \subseteq Held
    BY <1>0, <2>2, HoldersAfterPoll DEF Held
  <2> QED
    BY <2>1, <2>3 DEF PassedOn, Inside
<1>5. ASSUME NEW w \in Workers, WriteOk(w)
      PROVE  PassedOn
  <2>1. UNCHANGED <<unpersisted, pending>> /\ BulkWrite(IdsOf(batch[w]))
    BY <1>5 DEF WriteOk, dlqVars
  <2>2. getters \in SUBSET Workers /\ Poll(w, getters)
    BY <1>0, <1>5 DEF WriteOk, Finish, TypeOK
  <2>3. Held' \subseteq Held
    BY <1>0, <2>2, HoldersAfterPoll
  <2> QED
    BY <1>1, <2>1, <2>3, WritesOnly DEF PassedOn, Inside
<1>6. ASSUME NEW w \in Workers, WriteFail(w)
      PROVE  PassedOn
  <2>1. /\ UNCHANGED <<queue, batch, unpersisted>>
        /\ BulkWriteFails(IdsOf(batch[w]))
        /\ \/ pending' = pending
           \/ pending' = [pending EXCEPT ![w] = unpersisted \cup batch[w]]
    BY <1>6 DEF WriteFail, PushMany, queueVars, dlqVars
  <2>2. \A v \in Workers : pending'[v] \subseteq pending[v] \cup unpersisted \cup Held
    <3>1. batch[w] \subseteq Held
      BY DEF Held
    <3>2. \A v \in Workers : pending'[v] \in {pending[v], unpersisted \cup batch[w]}
      BY <1>0, <2>1 DEF TypeOK
    <3> QED
      BY <3>1, <3>2
  <2>3. /\ stored' \cup dead' \subseteq stored \cup dead \cup IdsOf(Inside)
        /\ refused' \subseteq refused \cup IdsOf(Inside)
    BY <1>1, <2>1, WritesOnly
  <2>4. Held' = Held
    BY <2>1 DEF Held
  <2>5. unpersisted' \subseteq Inside
    BY <2>1 DEF Inside
  <2> QED
    BY <2>2, <2>3, <2>4, <2>5 DEF PassedOn
<1>7. ASSUME NEW w \in Workers, PersistOk(w) \/ PersistFail(w)
      PROVE  PassedOn
  <2>1. /\ pending' = [pending EXCEPT ![w] = {}]
        /\ unpersisted' \in {{}, pending[w]}
        /\ \/ PersistDeadLetters(IdsOf(pending[w]))
           \/ PersistDeadLettersFails(IdsOf(pending[w]))
    BY <1>7 DEF PersistOk, PersistFail, PushPersisted, PushBuffered
  <2>2. getters \in SUBSET Workers /\ Poll(w, getters)
    BY <1>0, <1>7 DEF PersistOk, PersistFail, Finish, TypeOK
  <2>3. Held' \subseteq Held
    BY <1>0, <2>2, HoldersAfterPoll
  <2>4. \A v \in Workers : pending'[v] \subseteq pending[v]
    BY <1>0, <2>1 DEF TypeOK
  <2> QED
    BY <1>1, <2>1, <2>3, <2>4, WritesOnly DEF PassedOn
<1>8. ASSUME NEW w \in Workers, BackoffOver(w)
      PROVE  PassedOn
  BY <1>2, <1>8 DEF BackoffOver, queueVars, mongoVars, dlqVars
<1>9. ASSUME NEW w \in Workers, Cancel(w)
      PROVE  PassedOn
  <2>1. /\ UNCHANGED <<queue, unpersisted>>
        /\ batch' = [batch EXCEPT ![w] = {}]
        /\ pending' = pending \/ pending' = [pending EXCEPT ![w] = {}]
        /\ \/ BulkWriteFails(IdsOf(batch[w]))
           \/ PersistDeadLettersFails(IdsOf(pending[w]))
           \/ UNCHANGED <<stored, dead, refused>>
    BY <1>9 DEF Cancel, PushCancelled, mongoVars, dlqVars
  <2>2. Held' \subseteq Held
    BY <1>0, <2>1 DEF Held, TypeOK
  <2>3. \A v \in Workers : pending'[v] \subseteq pending[v]
    <3>1. \A v \in Workers : pending'[v] \in {pending[v], {}}
      BY <1>0, <2>1 DEF TypeOK
    <3> QED
      BY <3>1
  <2>4. /\ stored' \cup dead' \subseteq stored \cup dead \cup IdsOf(Inside)
        /\ refused' \subseteq refused \cup IdsOf(Inside)
    <3>1. CASE BulkWriteFails(IdsOf(batch[w]))
      BY <1>1, <3>1, WritesOnly
    <3>2. CASE PersistDeadLettersFails(IdsOf(pending[w]))
      BY <1>1, <3>2, WritesOnly
    <3>3. CASE UNCHANGED <<stored, dead, refused>>
      BY <3>3
    <3> QED
      BY <2>1, <3>1, <3>2, <3>3
  <2>5. unpersisted' \subseteq Inside
    BY <2>1 DEF Inside
  <2> QED
    BY <2>2, <2>3, <2>4, <2>5 DEF PassedOn
<1>10. ASSUME Shutdown \/ UNCHANGED vars
       PROVE  PassedOn
  BY <1>2, <1>10 DEF Shutdown, Stop, Drained, DrainTimeout, vars, queueVars, mongoVars,
                     dlqVars, poolVars
<1> QED
  BY <1>3, <1>4, <1>5, <1>6, <1>7, <1>8, <1>9, <1>10
     DEF Next, Request, WorkerStep, Terminated

-----------------------------------------------------------------------------
(* The steps of the pipeline are steps of Delivery. *)

\* An accepted submission enters the process.
LEMMA AcceptTakes ==
    ASSUME DeliveryInv, NEW s \in Subs, Accept(s)
    PROVE  Promise!Take(s) /\ PendingKnown'
<1>1. /\ queue' = Append(queue, s)
      /\ answer[s] = 0 /\ answer' = [answer EXCEPT ![s] = 202]
      /\ UNCHANGED <<stored, dead, refused, unpersisted, pending, racedFailure, batch, dropped>>
  BY DEF Accept, PutNowait, Answer, mongoVars, dlqVars
<1>2. /\ Held' = Held \cup {s}
      /\ s \notin Accepted /\ Accepted' = Accepted \cup {s}
  BY <1>1, RangeAppend DEF DeliveryInv, LossInv, HoldingInv, Held, Accepted, TypeOK
<1>3. PendingKnown'
  BY <1>1, <1>2 DEF DeliveryInv, PendingKnown
<1> QED
  BY <1>1, <1>2, <1>3 DEF Promise!Take, GivenUp

\* What any other step does to what is inside: it lets go only of what is in a
\* collection, refused or dropped.
LEMMA StepLetsGo ==
    ASSUME DeliveryInv, [Next]_vars, \A s \in Subs : ~Accept(s)
    PROVE  /\ PendingKnown'
           /\ UNCHANGED Accepted
           /\ Inside' \subseteq Inside
           /\ \A s \in Inside \ Inside' :
                 \/ racedFailure' \/ s \in dropped'
                 \/ EventId[s] \in stored' \cup dead' \cup refused'
<1>1. /\ stored \subseteq stored' /\ dead \subseteq dead'
      /\ refused \subseteq refused' /\ dropped \subseteq dropped'
  BY Accumulates DEF DeliveryInv, LossInv, HoldingInv
<1>2. Kept
  BY EveryStepKeeps DEF DeliveryInv
<1>3. PassedOn
  BY StepPassesOn
<1>4. TypeOK /\ Inside \subseteq Subs
  <2>1. TypeOK
    BY DEF DeliveryInv, LossInv, HoldingInv
  <2> QED
    BY <2>1 DEF TypeOK, Inside, Held, Range
<1>5. Inside' \subseteq Inside
  BY <1>3 DEF PassedOn, Inside
<1>6. ASSUME ~racedFailure', NEW s \in Inside
      PROVE  \/ s \in Held' \cup unpersisted' \cup dropped'
             \/ EventId[s] \in stored' \cup dead' \cup refused'
  <2>1. ~racedFailure
    BY <1>2, <1>6 DEF Kept
  <2>2. CASE s \in Held \cup unpersisted
    BY <1>2, <1>4, <1>6, <2>2 DEF Kept
  <2>3. CASE s \in UNION {pending[w] : w \in Workers}
    <3>1. \/ s \in Held \cup unpersisted \cup dropped
          \/ EventId[s] \in stored \cup dead \cup refused
      BY <2>1, <2>3 DEF DeliveryInv, PendingKnown
    <3> QED
      BY <1>1, <2>2, <3>1
  <2> QED
    BY <2>2, <2>3 DEF Inside
<1>7. PendingKnown'
  <2>1. SUFFICES ASSUME ~racedFailure', NEW w \in Workers, NEW s \in pending'[w]
                 PROVE  \/ s \in Held' \cup unpersisted' \cup dropped'
                        \/ EventId[s] \in stored' \cup dead' \cup refused'
    BY DEF PendingKnown
  <2>2. s \in Inside
    BY <1>3, <2>1 DEF PassedOn, Inside
  <2> QED
    BY <1>6, <2>1, <2>2
<1>8. UNCHANGED Accepted
  <2>1. ASSUME NEW s \in Subs, RejectFull(s) \/ RejectClosed(s)
        PROVE  UNCHANGED Accepted
    <3>1. answer[s] = 0 /\ \E status \in {429, 503} : answer' = [answer EXCEPT ![s] = status]
      BY <2>1 DEF RejectFull, RejectClosed, Answer
    <3> QED
      BY <1>4, <3>1 DEF TypeOK, Accepted
  <2>2. ASSUME \/ \E w \in Workers : WorkerStep(w)
               \/ Shutdown
               \/ UNCHANGED vars
        PROVE  UNCHANGED Accepted
    <3>1. answer' = answer
      BY <2>2 DEF WorkerStep, Resume, GetTimeout, WriteOk, WriteFail, BackoffOver, PersistOk,
                  PersistFail, Cancel, Shutdown, Stop, Drained, DrainTimeout, vars, poolVars
    <3> QED
      BY <3>1 DEF Accepted
  <2> QED
    BY <2>1, <2>2 DEF Next, Request, Terminated
<1> QED
  BY <1>5, <1>6, <1>7, <1>8 DEF Inside

LEMMA OthersAdvance ==
    ASSUME DeliveryInv, [Next]_vars, \A s \in Subs : ~Accept(s)
    PROVE  Promise!Advance /\ PendingKnown'
<1>1. PassedOn /\ Kept
  BY StepPassesOn, EveryStepKeeps DEF DeliveryInv
<1>2. /\ stored \subseteq stored' /\ dead \subseteq dead'
      /\ refused \subseteq refused' /\ dropped \subseteq dropped'
  BY Accumulates DEF DeliveryInv, LossInv, HoldingInv
<1>3. Inside \subseteq Subs
  BY DEF DeliveryInv, LossInv, HoldingInv, TypeOK, Inside, Held, Range
<1>4. \A s \in Subs : GivenUp(s) \/ racedFailure => GivenUp(s)' \/ racedFailure'
  BY <1>1, <1>2 DEF GivenUp, Kept
<1>5. \A s \in Inside \ Inside' :
         EventId[s] \in stored' \cup dead' \/ s \in {t \in Subs : GivenUp(t)' \/ racedFailure'}
  BY <1>3, StepLetsGo DEF GivenUp
<1> QED
  BY <1>1, <1>2, <1>4, <1>5, StepLetsGo DEF Promise!Advance, Promise!IdsOf, IdsOf, Inside, PassedOn

LEMMA DeliveryInit == Init => Promise!Init /\ DeliveryInv
<1> SUFFICES ASSUME Init
             PROVE  Promise!Init /\ DeliveryInv
  OBVIOUS
<1>1. LossInv
  BY LossInit
<1>2. Held = {} /\ unpersisted = {} /\ \A w \in Workers : pending[w] = {}
  BY DEF Init, QueueInit, DLQInit, Held, Range
<1>3. PendingKnown
  BY <1>2 DEF PendingKnown
<1>4. Accepted = {} /\ stored \cup dead = {} /\ \A s \in Subs : ~GivenUp(s) /\ ~racedFailure
  BY DEF Init, MongoInit, DLQInit, Accepted, GivenUp
<1> QED
  BY <1>1, <1>2, <1>3, <1>4 DEF DeliveryInv, Promise!Init

\* The queue, the workers and the dead-letter queue together keep the promise
\* of a 202: nothing leaves the process before it is in a collection or given
\* up, nothing is written after it has left, and the collections only grow.
THEOREM DeliveryImplemented == Spec => ImplementsDelivery
<1>1. DeliveryInv /\ [Next]_vars => DeliveryInv' /\ [Promise!Next]_(Promise!deliveryVars)
  <2> SUFFICES ASSUME DeliveryInv, [Next]_vars
               PROVE  DeliveryInv' /\ [Promise!Next]_(Promise!deliveryVars)
    OBVIOUS
  <2>1. LossInv'
    BY LossStep DEF DeliveryInv
  <2>2. ASSUME NEW s \in Subs, Accept(s)
        PROVE  PendingKnown' /\ Promise!Next
    BY <2>2, AcceptTakes DEF Promise!Next
  <2>3. ASSUME \A s \in Subs : ~Accept(s)
        PROVE  PendingKnown' /\ Promise!Next
    BY <2>3, OthersAdvance DEF Promise!Next
  <2> QED
    BY <2>1, <2>2, <2>3 DEF DeliveryInv
<1> QED
  BY <1>1, DeliveryInit, PTL DEF Spec, ImplementsDelivery, Promise!Spec

=============================================================================

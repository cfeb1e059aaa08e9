-------------------------- MODULE WorkerPoolProofs --------------------------
(***************************************************************************)
(* Proofs about WorkerPool, for any submissions, workers and bounds.       *)
(***************************************************************************)
EXTENDS WorkerPool, FiniteSetTheorems, SequenceTheorems, TLAPS

-----------------------------------------------------------------------------
(* The operators the steps are built from. *)

\* Appending to a sequence adds one element to its range.
LEMMA RangeAppend ==
    ASSUME NEW S, NEW q \in Seq(S), NEW s
    PROVE  Range(Append(q, s)) = Range(q) \cup {s}
<1>1. /\ DOMAIN Append(q, s) = 1..(Len(q) + 1)
      /\ \A i \in 1..Len(q) : Append(q, s)[i] = q[i]
      /\ Append(q, s)[Len(q) + 1] = s
  OBVIOUS
<1>2. DOMAIN q = 1..Len(q) /\ Len(q) \in Nat
  OBVIOUS
<1> QED
  BY <1>1, <1>2 DEF Range

\* A sequence of distinct elements is split by its first n elements: they and
\* the rest have no element in common, and the rest is distinct again.
LEMMA SplitSequence ==
    ASSUME NEW S, NEW q \in Seq(S), NEW n \in 1..Len(q),
           IsInjective(q)
    PROVE  /\ {q[i] : i \in 1..n} \cup Range(SubSeq(q, n + 1, Len(q))) = Range(q)
           /\ {q[i] : i \in 1..n} \cap Range(SubSeq(q, n + 1, Len(q))) = {}
           /\ IsInjective(SubSeq(q, n + 1, Len(q)))
<1> DEFINE front == {q[i] : i \in 1..n}
           rest == SubSeq(q, n + 1, Len(q))
<1>1. DOMAIN q = 1..Len(q) /\ Len(q) \in Nat
  OBVIOUS
<1>2. /\ rest \in Seq(S)
      /\ Len(rest) = Len(q) - n
      /\ DOMAIN rest = 1..(Len(q) - n)
      /\ \A i \in 1..(Len(q) - n) : rest[i] = q[n + i]
  <2>1. n + 1 \in Int /\ Len(q) \in Int /\ \A i \in (n + 1)..Len(q) : q[i] \in S
    BY <1>1
  <2>2. /\ rest \in Seq(S)
        /\ Len(rest) = IF n + 1 <= Len(q) THEN Len(q) - (n + 1) + 1 ELSE 0
        /\ \A i \in 1..(Len(q) - (n + 1) + 1) : rest[i] = q[(n + 1) + i - 1]
    BY <2>1, SubSeqProperties
  <2> HIDE DEF rest
  <2>3. /\ Len(q) - (n + 1) + 1 = Len(q) - n
        /\ ~(n + 1 <= Len(q)) => Len(q) - n = 0
        /\ \A i \in 1..(Len(q) - n) : (n + 1) + i - 1 = n + i
    <3>1. \A l \in Nat : \A m \in 1..l :
             /\ l - (m + 1) + 1 = l - m
             /\ ~(m + 1 <= l) => l - m = 0
             /\ \A i \in 1..(l - m) : (m + 1) + i - 1 = m + i
      OBVIOUS
    <3> QED
      BY <1>1, <3>1, Zenon
  <2>4. Len(rest) = Len(q) - n
    BY <2>2, <2>3
  <2>5. \A i \in 1..(Len(q) - n) : rest[i] = q[n + i]
    BY <2>2, <2>3
  <2>6. DOMAIN rest = 1..Len(rest)
    BY <2>2
  <2> QED
    BY <2>2, <2>4, <2>5, <2>6
<1> HIDE DEF rest
<1>3. front \cup Range(rest) = Range(q)
  <2>1. ASSUME NEW i \in 1..n
        PROVE  q[i] \in Range(q)
    BY <1>1 DEF Range
  <2>3. ASSUME NEW i \in 1..(Len(q) - n)
        PROVE  rest[i] \in Range(q)
    <3>1. n + i \in DOMAIN q
      BY <1>1
    <3> QED
      BY <1>2, <3>1 DEF Range
  <2>2. ASSUME NEW i \in DOMAIN q
        PROVE  q[i] \in front \cup Range(rest)
    <3>1. CASE i <= n
      BY <1>1, <3>1
    <3>2. CASE i > n
      <4>1. i - n \in 1..(Len(q) - n) /\ n + (i - n) = i
        BY <1>1, <3>2
      <4> QED
        BY <1>2, <4>1 DEF Range
    <3> QED
      BY <1>1, <3>1, <3>2
  <2> QED
    BY <1>2, <2>1, <2>2, <2>3 DEF Range
<1>4. front \cap Range(rest) = {}
  <2>1. ASSUME NEW i \in 1..n, NEW j \in 1..(Len(q) - n), q[i] = q[n + j]
        PROVE  FALSE
    <3>1. i \in DOMAIN q /\ n + j \in DOMAIN q /\ i # n + j
      BY <1>1
    <3> QED
      BY <2>1, <3>1 DEF IsInjective
  <2>2. SUFFICES ASSUME NEW x \in front, x \in Range(rest)
                 PROVE  FALSE
    OBVIOUS
  <2>3. PICK i \in 1..n : x = q[i]
    OBVIOUS
  <2>4. PICK j \in 1..(Len(q) - n) : x = q[n + j]
    BY <1>2, <2>2 DEF Range
  <2> QED
    BY <2>1, <2>3, <2>4
<1>5. IsInjective(rest)
  <2>1. SUFFICES ASSUME NEW i \in 1..(Len(q) - n), NEW j \in 1..(Len(q) - n),
                        rest[i] = rest[j]
                 PROVE  i = j
    BY <1>2 DEF IsInjective
  <2>2. n + i \in DOMAIN q /\ n + j \in DOMAIN q
    BY <1>1
  <2>3. n + i = n + j
    BY <1>2, <2>1, <2>2 DEF IsInjective
  <2> QED
    BY <1>1, <2>3
<1> QED
  BY <1>3, <1>4, <1>5 DEF rest

-----------------------------------------------------------------------------
(* Types. *)

\* Submissions are finite in number, and so is every set of them.
LEMMA SubsFinite ==
    ASSUME NEW S \in SUBSET Subs
    PROVE  IsFiniteSet(S) /\ Cardinality(S) \in Nat
BY EventsAssumption, FS_Subset, FS_CardinalityType

LEMMA IdsOfType ==
    ASSUME NEW S \in SUBSET Subs
    PROVE  IdsOf(S) \subseteq EventIds
BY EventsAssumption DEF IdsOf

LEMMA WakeNextType ==
    ASSUME NEW waiting \in SUBSET Workers, NEW left \in WakeNext(waiting)
    PROVE  left \subseteq waiting
BY DEF WakeNext

LEMMA AbandonGetType ==
    ASSUME getters \subseteq Workers, NEW w \in Workers, NEW left \in AbandonGet(w)
    PROVE  left \subseteq getters
BY WakeNextType DEF AbandonGet

\* A worker that polls a nonempty queue takes at least one event, and no more
\* than there are.
LEMMA NextBatchSizeType ==
    ASSUME queue \in Seq(Subs), queue # <<>>
    PROVE  NextBatchSize \in 1..Len(queue)
BY WorkerPoolAssumption DEF NextBatchSize

\* What a poll does to the variables it changes.
LEMMA PollType ==
    ASSUME TypeOK, NEW w \in Workers, NEW waiting \in SUBSET Workers, Poll(w, waiting)
    PROVE  /\ queue' \in Seq(Subs)
           /\ getters' \subseteq Workers
           /\ pc' \in [Workers -> {"getting", "writing", "backoff", "persisting", "exited"}]
           /\ batch' \in [Workers -> SUBSET Subs]
           /\ attempt' \in [Workers -> Nat]
<1>1. CASE queue = <<>>
  BY <1>1 DEF Poll, TypeOK
<1>2. CASE queue # <<>>
  <2>1. NextBatchSize \in 1..Len(queue)
    BY <1>2, NextBatchSizeType DEF TypeOK
  <2>2. Oldest(NextBatchSize) \subseteq Subs
    BY <2>1 DEF Oldest, TypeOK
  <2>3. SubSeq(queue, NextBatchSize + 1, Len(queue)) \in Seq(Subs)
    <3>1. /\ NextBatchSize + 1 \in Int /\ Len(queue) \in Int
          /\ \A i \in (NextBatchSize + 1)..Len(queue) : queue[i] \in Subs
      BY <2>1 DEF TypeOK
    <3> QED
      BY <3>1, SubSeqProperties
  <2>4. /\ queue' = SubSeq(queue, NextBatchSize + 1, Len(queue))
        /\ getters' = waiting
        /\ pc' = [pc EXCEPT ![w] = "writing"]
        /\ batch' = [batch EXCEPT ![w] = Oldest(NextBatchSize)]
        /\ attempt' = [attempt EXCEPT ![w] = 0]
    BY <1>2 DEF Poll, GetOldest
  <2> QED
    BY <2>2, <2>3, <2>4 DEF TypeOK
<1> QED
  BY <1>1, <1>2

\* The writes keep both collections, and what was refused, sets of event ids.
LEMMA MongoType ==
    ASSUME TypeOK, NEW ids \in SUBSET EventIds,
           \/ BulkWrite(ids) \/ BulkWriteFails(ids)
           \/ PersistDeadLetters(ids) \/ PersistDeadLettersFails(ids)
           \/ UNCHANGED mongoVars
    PROVE  stored' \subseteq EventIds /\ dead' \subseteq EventIds /\ refused' \subseteq EventIds
<1>1. CASE BulkWrite(ids)
  BY <1>1 DEF BulkWrite, TypeOK
<1>2. CASE BulkWriteFails(ids)
  BY <1>2 DEF BulkWriteFails, PartialWrites, TypeOK
<1>3. CASE PersistDeadLetters(ids)
  BY <1>3 DEF PersistDeadLetters, TypeOK
<1>4. CASE PersistDeadLettersFails(ids)
  BY <1>4 DEF PersistDeadLettersFails, PartialWrites, TypeOK
<1>5. CASE UNCHANGED mongoVars
  BY <1>5 DEF mongoVars, TypeOK
<1> QED
  BY <1>1, <1>2, <1>3, <1>4, <1>5

\* Every step keeps the types.
LEMMA TypeStep == TypeOK /\ [Next]_vars => TypeOK'
<1> SUFFICES ASSUME TypeOK, [Next]_vars
             PROVE  TypeOK'
  OBVIOUS
<1>1. ASSUME NEW s \in Subs, Accept(s)
      PROVE  TypeOK'
  <2>1. queue' \in Seq(Subs) /\ unfinished' \in Int
    BY <1>1 DEF Accept, PutNowait, TypeOK
  <2>2. getters' \subseteq Workers
    BY <1>1, WakeNextType DEF Accept, PutNowait, TypeOK
  <2> QED
    BY <1>1, <2>1, <2>2 DEF Accept, Answer, mongoVars, dlqVars, TypeOK
<1>2. ASSUME NEW s \in Subs, RejectFull(s) \/ RejectClosed(s)
      PROVE  TypeOK'
  <2>1. answer' \in [Subs -> {0, 202, 429, 503}]
    BY <1>2 DEF RejectFull, RejectClosed, Answer, TypeOK
  <2>2. UNCHANGED <<queueVars, mongoVars, dlqVars, phase, pc, batch, attempt, processed, dropped>>
    BY <1>2 DEF RejectFull, RejectClosed, Answer
  <2> QED
    BY <2>1, <2>2 DEF queueVars, mongoVars, dlqVars, TypeOK
<1>3. ASSUME NEW w \in Workers, Resume(w)
      PROVE  TypeOK'
  <2>1. getters \in SUBSET Workers /\ Poll(w, getters)
    BY <1>3 DEF Resume, TypeOK
  <2> QED
    BY <1>3, <2>1, PollType DEF Resume, mongoVars, dlqVars, TypeOK
<1>4. ASSUME NEW w \in Workers, GetTimeout(w)
      PROVE  TypeOK'
  <2>1. PICK waiting \in AbandonGet(w) :
          \/ /\ pc' = [pc EXCEPT ![w] = "exited"]
             /\ getters' = waiting
             /\ UNCHANGED <<queue, batch, attempt>>
          \/ Poll(w, waiting)
    BY <1>4 DEF GetTimeout
  <2>2. waiting \in SUBSET Workers
    BY AbandonGetType DEF TypeOK
  <2>3. CASE Poll(w, waiting)
    BY <1>4, <2>2, <2>3, PollType DEF GetTimeout, mongoVars, dlqVars, TypeOK
  <2>4. CASE ~Poll(w, waiting)
    BY <1>4, <2>1, <2>2, <2>4 DEF GetTimeout, mongoVars, dlqVars, TypeOK
  <2> QED
    BY <2>3, <2>4
<1>5. ASSUME NEW w \in Workers, WriteOk(w)
      PROVE  TypeOK'
  <2>1. batch[w] \in SUBSET Subs /\ getters \in SUBSET Workers
    BY DEF TypeOK
  <2>2. Cardinality(batch[w]) \in Nat
    BY <2>1, SubsFinite
  <2>3. stored' \subseteq EventIds /\ dead' \subseteq EventIds /\ refused' \subseteq EventIds
    BY <1>5, <2>1, IdsOfType, MongoType DEF WriteOk
  <2> QED
    BY <1>5, <2>1, <2>2, <2>3, PollType DEF WriteOk, Finish, TaskDone, dlqVars, TypeOK
<1>6. ASSUME NEW w \in Workers, WriteFail(w)
      PROVE  TypeOK'
  <2>1. batch[w] \in SUBSET Subs
    BY DEF TypeOK
  <2>2. Cardinality(batch[w]) \in Nat
    BY <2>1, SubsFinite
  <2>3. stored' \subseteq EventIds /\ dead' \subseteq EventIds /\ refused' \subseteq EventIds
    BY <1>6, <2>1, IdsOfType, MongoType DEF WriteFail
  <2> QED
    BY <1>6, <2>1, <2>2, <2>3 DEF WriteFail, PushMany, queueVars, dlqVars, TypeOK
<1>7. ASSUME NEW w \in Workers, BackoffOver(w)
      PROVE  TypeOK'
  BY <1>7 DEF BackoffOver, queueVars, mongoVars, dlqVars, TypeOK
<1>8. ASSUME NEW w \in Workers, PersistOk(w) \/ PersistFail(w)
      PROVE  TypeOK'
  <2>1. batch[w] \in SUBSET Subs /\ pending[w] \in SUBSET Subs /\ getters \in SUBSET Workers
    BY DEF TypeOK
  <2>2. Cardinality(batch[w]) \in Nat
    BY <2>1, SubsFinite
  <2>3. stored' \subseteq EventIds /\ dead' \subseteq EventIds /\ refused' \subseteq EventIds
    BY <1>8, <2>1, IdsOfType, MongoType DEF PersistOk, PersistFail, PushPersisted, PushBuffered
  <2>4. Finish(w) /\ UNCHANGED <<phase, processed, answer, dropped>>
    BY <1>8 DEF PersistOk, PersistFail
  <2>5. unfinished' \in Int
    BY <2>2, <2>4 DEF Finish, TaskDone, TypeOK
  <2>6. /\ unpersisted' \subseteq Subs
        /\ recorded' \in Nat
        /\ pending' \in [Workers -> SUBSET Subs]
    <3>1. unpersisted' = {} \/ unpersisted' = pending[w]
      BY <1>8 DEF PersistOk, PersistFail, PushPersisted, PushBuffered
    <3>2. recorded' = recorded /\ pending' = [pending EXCEPT ![w] = {}]
      BY <1>8 DEF PersistOk, PersistFail, PushPersisted, PushBuffered
    <3> QED
      BY <2>1, <3>1, <3>2 DEF TypeOK
  <2>8. racedFailure' \in BOOLEAN
    BY <1>8 DEF PersistOk, PersistFail, PushPersisted, PushBuffered, TypeOK
  <2>7. Poll(w, getters)
    BY <2>4 DEF Finish
  <2> QED
    BY <2>1, <2>3, <2>4, <2>5, <2>6, <2>7, <2>8, PollType DEF TypeOK
<1>9. CASE Stop \/ Drained \/ DrainTimeout
  <2>1. Range(queue) \subseteq Subs
    BY DEF Range, TypeOK
  <2>2. /\ phase' \in {"running", "draining", "drained", "timedout"}
        /\ dropped' \subseteq Subs
    BY <1>9, <2>1 DEF Stop, Drained, DrainTimeout, TypeOK
  <2>3. UNCHANGED <<queueVars, mongoVars, dlqVars, pc, batch, attempt, processed, answer>>
    BY <1>9 DEF Stop, Drained, DrainTimeout
  <2> QED
    BY <2>2, <2>3 DEF queueVars, mongoVars, dlqVars, TypeOK
<1>10. ASSUME NEW w \in Workers, Cancel(w)
       PROVE  TypeOK'
  <2>1. batch[w] \in SUBSET Subs /\ pending[w] \in SUBSET Subs
    BY DEF TypeOK
  <2>2. Cardinality(batch[w]) \in Nat
    BY <2>1, SubsFinite
  <2>3. \/ BulkWriteFails(IdsOf(batch[w])) /\ UNCHANGED dlqVars
        \/ PushCancelled(w)
        \/ UNCHANGED <<mongoVars, dlqVars>>
    BY <1>10 DEF Cancel
  <2>4. stored' \subseteq EventIds /\ dead' \subseteq EventIds /\ refused' \subseteq EventIds
    BY <2>1, <2>3, IdsOfType, MongoType DEF PushCancelled
  <2>5. UNCHANGED <<unpersisted, recorded, racedFailure>> /\ pending' \in [Workers -> SUBSET Subs]
    BY <2>3 DEF PushCancelled, dlqVars, TypeOK
  <2>6. getters' \subseteq Workers
    BY <1>10, AbandonGetType DEF Cancel, TypeOK
  <2>7. /\ unfinished' = unfinished - Cardinality(batch[w])
        /\ batch' = [batch EXCEPT ![w] = {}]
        /\ dropped' = dropped \cup batch[w]
        /\ pc' = [pc EXCEPT ![w] = "exited"]
        /\ UNCHANGED <<queue, phase, attempt, processed, answer>>
    BY <1>10 DEF Cancel, TaskDone
  <2> QED
    BY <2>1, <2>2, <2>4, <2>5, <2>6, <2>7 DEF TypeOK
<1>11. CASE UNCHANGED vars
  BY <1>11 DEF vars, queueVars, mongoVars, dlqVars, poolVars, TypeOK
<1> QED
  BY <1>1, <1>2, <1>3, <1>4, <1>5, <1>6, <1>7, <1>8, <1>9, <1>10, <1>11
     DEF Next, Request, WorkerStep, Shutdown, Terminated

LEMMA TypeInit == Init => TypeOK
<1> SUFFICES ASSUME Init
             PROVE  TypeOK
  OBVIOUS
<1>1. queue \in Seq(Subs) /\ unfinished \in Int /\ getters \subseteq Workers
  BY DEF Init, QueueInit
<1>2. stored \subseteq EventIds /\ dead \subseteq EventIds /\ refused \subseteq EventIds
  BY DEF Init, MongoInit
<1>3. /\ unpersisted \subseteq Subs
      /\ recorded \in Nat
      /\ pending \in [Workers -> SUBSET Subs]
      /\ racedFailure \in BOOLEAN
  BY DEF Init, DLQInit
<1> QED
  BY <1>1, <1>2, <1>3 DEF Init, TypeOK

\* Every variable keeps the type its field has in the code.
THEOREM TypeCorrect == Spec => []TypeOK
<1>1. Init => TypeOK
  BY TypeInit
<1>2. TypeOK /\ [Next]_vars => TypeOK'
  BY TypeStep
<1> QED
  BY <1>1, <1>2, PTL DEF Spec

-----------------------------------------------------------------------------
(* Who holds what. *)

\* A poll hands the oldest events of the queue to the worker, and touches no
\* other worker.
LEMMA PollMoves ==
    ASSUME TypeOK, IsInjective(queue),
           NEW w \in Workers, NEW waiting \in SUBSET Workers, Poll(w, waiting)
    PROVE  /\ IsInjective(queue')
           /\ Range(queue') \cup batch'[w] = Range(queue)
           /\ Range(queue') \cap batch'[w] = {}
           /\ \A v \in Workers \ {w} : batch'[v] = batch[v] /\ pc'[v] = pc[v]
           /\ \/ /\ pc'[w] = "getting" /\ batch'[w] = {}
                 /\ queue' = <<>> /\ getters' = waiting \cup {w}
              \/ /\ pc'[w] = "writing"
                 /\ getters' = waiting
<1>1. CASE queue = <<>>
  <2>1. /\ queue' = queue
        /\ getters' = waiting \cup {w}
        /\ pc' = [pc EXCEPT ![w] = "getting"]
        /\ batch' = [batch EXCEPT ![w] = {}]
    BY <1>1 DEF Poll
  <2>2. batch'[w] = {} /\ pc'[w] = "getting"
    BY <2>1 DEF TypeOK
  <2>3. \A v \in Workers \ {w} : batch'[v] = batch[v] /\ pc'[v] = pc[v]
    BY <2>1 DEF TypeOK
  <2> QED
    BY <1>1, <2>1, <2>2, <2>3
<1>2. CASE queue # <<>>
  <2>1. /\ queue' = SubSeq(queue, NextBatchSize + 1, Len(queue))
        /\ getters' = waiting
        /\ pc' = [pc EXCEPT ![w] = "writing"]
        /\ batch' = [batch EXCEPT ![w] = Oldest(NextBatchSize)]
    BY <1>2 DEF Poll, GetOldest
  <2>2. queue \in Seq(Subs) /\ NextBatchSize \in 1..Len(queue)
    BY <1>2, NextBatchSizeType DEF TypeOK
  <2>3. /\ Oldest(NextBatchSize) \cup Range(queue') = Range(queue)
        /\ Oldest(NextBatchSize) \cap Range(queue') = {}
        /\ IsInjective(queue')
    BY <2>1, <2>2, SplitSequence DEF Oldest
  <2>4. batch'[w] = Oldest(NextBatchSize) /\ pc'[w] = "writing"
    BY <2>1 DEF TypeOK
  <2>5. \A v \in Workers \ {w} : batch'[v] = batch[v] /\ pc'[v] = pc[v]
    BY <2>1 DEF TypeOK
  <2> QED
    BY <2>1, <2>3, <2>4, <2>5
<1> QED
  BY <1>1, <1>2

\* After it the holders are distinct again, and the batch the worker had is the
\* only thing that is no longer held.
LEMMA HoldersAfterPoll ==
    ASSUME TypeOK, OneHolder,
           NEW w \in Workers, NEW waiting \in SUBSET Workers, Poll(w, waiting)
    PROVE  OneHolder' /\ Held' = Held \ batch[w]
<1>1. /\ IsInjective(queue')
      /\ Range(queue') \cup batch'[w] = Range(queue)
      /\ Range(queue') \cap batch'[w] = {}
      /\ \A v \in Workers \ {w} : batch'[v] = batch[v]
  BY PollMoves DEF OneHolder
<1>2. /\ \A v \in Workers : batch[v] \cap Range(queue) = {}
      /\ \A u, v \in Workers : u # v => batch[u] \cap batch[v] = {}
  BY DEF OneHolder
<1>3. \A v \in Workers : batch'[v] \cap Range(queue') = {}
  BY <1>1, <1>2
<1>4. \A u, v \in Workers : u # v => batch'[u] \cap batch'[v] = {}
  BY <1>1, <1>2
<1>5. Held' = Held \ batch[w]
  BY <1>1, <1>2 DEF Held
<1> QED
  BY <1>1, <1>3, <1>4, <1>5 DEF OneHolder

\* What join() relies on, as an inductive invariant: besides the property, a
\* worker without a batch in hand holds nothing, only workers in get() are
\* getters, and nothing is held that was not accepted.
Hands ==
    /\ \A w \in Workers : pc[w] \in {"getting", "exited"} => batch[w] = {}
    /\ \A w \in getters : pc[w] = "getting"
    /\ Held \subseteq Accepted

HoldingInv == TypeOK /\ OneHolder /\ Hands /\ QueueAccounting

\* Nothing about holding changes with the other variables.
LEMMA HoldingUnchanged ==
    ASSUME HoldingInv, UNCHANGED <<queue, unfinished, batch>>,
           NEW w \in Workers,
           pc'[w] \in {"getting", "exited"} => batch[w] = {},
           \A v \in Workers \ {w} : pc'[v] = pc[v],
           getters' \subseteq getters, w \in getters' => pc'[w] = "getting",
           Accepted \subseteq Accepted'
    PROVE  OneHolder' /\ Hands' /\ QueueAccounting'
<1>1. Held' = Held
  BY DEF Held
<1>2. OneHolder' /\ QueueAccounting'
  BY <1>1 DEF HoldingInv, OneHolder, QueueAccounting
<1>3. Hands'
  BY <1>1 DEF HoldingInv, Hands, TypeOK
<1> QED
  BY <1>2, <1>3

\* Polling after having acknowledged the batch keeps the count right.
LEMMA HoldingAfterPoll ==
    ASSUME HoldingInv, NEW w \in Workers, NEW waiting \in SUBSET getters,
           w \notin waiting, Poll(w, waiting), unfinished' = unfinished - Cardinality(batch[w]),
           answer' = answer
    PROVE  OneHolder' /\ Hands' /\ QueueAccounting'
<1>0. waiting \in SUBSET Workers
  BY DEF HoldingInv, TypeOK
<1>1. OneHolder' /\ Held' = Held \ batch[w]
  BY <1>0, HoldersAfterPoll DEF HoldingInv
<1>2. batch[w] \subseteq Held /\ Held \subseteq Subs
  BY DEF HoldingInv, Hands, Held, Accepted
<1>3. QueueAccounting'
  <2>1. Cardinality(Held \ batch[w]) = Cardinality(Held) - Cardinality(batch[w])
    <3>1. Held \cap batch[w] = batch[w] /\ IsFiniteSet(Held)
      BY <1>2, SubsFinite
    <3> QED
      BY <3>1, FS_Difference
  <2> QED
    BY <1>1, <2>1 DEF HoldingInv, QueueAccounting
<1>4. Hands'
  <2>1. /\ \A v \in Workers \ {w} : batch'[v] = batch[v] /\ pc'[v] = pc[v]
        /\ \/ pc'[w] = "getting" /\ batch'[w] = {} /\ getters' = waiting \cup {w}
           \/ pc'[w] = "writing" /\ getters' = waiting
    BY <1>0, PollMoves DEF HoldingInv, OneHolder
  <2>2. \A v \in Workers : pc'[v] \in {"getting", "exited"} => batch'[v] = {}
    BY <2>1 DEF HoldingInv, Hands
  <2>3. Held' \subseteq Accepted'
    BY <1>1 DEF HoldingInv, Hands, Accepted
  <2>4. \A v \in getters' : pc'[v] = "getting"
    BY <2>1 DEF HoldingInv, Hands, TypeOK
  <2> QED
    BY <2>2, <2>3, <2>4 DEF Hands
<1> QED
  BY <1>1, <1>3, <1>4

\* The getters left by a cancelled or timed-out get() do not include it.
LEMMA AbandonGetLeaves ==
    ASSUME getters \subseteq Workers, NEW w \in Workers, NEW left \in AbandonGet(w)
    PROVE  left \subseteq getters \ {w}
<1>1. left \subseteq getters
  BY AbandonGetType
<1>2. w \notin left
  BY <1>1 DEF AbandonGet
<1> QED
  BY <1>1, <1>2

LEMMA HoldingStep == HoldingInv /\ [Next]_vars => HoldingInv'
<1> SUFFICES ASSUME HoldingInv, [Next]_vars
             PROVE  HoldingInv'
  OBVIOUS
<1> USE DEF HoldingInv
<1>0. TypeOK'
  BY TypeStep
<1>1. ASSUME NEW s \in Subs, Accept(s)
      PROVE  HoldingInv'
  <2>1. /\ queue' = Append(queue, s)
        /\ unfinished' = unfinished + 1
        /\ getters' \subseteq getters
        /\ answer[s] = 0
        /\ answer' = [answer EXCEPT ![s] = 202]
        /\ UNCHANGED <<pc, batch>>
    BY <1>1, WakeNextType DEF Accept, PutNowait, Answer, TypeOK
  <2>2. Range(queue') = Range(queue) \cup {s}
    BY <2>1, RangeAppend DEF TypeOK
  <2>3. s \notin Held
    BY <2>1 DEF Hands, Accepted
  <2>4. Held' = Held \cup {s}
    BY <2>1, <2>2 DEF Held
  <2>5. IsInjective(queue')
    <3>1. s \notin Range(queue)
      BY <2>3 DEF Held
    <3>2. /\ queue \in Seq(Subs) /\ IsInjective(queue) /\ Len(queue) \in Nat
          /\ DOMAIN queue = 1..Len(queue) /\ DOMAIN queue' = 1..(Len(queue) + 1)
          /\ \A i \in 1..Len(queue) : queue'[i] = queue[i]
          /\ queue'[Len(queue) + 1] = s
      BY <2>1 DEF TypeOK, OneHolder
    <3> QED
      BY <3>1, <3>2 DEF IsInjective, Range
  <2>6. OneHolder'
    BY <2>1, <2>2, <2>3, <2>5 DEF OneHolder, Held
  <2>7. QueueAccounting'
    <3>1. IsFiniteSet(Held)
      BY SubsFinite DEF Hands, Accepted
    <3>2. Cardinality(Held \cup {s}) = Cardinality(Held) + 1
      BY <2>3, <3>1, FS_AddElement
    <3> QED
      BY <2>1, <2>4, <3>2 DEF QueueAccounting
  <2>8. Hands'
    <3>1. Accepted' = Accepted \cup {s}
      BY <2>1 DEF Accepted, TypeOK
    <3> QED
      BY <2>1, <2>4, <3>1 DEF Hands
  <2> QED
    BY <1>0, <2>6, <2>7, <2>8
<1>2. ASSUME NEW s \in Subs, RejectFull(s) \/ RejectClosed(s)
      PROVE  HoldingInv'
  <2>1. \E status \in {429, 503} : answer' = [answer EXCEPT ![s] = status]
    BY <1>2 DEF RejectFull, RejectClosed, Answer
  <2>2. UNCHANGED <<queueVars, pc, batch>> /\ answer[s] = 0
    BY <1>2 DEF RejectFull, RejectClosed, Answer
  <2>3. Accepted \subseteq Accepted'
    BY <2>1, <2>2 DEF Accepted, TypeOK
  <2>4. Held' = Held
    BY <2>2 DEF Held, queueVars
  <2> QED
    BY <1>0, <2>2, <2>3, <2>4 DEF queueVars, OneHolder, Hands, QueueAccounting
<1>3. ASSUME NEW w \in Workers, Resume(w)
      PROVE  HoldingInv'
  <2>1. /\ Poll(w, getters) /\ w \notin getters /\ batch[w] = {}
        /\ UNCHANGED <<unfinished, answer>>
    BY <1>3 DEF Resume, Hands
  <2>2. unfinished' = unfinished - Cardinality(batch[w])
    BY <2>1, FS_EmptySet DEF TypeOK
  <2> QED
    BY <1>0, <2>1, <2>2, HoldingAfterPoll
<1>4. ASSUME NEW w \in Workers, GetTimeout(w)
      PROVE  HoldingInv'
  <2>1. PICK waiting \in AbandonGet(w) :
          \/ /\ pc' = [pc EXCEPT ![w] = "exited"]
             /\ getters' = waiting
             /\ UNCHANGED <<queue, batch, attempt>>
          \/ Poll(w, waiting)
    BY <1>4 DEF GetTimeout
  <2>2. waiting \subseteq getters \ {w}
    BY AbandonGetLeaves DEF TypeOK
  <2>3. batch[w] = {} /\ UNCHANGED <<unfinished, answer>>
    BY <1>4 DEF GetTimeout, Hands
  <2>4. CASE Poll(w, waiting)
    <3>1. unfinished' = unfinished - Cardinality(batch[w])
      BY <2>3, FS_EmptySet DEF TypeOK
    <3> QED
      BY <1>0, <2>2, <2>3, <2>4, <3>1, HoldingAfterPoll
  <2>5. CASE ~Poll(w, waiting)
    <3>1. /\ pc' = [pc EXCEPT ![w] = "exited"]
          /\ getters' = waiting
          /\ UNCHANGED <<queue, batch, unfinished>>
      BY <2>1, <2>3, <2>5
    <3>2. Accepted' = Accepted
      BY <2>3 DEF Accepted
    <3>3. w \notin getters' /\ getters' \subseteq getters /\ \A v \in Workers \ {w} : pc'[v] = pc[v]
      BY <2>2, <3>1 DEF TypeOK
    <3>4. OneHolder' /\ Hands' /\ QueueAccounting'
      BY <2>3, <3>1, <3>2, <3>3, HoldingUnchanged
    <3> QED
      BY <1>0, <3>4
  <2> QED
    BY <2>4, <2>5
<1>5. ASSUME NEW w \in Workers, WriteOk(w) \/ PersistOk(w) \/ PersistFail(w)
      PROVE  HoldingInv'
  <2>1. /\ pc[w] \in {"writing", "persisting"}
        /\ Poll(w, getters)
        /\ unfinished' = unfinished - Cardinality(batch[w])
        /\ answer' = answer
    BY <1>5 DEF WriteOk, PersistOk, PersistFail, Finish, TaskDone
  <2>2. w \notin getters
    BY <2>1 DEF Hands
  <2> QED
    BY <1>0, <2>1, <2>2, HoldingAfterPoll
<1>6. ASSUME NEW w \in Workers, WriteFail(w) \/ BackoffOver(w)
      PROVE  HoldingInv'
  <2>1. /\ UNCHANGED <<queueVars, batch, answer>>
        /\ pc[w] \in {"writing", "backoff"}
        /\ \E p \in {"writing", "backoff", "persisting"} : pc' = [pc EXCEPT ![w] = p]
    BY <1>6 DEF WriteFail, BackoffOver
  <2>2. Accepted' = Accepted /\ w \notin getters
    BY <2>1 DEF Accepted, Hands
  <2> QED
    BY <1>0, <2>1, <2>2, HoldingUnchanged DEF queueVars, TypeOK
<1>7. CASE Stop \/ Drained \/ DrainTimeout \/ UNCHANGED vars
  <2>1. UNCHANGED <<queue, unfinished, getters, pc, batch, answer>>
    BY <1>7 DEF Stop, Drained, DrainTimeout, vars, queueVars, poolVars
  <2>2. Held' = Held /\ Accepted' = Accepted
    BY <2>1 DEF Held, Accepted
  <2> QED
    BY <1>0, <2>1, <2>2 DEF OneHolder, Hands, QueueAccounting
<1>8. ASSUME NEW w \in Workers, Cancel(w)
      PROVE  HoldingInv'
  <2>1. /\ unfinished' = unfinished - Cardinality(batch[w])
        /\ batch' = [batch EXCEPT ![w] = {}]
        /\ pc' = [pc EXCEPT ![w] = "exited"]
        /\ UNCHANGED <<queue, answer>>
    BY <1>8 DEF Cancel, TaskDone
  <2>2. getters' \subseteq getters \ {w}
    BY <1>8, AbandonGetLeaves DEF Cancel, Hands, TypeOK
  <2>3. /\ batch'[w] = {} /\ pc'[w] = "exited"
        /\ \A v \in Workers \ {w} : batch'[v] = batch[v] /\ pc'[v] = pc[v]
    BY <2>1 DEF TypeOK
  <2>4. OneHolder'
    BY <2>1, <2>3 DEF OneHolder
  <2>5. Held' = Held \ batch[w]
    BY <2>1, <2>3 DEF Held, OneHolder
  <2>6. QueueAccounting'
    <3>1. Held \cap batch[w] = batch[w] /\ IsFiniteSet(Held)
      BY SubsFinite DEF Hands, Held, Accepted
    <3>2. Cardinality(Held \ batch[w]) = Cardinality(Held) - Cardinality(batch[w])
      BY <3>1, FS_Difference
    <3> QED
      BY <2>1, <2>5, <3>2 DEF QueueAccounting
  <2>7. Hands'
    BY <2>1, <2>2, <2>3, <2>5 DEF Hands, Accepted, TypeOK
  <2> QED
    BY <1>0, <2>4, <2>6, <2>7
<1> QED
  BY <1>1, <1>2, <1>3, <1>4, <1>5, <1>6, <1>7, <1>8
     DEF Next, Request, WorkerStep, Shutdown, Terminated

LEMMA HoldingInit == Init => HoldingInv
<1> SUFFICES ASSUME Init
             PROVE  HoldingInv
  OBVIOUS
<1>1. Held = {}
  BY DEF Init, QueueInit, Held, Range
<1>2. OneHolder
  BY DEF Init, QueueInit, OneHolder, Range, IsInjective
<1>3. QueueAccounting
  BY <1>1, FS_EmptySet DEF Init, QueueInit, QueueAccounting
<1>4. Hands
  BY <1>1 DEF Init, QueueInit, Hands
<1> QED
  BY <1>2, <1>3, <1>4, TypeInit DEF HoldingInv

LEMMA HoldingInvariant == Spec => []HoldingInv
BY HoldingInit, HoldingStep, PTL DEF Spec

\* No accepted submission is ever in two hands: each is in one place of the
\* queue or in one worker's batch.
THEOREM OneHolderHolds == Spec => []OneHolder
<1>1. HoldingInv => OneHolder
  BY DEF HoldingInv
<1> QED
  BY <1>1, HoldingInvariant, PTL

\* join() counts what is left to do, on every path that ends a batch.
THEOREM QueueAccountingHolds == Spec => []QueueAccounting
<1>1. HoldingInv => QueueAccounting
  BY DEF HoldingInv
<1> QED
  BY <1>1, HoldingInvariant, PTL

-----------------------------------------------------------------------------
(* Wake-ups. *)

\* Consumers exit only once the pool stops, and from then on no one is woken:
\* whoever is still in get() waits for its timeout, with nothing to take.
Consuming ==
    /\ \A w \in Workers : pc[w] = "exited" => Stopping
    /\ phase = "draining" => RequestsSettled
    /\ NoLostWakeup

WakeupInv == HoldingInv /\ Consuming

\* A worker that polls either empties its get() of any reason to be woken, or
\* takes events and is busy.
LEMMA WakeupAfterPoll ==
    ASSUME WakeupInv, Live, NEW w \in Workers, NEW waiting \in SUBSET getters,
           getters \ {w} \subseteq waiting \/ ~Stopping,
           Poll(w, waiting), phase' = phase
    PROVE  Consuming'
<1>1. waiting \in SUBSET Workers
  BY DEF WakeupInv, HoldingInv, TypeOK
<1>2. /\ \A v \in Workers \ {w} : pc'[v] = pc[v]
      /\ \/ pc'[w] = "getting" /\ queue' = <<>> /\ getters' = waiting \cup {w}
         \/ pc'[w] = "writing" /\ getters' = waiting
  BY <1>1, PollMoves DEF WakeupInv, HoldingInv, OneHolder
<1>3. \A v \in Workers : pc'[v] = "exited" => Stopping'
  BY <1>2 DEF WakeupInv, Consuming, Stopping
<1>4. phase' = "draining" => RequestsSettled'
  BY <1>2 DEF WakeupInv, Consuming, RequestsSettled, Stopping
<1>5. NoLostWakeup'
  BY <1>2 DEF NoLostWakeup
<1> QED
  BY <1>3, <1>4, <1>5 DEF Consuming

LEMMA WakeupStep == WakeupInv /\ [Next]_vars => WakeupInv'
<1> SUFFICES ASSUME WakeupInv, [Next]_vars
             PROVE  WakeupInv'
  OBVIOUS
<1> USE DEF WakeupInv
<1>0. HoldingInv' /\ TypeOK
  BY HoldingStep DEF HoldingInv
<1>1. ASSUME NEW s \in Subs, Accept(s)
      PROVE  Consuming'
  <2>1. /\ phase = "running" /\ phase' = "running" /\ pc' = pc
        /\ getters' \in WakeNext(getters)
    BY <1>1 DEF Accept, PutNowait, Answer
  <2>2. PICK w \in Workers : w \notin getters'
    <3>1. CASE getters = {}
      BY <2>1, <3>1, EventsAssumption DEF WakeNext
    <3>2. CASE getters # {}
      BY <1>0, <2>1, <3>2 DEF WakeNext, TypeOK
    <3> QED
      BY <3>1, <3>2
  <2>3. pc[w] # "exited"
    BY <2>1 DEF Consuming, Stopping
  <2>4. pc'[w] \in {"getting", "writing", "backoff", "persisting"}
    BY <1>0, <2>1, <2>3 DEF TypeOK
  <2> QED
    BY <2>1, <2>2, <2>4 DEF Consuming, NoLostWakeup, Stopping
<1>2. ASSUME NEW w \in Workers, Resume(w) \/ WriteOk(w) \/ PersistOk(w) \/ PersistFail(w)
      PROVE  Consuming'
  <2>1. Live /\ Poll(w, getters) /\ phase' = phase
    BY <1>2 DEF Resume, WriteOk, PersistOk, PersistFail, Finish
  <2> QED
    BY <2>1, WakeupAfterPoll
<1>3. ASSUME NEW w \in Workers, GetTimeout(w)
      PROVE  Consuming'
  <2>1. PICK waiting \in AbandonGet(w) :
          \/ /\ Stopping
             /\ pc' = [pc EXCEPT ![w] = "exited"]
             /\ getters' = waiting
             /\ UNCHANGED <<queue, batch, attempt>>
          \/ /\ ~Stopping
             /\ Poll(w, waiting)
    BY <1>3 DEF GetTimeout
  <2>2. Live /\ pc[w] = "getting" /\ phase' = phase
    BY <1>3 DEF GetTimeout
  <2>3. waiting \subseteq getters
    BY <1>0, AbandonGetType DEF TypeOK
  <2>4. CASE ~Stopping
    BY <2>1, <2>2, <2>3, <2>4, WakeupAfterPoll
  <2>5. CASE Stopping
    <3>1. phase = "draining" /\ w \in getters
      BY <1>0, <2>2, <2>5 DEF Live, Cancelled, Stopping, Consuming, RequestsSettled, TypeOK
    <3>2. getters' = getters \ {w} /\ queue' = queue
      BY <2>1, <2>5, <3>1 DEF AbandonGet
    <3>3. pc'[w] = "exited" /\ \A v \in Workers \ {w} : pc'[v] = pc[v]
      BY <1>0, <2>1, <2>5 DEF TypeOK
    <3>4. RequestsSettled'
      BY <3>1, <3>2, <3>3 DEF Consuming, RequestsSettled
    <3>5. NoLostWakeup'
      BY <2>2, <3>1, <3>2, <3>3 DEF Consuming, NoLostWakeup, RequestsSettled, Live, Cancelled
    <3> QED
      BY <2>2, <2>5, <3>3, <3>4, <3>5 DEF Consuming, Stopping
  <2> QED
    BY <2>4, <2>5
<1>4. ASSUME NEW w \in Workers, WriteFail(w) \/ BackoffOver(w)
      PROVE  Consuming'
  <2>1. /\ UNCHANGED <<queue, getters, phase>>
        /\ pc[w] \in {"writing", "backoff"}
        /\ \E p \in {"writing", "backoff", "persisting"} : pc' = [pc EXCEPT ![w] = p]
    BY <1>4 DEF WriteFail, BackoffOver, queueVars
  <2>2. /\ pc'[w] \in {"writing", "backoff", "persisting"}
        /\ \A v \in Workers \ {w} : pc'[v] = pc[v]
    BY <1>0, <2>1 DEF TypeOK
  <2>3. NoLostWakeup'
    BY <2>2 DEF NoLostWakeup
  <2>4. phase' = "draining" => RequestsSettled'
    BY <2>1, <2>2 DEF Consuming, RequestsSettled
  <2> QED
    BY <2>1, <2>2, <2>3, <2>4 DEF Consuming, Stopping
<1>5. ASSUME Stop
      PROVE  Consuming'
  <2>1. RequestsSettled /\ RequestsSettled' /\ phase' = "draining"
    BY <1>5 DEF Stop, RequestsSettled, queueVars
  <2>2. UNCHANGED <<queue, getters, pc>> /\ Live
    BY <1>5 DEF Stop, queueVars, Live, Cancelled
  <2> QED
    BY <2>1, <2>2 DEF Consuming, NoLostWakeup, Stopping, RequestsSettled
<1>6. ASSUME Drained \/ DrainTimeout \/ \E w \in Workers : Cancel(w)
      PROVE  Consuming'
  <2>1. Cancelled' /\ phase' # "draining"
    BY <1>6 DEF Drained, DrainTimeout, Cancel, Cancelled
  <2> QED
    BY <2>1 DEF Consuming, NoLostWakeup, Stopping, Cancelled, Live
<1>7. ASSUME NEW s \in Subs, RejectFull(s) \/ RejectClosed(s)
      PROVE  Consuming'
  BY <1>7 DEF RejectFull, RejectClosed, Answer, queueVars,
              Consuming, NoLostWakeup, RequestsSettled, Stopping, Live, Cancelled
<1>8. ASSUME UNCHANGED vars
      PROVE  Consuming'
  BY <1>8 DEF vars, queueVars, poolVars,
              Consuming, NoLostWakeup, RequestsSettled, Stopping, Live, Cancelled
<1> QED
  BY <1>0, <1>1, <1>2, <1>3, <1>4, <1>5, <1>6, <1>7, <1>8
     DEF Next, Request, WorkerStep, Shutdown, Terminated

\* An event in the queue never waits for a timeout: some consumer is busy, or
\* has been woken and will look.
THEOREM NoLostWakeupHolds == Spec => []NoLostWakeup
<1>1. Init => WakeupInv
  <2>1. Init => Consuming
    BY DEF Init, QueueInit, Consuming, NoLostWakeup
  <2> QED
    BY <2>1, HoldingInit DEF WakeupInv
<1>2. WakeupInv => NoLostWakeup
  BY DEF WakeupInv, Consuming
<1> QED
  BY <1>1, <1>2, WakeupStep, PTL DEF Spec

-----------------------------------------------------------------------------
(* No silent loss. *)

\* What makes NoSilentLoss inductive: a push_many persists the batch it was
\* called with and, as long as no failed persist has been overtaken, the whole
\* buffer as well, so that clearing or replacing the buffer loses nothing.
Pushes ==
    /\ \A w \in Workers : pc[w] = "persisting" => batch[w] \subseteq pending[w]
    /\ ~racedFailure => \A w \in Workers : Pushing(w) => unpersisted \subseteq pending[w]

LossInv == HoldingInv /\ Pushes /\ NoSilentLoss

\* The collections only grow, and so does what is given up.
LEMMA Accumulates ==
    ASSUME TypeOK, [Next]_vars
    PROVE  /\ stored \subseteq stored' /\ dead \subseteq dead'
           /\ refused \subseteq refused' /\ dropped \subseteq dropped'
<1> USE DEF BulkWrite, BulkWriteFails, PersistDeadLetters, PersistDeadLettersFails,
            mongoVars
<1>1. ASSUME NEW s \in Subs, Request(s)
      PROVE  UNCHANGED <<mongoVars, dropped>>
  BY <1>1 DEF Request, Accept, RejectFull, RejectClosed, Answer
<1>2. ASSUME NEW w \in Workers, Resume(w) \/ GetTimeout(w) \/ BackoffOver(w)
      PROVE  UNCHANGED <<mongoVars, dropped>>
  BY <1>2 DEF Resume, GetTimeout, BackoffOver
<1>3. ASSUME NEW w \in Workers, WriteOk(w) \/ WriteFail(w)
      PROVE  stored \subseteq stored' /\ dead' = dead /\ refused \subseteq refused' /\ dropped' = dropped
  BY <1>3 DEF WriteOk, WriteFail
<1>4. ASSUME NEW w \in Workers, PersistOk(w) \/ PersistFail(w)
      PROVE  stored' = stored /\ dead \subseteq dead' /\ refused \subseteq refused' /\ dropped' = dropped
  BY <1>4 DEF PersistOk, PersistFail, PushPersisted, PushBuffered
<1>5. ASSUME NEW w \in Workers, Cancel(w)
      PROVE  stored \subseteq stored' /\ dead \subseteq dead' /\ refused' = refused /\ dropped \subseteq dropped'
  BY <1>5 DEF Cancel, PushCancelled
<1>6. ASSUME Shutdown
      PROVE  UNCHANGED mongoVars /\ dropped \subseteq dropped'
  BY <1>6 DEF Shutdown, Stop, Drained, DrainTimeout
<1>7. ASSUME UNCHANGED vars
      PROVE  UNCHANGED <<mongoVars, dropped>>
  BY <1>7 DEF vars, poolVars
<1> QED
  BY <1>1, <1>2, <1>3, <1>4, <1>5, <1>6, <1>7 DEF Next, WorkerStep, Terminated

\* A step is harmless if it keeps, in the queue, in a batch or in the buffer,
\* whatever it does not put in a collection or give up.
Kept ==
    /\ racedFailure' \/ ~racedFailure
    /\ Accepted' \subseteq Accepted \cup Held'
    /\ \A s \in (Held \cup unpersisted) \cap Subs :
          ~racedFailure' =>
             \/ s \in Held' \cup unpersisted' \cup dropped'
             \/ EventId[s] \in stored' \cup dead' \cup refused'

\* Every step is harmless.
LEMMA EveryStepKeeps ==
    ASSUME LossInv, [Next]_vars
    PROVE  Pushes' /\ Kept
<1> USE DEF LossInv
<1>0. TypeOK /\ OneHolder /\ Hands
  BY DEF HoldingInv
<1>1. ASSUME NEW s \in Subs, Accept(s)
      PROVE  Pushes' /\ Kept
  <2>1. /\ queue' = Append(queue, s)
        /\ answer' = [answer EXCEPT ![s] = 202]
        /\ UNCHANGED <<mongoVars, dlqVars, pc, batch>>
    BY <1>1 DEF Accept, PutNowait, Answer
  <2>2. Held' = Held \cup {s} /\ Accepted' = Accepted \cup {s}
    BY <1>0, <2>1, RangeAppend DEF Held, Accepted, TypeOK
  <2>3. Pushes'
    BY <2>1 DEF Pushes, Pushing, dlqVars
  <2> QED
    BY <2>1, <2>2, <2>3 DEF Kept, dlqVars
<1>2. ASSUME NEW s \in Subs, RejectFull(s) \/ RejectClosed(s)
      PROVE  Pushes' /\ Kept
  <2>1. \E status \in {429, 503} : answer' = [answer EXCEPT ![s] = status]
    BY <1>2 DEF RejectFull, RejectClosed, Answer
  <2>2. UNCHANGED <<queue, mongoVars, dlqVars, pc, batch>>
    BY <1>2 DEF RejectFull, RejectClosed, Answer, queueVars
  <2>3. Accepted' \subseteq Accepted /\ Held' = Held
    BY <1>0, <2>1, <2>2 DEF Accepted, Held, TypeOK
  <2>4. Pushes'
    BY <2>2 DEF Pushes, Pushing, dlqVars
  <2> QED
    BY <2>2, <2>3, <2>4 DEF Kept, dlqVars
<1>3. ASSUME NEW w \in Workers, Resume(w) \/ GetTimeout(w)
      PROVE  Pushes' /\ Kept
  <2>1. UNCHANGED <<dlqVars, answer>> /\ batch[w] = {} /\ pc[w] = "getting"
    BY <1>0, <1>3 DEF Resume, GetTimeout, Hands
  <2>2. /\ Held' = Held
        /\ \A v \in Workers \ {w} : pc'[v] = pc[v] /\ batch'[v] = batch[v]
        /\ pc'[w] # "persisting"
    <3>1. \/ \E waiting \in SUBSET Workers : Poll(w, waiting)
          \/ pc' = [pc EXCEPT ![w] = "exited"] /\ UNCHANGED <<queue, batch>>
      BY <1>0, <1>3, AbandonGetType DEF Resume, GetTimeout, TypeOK
    <3>2. CASE \E waiting \in SUBSET Workers : Poll(w, waiting)
      <4>1. PICK waiting \in SUBSET Workers : Poll(w, waiting)
        BY <3>2
      <4>2. Held' = Held \ batch[w]
        BY <1>0, <4>1, HoldersAfterPoll
      <4>3. /\ \A v \in Workers \ {w} : pc'[v] = pc[v] /\ batch'[v] = batch[v]
            /\ pc'[w] # "persisting"
        BY <1>0, <4>1, PollMoves DEF OneHolder
      <4> QED
        BY <2>1, <4>2, <4>3
    <3>3. CASE pc' = [pc EXCEPT ![w] = "exited"] /\ UNCHANGED <<queue, batch>>
      <4>1. pc'[w] = "exited" /\ \A v \in Workers \ {w} : pc'[v] = pc[v]
        BY <1>0, <3>3 DEF TypeOK
      <4>2. Held' = Held
        BY <3>3 DEF Held
      <4> QED
        BY <3>3, <4>1, <4>2
    <3> QED
      BY <3>1, <3>2, <3>3
  <2>3. Pushes'
    BY <2>1, <2>2 DEF Pushes, Pushing, dlqVars
  <2> QED
    BY <2>1, <2>2, <2>3 DEF Kept, Accepted, dlqVars
<1>4. ASSUME NEW w \in Workers, WriteOk(w)
      PROVE  Pushes' /\ Kept
  <2>1. /\ BulkWrite(IdsOf(batch[w]))
        /\ UNCHANGED <<dlqVars, answer>>
        /\ getters \in SUBSET Workers /\ Poll(w, getters)
    BY <1>0, <1>4 DEF WriteOk, Finish, TypeOK
  <2>2. /\ Held' = Held \ batch[w]
        /\ \A v \in Workers \ {w} : pc'[v] = pc[v] /\ batch'[v] = batch[v]
        /\ pc'[w] # "persisting"
    BY <1>0, <2>1, HoldersAfterPoll, PollMoves DEF OneHolder
  <2>3. \A s \in batch[w] : EventId[s] \in stored' \cup refused'
    BY <2>1 DEF BulkWrite, IdsOf
  <2>4. Pushes'
    BY <2>1, <2>2 DEF Pushes, Pushing, dlqVars
  <2> QED
    BY <2>1, <2>2, <2>3, <2>4 DEF Kept, Accepted, dlqVars
<1>5. ASSUME NEW w \in Workers, WriteFail(w)
      PROVE  Pushes' /\ Kept
  <2>1. /\ UNCHANGED <<queue, batch, answer, unpersisted, racedFailure>>
        /\ \/ pc' = [pc EXCEPT ![w] = "backoff"] /\ pending' = pending
           \/ /\ pc' = [pc EXCEPT ![w] = "persisting"]
              /\ pending' = [pending EXCEPT ![w] = unpersisted \cup batch[w]]
    BY <1>5 DEF WriteFail, PushMany, queueVars, dlqVars
  <2>2. \A v \in Workers \ {w} : pc'[v] = pc[v] /\ pending'[v] = pending[v]
    BY <1>0, <2>1 DEF TypeOK
  <2>3. ASSUME pc' = [pc EXCEPT ![w] = "backoff"], pending' = pending
        PROVE  Pushes'
    <3>1. pc'[w] = "backoff" /\ pending'[w] = pending[w]
      BY <1>0, <2>3 DEF TypeOK
    <3> QED
      BY <2>1, <2>2, <3>1 DEF Pushes, Pushing
  <2>4. ASSUME pc' = [pc EXCEPT ![w] = "persisting"],
               pending' = [pending EXCEPT ![w] = unpersisted \cup batch[w]]
        PROVE  Pushes'
    <3>1. pending'[w] = unpersisted \cup batch[w]
      BY <1>0, <2>4 DEF TypeOK
    <3> QED
      BY <2>1, <2>2, <3>1 DEF Pushes, Pushing
  <2>5. Pushes'
    BY <2>1, <2>3, <2>4
  <2> QED
    BY <2>1, <2>5 DEF Kept, Held, Accepted
<1>6. ASSUME NEW w \in Workers, BackoffOver(w)
      PROVE  Pushes' /\ Kept
  <2>1. UNCHANGED <<queue, batch, answer, dlqVars>> /\ pc' = [pc EXCEPT ![w] = "writing"]
    BY <1>6 DEF BackoffOver, queueVars
  <2>2. pc'[w] = "writing" /\ \A v \in Workers \ {w} : pc'[v] = pc[v]
    BY <1>0, <2>1 DEF TypeOK
  <2>3. Pushes'
    BY <2>1, <2>2 DEF Pushes, Pushing, dlqVars
  <2> QED
    BY <2>1, <2>3 DEF Kept, Held, Accepted, dlqVars
<1>7. ASSUME NEW w \in Workers, PersistOk(w)
      PROVE  Pushes' /\ Kept
  <2>1. /\ pc[w] = "persisting" /\ Pushing(w)
        /\ PersistDeadLetters(IdsOf(pending[w]))
        /\ unpersisted' = {}
        /\ pending' = [pending EXCEPT ![w] = {}]
        /\ UNCHANGED <<racedFailure, answer>>
        /\ getters \in SUBSET Workers /\ Poll(w, getters)
    BY <1>0, <1>7 DEF PersistOk, PushPersisted, Finish, TypeOK
  <2>2. /\ Held' = Held \ batch[w]
        /\ \A v \in Workers \ {w} : pc'[v] = pc[v] /\ batch'[v] = batch[v]
        /\ pc'[w] # "persisting"
    BY <1>0, <2>1, HoldersAfterPoll, PollMoves DEF OneHolder
  <2>3. \A s \in pending[w] : EventId[s] \in dead' \cup refused'
    BY <2>1 DEF PersistDeadLetters, IdsOf
  <2>4. batch[w] \subseteq pending[w] /\ (~racedFailure => unpersisted \subseteq pending[w])
    BY <2>1 DEF Pushes
  <2>5. Pushes'
    BY <1>0, <2>1, <2>2 DEF Pushes, Pushing, TypeOK
  <2> QED
    BY <2>1, <2>2, <2>3, <2>4, <2>5 DEF Kept, Accepted
<1>8. ASSUME NEW w \in Workers, PersistFail(w)
      PROVE  Pushes' /\ Kept
  <2>1. /\ pc[w] = "persisting" /\ Pushing(w)
        /\ unpersisted' = pending[w]
        /\ pending' = [pending EXCEPT ![w] = {}]
        /\ answer' = answer
        /\ getters \in SUBSET Workers /\ Poll(w, getters)
    BY <1>0, <1>8 DEF PersistFail, PushBuffered, Finish, TypeOK
  <2>2. /\ Held' = Held \ batch[w]
        /\ \A v \in Workers \ {w} : pc'[v] = pc[v] /\ batch'[v] = batch[v]
        /\ pc'[w] # "persisting"
    BY <1>0, <2>1, HoldersAfterPoll, PollMoves DEF OneHolder
  <2>3. ~racedFailure' => ~racedFailure /\ \A v \in Workers \ {w} : ~Pushing(v)
    BY <1>8 DEF PersistFail, PushBuffered
  <2>4. batch[w] \subseteq pending[w] /\ (~racedFailure => unpersisted \subseteq pending[w])
    BY <2>1 DEF Pushes
  <2>5. Pushes'
    BY <1>0, <2>1, <2>2, <2>3 DEF Pushes, Pushing, TypeOK
  <2>6. racedFailure' \/ ~racedFailure
    BY <2>3
  <2> QED
    BY <2>1, <2>2, <2>3, <2>4, <2>5, <2>6 DEF Kept, Accepted
<1>9. ASSUME NEW w \in Workers, Cancel(w)
      PROVE  Pushes' /\ Kept
  <2>1. /\ batch' = [batch EXCEPT ![w] = {}]
        /\ pc' = [pc EXCEPT ![w] = "exited"]
        /\ dropped' = dropped \cup batch[w]
        /\ UNCHANGED <<queue, answer, unpersisted, racedFailure>>
        /\ pending' = pending \/ pending' = [pending EXCEPT ![w] = {}]
    BY <1>9 DEF Cancel, PushCancelled, dlqVars
  <2>2. Held \subseteq Held' \cup batch[w]
    BY <1>0, <2>1 DEF Held, TypeOK
  <2>3. \A v \in Workers \ {w} :
           pc'[v] = pc[v] /\ batch'[v] = batch[v] /\ pending'[v] = pending[v]
    BY <1>0, <2>1 DEF TypeOK
  <2>4. pc'[w] = "exited"
    BY <1>0, <2>1 DEF TypeOK
  <2>5. pending'[w] \in {pending[w], {}}
    BY <1>0, <2>1 DEF TypeOK
  <2>6. Pushes'
    BY <2>1, <2>3, <2>4, <2>5 DEF Pushes, Pushing
  <2> QED
    BY <2>1, <2>2, <2>6 DEF Kept, Accepted
<1>10. ASSUME Shutdown \/ UNCHANGED vars
       PROVE  Pushes' /\ Kept
  <2>1. UNCHANGED <<queue, pc, batch, answer, dlqVars>>
    BY <1>10 DEF Shutdown, Stop, Drained, DrainTimeout, vars, queueVars, poolVars
  <2>2. Pushes'
    BY <2>1 DEF Pushes, Pushing, dlqVars
  <2> QED
    BY <2>1, <2>2 DEF Kept, Held, Accepted, dlqVars
<1> QED
  BY <1>0, <1>1, <1>2, <1>3, <1>4, <1>5, <1>6, <1>7, <1>8, <1>9, <1>10
     DEF Next, Request, WorkerStep, Terminated

LEMMA LossStep == LossInv /\ [Next]_vars => LossInv'
<1> SUFFICES ASSUME LossInv, [Next]_vars
             PROVE  LossInv'
  OBVIOUS
<1>1. HoldingInv' /\ Pushes' /\ Kept
  BY HoldingStep, EveryStepKeeps DEF LossInv
<1>2. /\ stored \subseteq stored' /\ dead \subseteq dead'
      /\ refused \subseteq refused' /\ dropped \subseteq dropped'
  BY Accumulates DEF LossInv, HoldingInv
<1>3. ASSUME ~racedFailure', NEW s \in Accepted'
      PROVE  s \in Held' \/ Recoverable(s)' \/ GivenUp(s)'
  <2>1. CASE s \in Held'
    BY <2>1
  <2>2. CASE s \in Accepted
    <3>1. s \in Held \/ Recoverable(s) \/ GivenUp(s)
      BY <1>1, <1>3, <2>2 DEF LossInv, NoSilentLoss, Kept
    <3>2. s \in Subs
      BY <2>2 DEF Accepted
    <3> QED
      BY <1>1, <1>2, <1>3, <3>1, <3>2 DEF Recoverable, GivenUp, Kept
  <2> QED
    BY <1>1, <1>3, <2>1, <2>2 DEF Kept
<1>4. NoSilentLoss'
  BY <1>3 DEF NoSilentLoss
<1> QED
  BY <1>1, <1>4 DEF LossInv

LEMMA LossInit == Init => LossInv
<1>1. Init => Pushes
  BY DEF Init, DLQInit, Pushes, Pushing
<1>2. Init => NoSilentLoss
  BY DEF Init, NoSilentLoss, Accepted
<1> QED
  BY <1>1, <1>2, HoldingInit DEF LossInv

\* A 202 is kept: an accepted event stays in the pipeline, reaches one of the
\* collections or the dead-letter buffer, or is given up by a drain that timed
\* out or a refusal taken for a duplicate, unless a failed persist of dead
\* letters has overlapped with another.
THEOREM NoSilentLossHolds == Spec => []NoSilentLoss
<1>1. LossInv => NoSilentLoss
  BY DEF LossInv
<1> QED
  BY <1>1, LossInit, LossStep, PTL DEF Spec

-----------------------------------------------------------------------------
(* The drain and the metrics. *)

\* Nothing is given up before a drain has timed out.
Drains ==
    /\ phase \in {"running", "draining"} => dropped = {}
    /\ CleanDrain

DrainInv == HoldingInv /\ Drains

LEMMA DrainInit == Init => DrainInv
BY HoldingInit DEF Init, DrainInv, Drains, CleanDrain

LEMMA DrainStep == DrainInv /\ [Next]_vars => DrainInv'
<1> SUFFICES ASSUME DrainInv, [Next]_vars
             PROVE  Drains'
  BY HoldingStep DEF DrainInv
<1> USE DEF DrainInv, Drains, CleanDrain
<1>1. ASSUME NEW s \in Subs, Request(s)
      PROVE  Drains'
  <2>1. UNCHANGED <<phase, dropped>>
    BY <1>1 DEF Request, Accept, RejectFull, RejectClosed, Answer
  <2>2. phase = "drained" => UNCHANGED <<queue, batch>>
    BY <1>1 DEF Request, Accept, RejectFull, RejectClosed, Answer, queueVars
  <2> QED
    BY <2>1, <2>2 DEF Held
<1>2. ASSUME NEW w \in Workers, WorkerStep(w), Live
      PROVE  Drains'
  BY <1>2 DEF WorkerStep, Resume, GetTimeout, WriteOk, WriteFail, BackoffOver, PersistOk,
              PersistFail, Cancel, Live, Cancelled
<1>3. ASSUME NEW w \in Workers, Cancel(w)
      PROVE  Drains'
  <2>1. /\ phase' = phase /\ phase \in {"drained", "timedout"}
        /\ queue' = queue /\ batch' = [batch EXCEPT ![w] = {}]
        /\ dropped' = dropped \cup batch[w]
    BY <1>3 DEF Cancel, Cancelled
  <2>2. batch[w] \subseteq Held /\ Held' \subseteq Held
    BY <2>1 DEF Held, HoldingInv, TypeOK
  <2> QED
    BY <2>1, <2>2
<1>4. CASE Stop
  BY <1>4 DEF Stop
<1>5. CASE Drained
  <2>1. unfinished = 0 /\ UNCHANGED <<queue, batch, dropped>> /\ phase = "draining"
    BY <1>5 DEF Drained, Joined, queueVars
  <2>2. Held = {}
    <3>1. IsFiniteSet(Held) /\ Cardinality(Held) = 0
      BY <2>1, SubsFinite DEF HoldingInv, QueueAccounting, Hands, Accepted
    <3> QED
      BY <3>1, FS_EmptySet
  <2> QED
    BY <1>5, <2>1, <2>2 DEF Drained, Held
<1>6. CASE DrainTimeout
  BY <1>6 DEF DrainTimeout
<1>7. CASE UNCHANGED vars
  BY <1>7 DEF vars, queueVars, poolVars, Held
<1>8. \A w \in Workers : WorkerStep(w) => Live \/ Cancel(w)
  BY DEF WorkerStep, Resume, GetTimeout, WriteOk, WriteFail, BackoffOver, PersistOk, PersistFail
<1> QED
  BY <1>1, <1>2, <1>3, <1>4, <1>5, <1>6, <1>7, <1>8 DEF Next, Shutdown, Terminated

\* A drain that ends in time has left nothing behind.
THEOREM CleanDrainHolds == Spec => []CleanDrain
<1>1. DrainInv => CleanDrain
  BY DEF DrainInv, Drains
<1> QED
  BY <1>1, DrainInit, DrainStep, PTL DEF Spec

\* After a poll the batch that the worker had is the only thing that may have
\* become counted.
LEMMA UncountedAfterPoll ==
    ASSUME HoldingInv, NEW w \in Workers, NEW waiting \in SUBSET Workers, Poll(w, waiting)
    PROVE  Uncounted' = Uncounted \ batch[w]
<1>1. /\ Range(queue') \cup batch'[w] = Range(queue)
      /\ \A v \in Workers \ {w} : batch'[v] = batch[v] /\ pc'[v] = pc[v]
      /\ \/ pc'[w] = "getting" /\ batch'[w] = {}
         \/ pc'[w] = "writing"
  BY PollMoves DEF HoldingInv, OneHolder
<1>2. /\ batch[w] \cap Range(queue) = {}
      /\ \A v \in Workers \ {w} : batch[v] \cap batch[w] = {}
  BY DEF HoldingInv, OneHolder
<1>3. ASSUME NEW s
      PROVE  s \in Uncounted' <=> s \in Uncounted \ batch[w]
  <2>1. s \in Uncounted' <=>
          \/ s \in Range(queue)
          \/ \E v \in Workers \ {w} : pc[v] \in {"writing", "backoff"} /\ s \in batch[v]
    BY <1>1 DEF Uncounted
  <2>2. s \in Uncounted \ batch[w] <=>
          \/ s \in Range(queue)
          \/ \E v \in Workers \ {w} : pc[v] \in {"writing", "backoff"} /\ s \in batch[v]
    BY <1>2 DEF Uncounted
  <2> QED
    BY <2>1, <2>2
<1> QED
  BY <1>3

\* The submissions that a batch adds to those that are counted.
LEMMA CountedBatch ==
    ASSUME HoldingInv, NEW w \in Workers, pc[w] \in {"writing", "backoff"},
           UNCHANGED answer, Uncounted' = Uncounted \ batch[w]
    PROVE  Cardinality((Accepted \ Uncounted)')
              = Cardinality(Accepted \ Uncounted) + Cardinality(batch[w])
<1>1. batch[w] \subseteq Uncounted /\ batch[w] \subseteq Accepted
  BY DEF Uncounted, HoldingInv, Hands, Held
<1>2. (Accepted \ Uncounted)' = (Accepted \ Uncounted) \cup batch[w]
  BY <1>1 DEF Accepted
<1>3. IsFiniteSet(Accepted \ Uncounted) /\ IsFiniteSet(batch[w])
  BY <1>1, SubsFinite DEF Accepted
<1>4. (Accepted \ Uncounted) \cap batch[w] = {}
  BY <1>1
<1>5. ASSUME NEW A, NEW B, IsFiniteSet(A), IsFiniteSet(B), A \cap B = {}
      PROVE  Cardinality(A \cup B) = Cardinality(A) + Cardinality(B)
  <2>1. Cardinality(A \cup B) = Cardinality(A) + Cardinality(B) - Cardinality(A \cap B)
    BY <1>5, FS_Union
  <2>2. Cardinality(A) \in Nat /\ Cardinality(B) \in Nat /\ Cardinality(A \cap B) = 0
    BY <1>5, FS_CardinalityType, FS_EmptySet
  <2> QED
    BY <2>1, <2>2
<1>6. Cardinality((Accepted \ Uncounted) \cup batch[w])
            = Cardinality(Accepted \ Uncounted) + Cardinality(batch[w])
  BY <1>3, <1>4, <1>5
<1> QED
  BY <1>2, <1>6, Zenon

CountInv == DrainInv /\ MetricsAddUp

LEMMA CountInit == Init => CountInv
<1> SUFFICES ASSUME Init
             PROVE  MetricsAddUp
  BY DrainInit DEF CountInv
<1>1. Accepted = {}
  BY DEF Init, Accepted
<1> QED
  BY <1>1, FS_EmptySet DEF Init, DLQInit, MetricsAddUp

LEMMA CountStep == CountInv /\ [Next]_vars => CountInv'
<1> SUFFICES ASSUME CountInv, [Next]_vars, phase' # "timedout"
             PROVE  processed' + recorded' = Cardinality((Accepted \ Uncounted)')
  BY DrainStep DEF CountInv, MetricsAddUp
<1>0. HoldingInv /\ TypeOK /\ processed \in Nat /\ recorded \in Nat
  BY DEF CountInv, DrainInv, HoldingInv, TypeOK
<1>1. CASE /\ UNCHANGED <<processed, recorded>> /\ (Accepted \ Uncounted)' = Accepted \ Uncounted
           /\ phase # "timedout"
  BY <1>1 DEF CountInv, MetricsAddUp
<1>2. ASSUME NEW s \in Subs, Accept(s)
      PROVE  (Accepted \ Uncounted)' = Accepted \ Uncounted
  <2>1. /\ queue' = Append(queue, s) /\ answer' = [answer EXCEPT ![s] = 202]
        /\ answer[s] = 0 /\ UNCHANGED <<pc, batch>>
    BY <1>2 DEF Accept, PutNowait, Answer
  <2>2. Range(queue') = Range(queue) \cup {s}
    BY <1>0, <2>1, RangeAppend DEF TypeOK
  <2>3. Uncounted' = Uncounted \cup {s} /\ Accepted' = Accepted \cup {s} /\ s \notin Accepted
    BY <1>0, <2>1, <2>2 DEF Uncounted, Accepted, TypeOK
  <2> QED
    BY <2>3
<1>3. ASSUME NEW s \in Subs, RejectFull(s) \/ RejectClosed(s)
      PROVE  (Accepted \ Uncounted)' = Accepted \ Uncounted
  <2>1. Accepted' = Accepted /\ UNCHANGED <<queue, pc, batch>>
    BY <1>0, <1>3 DEF RejectFull, RejectClosed, Answer, Accepted, queueVars, TypeOK
  <2> QED
    BY <2>1 DEF Uncounted
<1>4. ASSUME NEW w \in Workers, Resume(w) \/ GetTimeout(w)
      PROVE  (Accepted \ Uncounted)' = Accepted \ Uncounted
  <2>1. batch[w] = {} /\ pc[w] = "getting" /\ answer' = answer
    BY <1>0, <1>4 DEF Resume, GetTimeout, HoldingInv, Hands
  <2>2. ASSUME NEW waiting \in SUBSET Workers, Poll(w, waiting)
        PROVE  Uncounted' = Uncounted
    BY <1>0, <2>1, <2>2, UncountedAfterPoll
  <2>3. ASSUME pc' = [pc EXCEPT ![w] = "exited"], UNCHANGED <<queue, batch>>
        PROVE  Uncounted' = Uncounted
    BY <1>0, <2>1, <2>3 DEF Uncounted, TypeOK
  <2>4. getters \in SUBSET Workers /\ AbandonGet(w) \subseteq SUBSET Workers
    BY <1>0, AbandonGetLeaves DEF TypeOK
  <2>5. Uncounted' = Uncounted
    BY <1>4, <2>2, <2>3, <2>4 DEF Resume, GetTimeout
  <2> QED
    BY <2>1, <2>5 DEF Accepted
<1>5. ASSUME NEW w \in Workers, WriteOk(w)
      PROVE  processed' + recorded' = Cardinality((Accepted \ Uncounted)')
  <2>1. /\ pc[w] = "writing" /\ Poll(w, getters) /\ UNCHANGED <<answer, recorded>>
        /\ processed' = processed + Cardinality(batch[w]) /\ phase = phase'
    BY <1>5 DEF WriteOk, Finish, dlqVars
  <2>2. Uncounted' = Uncounted \ batch[w]
    BY <1>0, <2>1, UncountedAfterPoll DEF TypeOK
  <2>3. Cardinality(batch[w]) \in Nat
    BY <1>0, SubsFinite, FS_CardinalityType DEF TypeOK
  <2>4. Cardinality((Accepted \ Uncounted)')
              = Cardinality(Accepted \ Uncounted) + Cardinality(batch[w])
    BY <1>0, <2>1, <2>2, CountedBatch
  <2>5. processed + recorded = Cardinality(Accepted \ Uncounted)
    BY <2>1 DEF CountInv, MetricsAddUp
  <2> QED
    BY <1>0, <2>1, <2>3, <2>4, <2>5
<1>6. ASSUME NEW w \in Workers, WriteFail(w)
      PROVE  processed' + recorded' = Cardinality((Accepted \ Uncounted)')
  <2>1. pc[w] = "writing" /\ UNCHANGED <<queue, batch, answer, processed, phase>>
    BY <1>6 DEF WriteFail, queueVars
  <2>2. CASE pc' = [pc EXCEPT ![w] = "backoff"] /\ recorded' = recorded
    <3>1. Uncounted' = Uncounted
      BY <1>0, <2>1, <2>2 DEF Uncounted, TypeOK
    <3> QED
      BY <1>1, <2>1, <2>2, <3>1 DEF Accepted
  <2>3. CASE pc' = [pc EXCEPT ![w] = "persisting"] /\ recorded' = recorded + Cardinality(batch[w])
    <3>1. Uncounted' = Uncounted \ batch[w]
      BY <1>0, <2>1, <2>3 DEF Uncounted, TypeOK, HoldingInv, OneHolder
    <3>2. Cardinality(batch[w]) \in Nat
      BY <1>0, SubsFinite, FS_CardinalityType DEF TypeOK
    <3>3. Cardinality((Accepted \ Uncounted)')
              = Cardinality(Accepted \ Uncounted) + Cardinality(batch[w])
      BY <1>0, <2>1, <3>1, CountedBatch
    <3>4. processed + recorded = Cardinality(Accepted \ Uncounted)
      BY <2>1 DEF CountInv, MetricsAddUp
    <3> QED
      BY <1>0, <2>1, <2>3, <3>2, <3>3, <3>4
  <2> QED
    BY <1>6, <2>2, <2>3 DEF WriteFail, PushMany, dlqVars
<1>7. ASSUME NEW w \in Workers, BackoffOver(w)
      PROVE  (Accepted \ Uncounted)' = Accepted \ Uncounted
  <2>1. /\ pc[w] = "backoff" /\ pc' = [pc EXCEPT ![w] = "writing"]
        /\ UNCHANGED <<queue, batch, answer>>
    BY <1>7 DEF BackoffOver, queueVars
  <2>2. Uncounted' = Uncounted
    BY <1>0, <2>1 DEF Uncounted, TypeOK
  <2> QED
    BY <2>1, <2>2 DEF Accepted
<1>8. ASSUME NEW w \in Workers, PersistOk(w) \/ PersistFail(w)
      PROVE  (Accepted \ Uncounted)' = Accepted \ Uncounted
  <2>1. pc[w] = "persisting" /\ Poll(w, getters) /\ answer' = answer
    BY <1>8 DEF PersistOk, PersistFail, Finish
  <2>2. Uncounted' = Uncounted \ batch[w]
    BY <1>0, <2>1, UncountedAfterPoll DEF TypeOK
  <2>3. Uncounted \cap batch[w] = {}
    BY <1>0, <2>1 DEF Uncounted, HoldingInv, OneHolder
  <2> QED
    BY <2>1, <2>2, <2>3 DEF Accepted
<1>9. ASSUME NEW w \in Workers, Cancel(w)
      PROVE  (Accepted \ Uncounted)' = Accepted \ Uncounted
  <2>1. /\ phase = "drained" /\ UNCHANGED <<queue, answer>>
        /\ batch' = [batch EXCEPT ![w] = {}]
    BY <1>9 DEF Cancel, Cancelled
  <2>2. Held = {} /\ Held' = {}
    <3>1. Held = {}
      BY <2>1 DEF CountInv, DrainInv, Drains, CleanDrain
    <3>2. \A v \in Workers : batch'[v] \subseteq batch[v]
      BY <1>0, <2>1 DEF TypeOK
    <3> QED
      BY <2>1, <3>1, <3>2 DEF Held
  <2>3. Uncounted = {} /\ Uncounted' = {}
    BY <2>2 DEF Held, Uncounted
  <2> QED
    BY <2>1, <2>3 DEF Accepted
<1>10. CASE Stop \/ Drained \/ UNCHANGED vars
  <2>1. UNCHANGED <<queue, pc, batch, answer, processed, recorded>>
    BY <1>10 DEF Stop, Drained, vars, queueVars, dlqVars, poolVars
  <2>2. phase # "timedout"
    BY <1>10 DEF Stop, Drained, vars, poolVars
  <2>3. Uncounted' = Uncounted /\ Accepted' = Accepted
    BY <2>1 DEF Uncounted, Accepted
  <2> QED
    BY <1>1, <2>1, <2>2, <2>3
<1>11. ~DrainTimeout
  BY DEF DrainTimeout
<1>12. ASSUME \/ \E s \in Subs : Request(s)
              \/ \E w \in Workers : Resume(w) \/ GetTimeout(w) \/ BackoffOver(w) \/ PersistOk(w)
                                      \/ PersistFail(w) \/ Cancel(w)
       PROVE  UNCHANGED <<processed, recorded>> /\ phase' = phase
  BY <1>12 DEF Request, Accept, RejectFull, RejectClosed, Answer, Resume, GetTimeout, BackoffOver,
               PersistOk, PersistFail, Cancel, PushPersisted, PushBuffered, PushCancelled, dlqVars
<1> QED
  BY <1>1, <1>2, <1>3, <1>4, <1>5, <1>6, <1>7, <1>8, <1>9, <1>10, <1>11, <1>12
     DEF Next, Request, WorkerStep, Shutdown, Terminated

\* Every accepted submission is counted once, as processed or as recorded,
\* however often its batch was tried and its dead letter persisted.
THEOREM MetricsAddUpHolds == Spec => []MetricsAddUp
<1>1. CountInv => MetricsAddUp
  BY DEF CountInv
<1> QED
  BY <1>1, CountInit, CountStep, PTL DEF Spec

-----------------------------------------------------------------------------
(* What a documentation claim that the code refutes comes down to. *)

\* With one worker there is no other push_many to overtake a failed persist.
LEMMA OneWorkerNeverRaces ==
    ASSUME \A v, w \in Workers : v = w, TypeOK, ~racedFailure, [Next]_vars
    PROVE  ~racedFailure'
<1>1. ASSUME NEW s \in Subs, Request(s)
      PROVE  racedFailure' = racedFailure
  BY <1>1 DEF Request, Accept, RejectFull, RejectClosed, Answer, dlqVars
<1>2. ASSUME NEW w \in Workers, WorkerStep(w)
      PROVE  racedFailure' = racedFailure
  <2>1. CASE Resume(w) \/ GetTimeout(w) \/ WriteOk(w) \/ BackoffOver(w)
    BY <2>1 DEF Resume, GetTimeout, WriteOk, BackoffOver, dlqVars
  <2>2. CASE WriteFail(w)
    BY <2>2 DEF WriteFail, PushMany, dlqVars
  <2>3. CASE PersistOk(w)
    BY <2>3 DEF PersistOk, PushPersisted
  <2>4. CASE PersistFail(w)
    BY <2>4 DEF PersistFail, PushBuffered, TypeOK
  <2>5. CASE Cancel(w)
    BY <2>5 DEF Cancel, PushCancelled, dlqVars
  <2> QED
    BY <1>2, <2>1, <2>2, <2>3, <2>4, <2>5 DEF WorkerStep
<1>3. ASSUME Shutdown \/ UNCHANGED vars
      PROVE  racedFailure' = racedFailure
  BY <1>3 DEF Shutdown, Stop, Drained, DrainTimeout, vars, dlqVars
<1> QED
  BY <1>1, <1>2, <1>3 DEF Next, Terminated

\* dlq.py, push_many: "a failed persist never drops an entry while the process
\* runs" is true of a pool of one worker.
THEOREM NeverDroppedByOneWorker ==
    ASSUME \A v, w \in Workers : v = w
    PROVE  Spec => []NeverDropped
<1> DEFINE OneWorkerInv == LossInv /\ ~racedFailure
<1>1. Init => OneWorkerInv
  BY LossInit DEF Init, DLQInit
<1>2. OneWorkerInv /\ [Next]_vars => OneWorkerInv'
  BY LossStep, OneWorkerNeverRaces DEF LossInv, HoldingInv
<1>3. OneWorkerInv => NeverDropped
  BY DEF LossInv, NoSilentLoss, NeverDropped
<1> QED
  BY <1>1, <1>2, <1>3, PTL DEF Spec

-----------------------------------------------------------------------------
(* How much is in flight. *)

Bounds ==
    /\ Len(queue) <= QueueMaxSize
    /\ \A w \in Workers : Cardinality(batch[w]) <= BatchSize

\* What the queue and the workers hold, which unfinished counts.
BacklogBounded == unfinished <= QueueMaxSize + Cardinality(Workers) * BatchSize

BoundsInv == HoldingInv /\ Bounds

LEMMA BoundsAfterPoll ==
    ASSUME TypeOK, Bounds, NEW w \in Workers, NEW waiting, Poll(w, waiting)
    PROVE  Bounds'
<1>1. CASE queue = <<>>
  <2>1. batch' = [batch EXCEPT ![w] = {}] /\ UNCHANGED queue
    BY <1>1 DEF Poll
  <2>2. Cardinality({}) <= BatchSize
    BY FS_EmptySet, WorkerPoolAssumption
  <2> QED
    BY <2>1, <2>2 DEF Bounds, TypeOK
<1>2. CASE queue # <<>>
  <2> DEFINE n == NextBatchSize
  <2>1. n \in 1 .. Len(queue) /\ n <= BatchSize /\ Len(queue) \in Nat
    BY <1>2, NextBatchSizeType, WorkerPoolAssumption DEF NextBatchSize, TypeOK
  <2>2. /\ queue' = SubSeq(queue, n + 1, Len(queue))
        /\ batch' = [batch EXCEPT ![w] = Oldest(n)]
    BY <1>2 DEF Poll, GetOldest
  <2> HIDE DEF n
  <2>3. Len(queue') <= Len(queue)
    BY <2>1, <2>2 DEF TypeOK
  <2>4. Cardinality(Oldest(n)) <= n
    <3>1. [i \in 1 .. n |-> queue[i]] \in Surjection(1 .. n, Oldest(n))
      BY DEF Oldest, Surjection
    <3>2. IsFiniteSet(1 .. n) /\ Cardinality(1 .. n) = n
      BY <2>1, FS_Interval
    <3> QED
      BY <3>1, <3>2, FS_Surjection
  <2>5. Cardinality(Oldest(n)) \in Nat
    <3>1. Oldest(n) \subseteq Subs
      BY <2>1 DEF Oldest, TypeOK
    <3> QED
      BY <3>1, SubsFinite
  <2>6. Cardinality(Oldest(n)) <= BatchSize
    BY <2>1, <2>4, <2>5, WorkerPoolAssumption
  <2>7. Len(queue') \in Nat /\ Len(queue') <= QueueMaxSize
    BY <2>1, <2>2, <2>3, QueueAssumption DEF Bounds, TypeOK
  <2>8. \A v \in Workers : Cardinality(batch'[v]) <= BatchSize
    BY <2>2, <2>6 DEF Bounds, TypeOK
  <2> QED
    BY <2>7, <2>8 DEF Bounds
<1> QED
  BY <1>1, <1>2

LEMMA BoundsStep == BoundsInv /\ [Next]_vars => BoundsInv'
<1> SUFFICES ASSUME BoundsInv, [Next]_vars
             PROVE  Bounds'
  BY HoldingStep DEF BoundsInv
<1>0. TypeOK /\ Bounds
  BY DEF BoundsInv, HoldingInv
<1>1. ASSUME UNCHANGED <<queue, batch>>
      PROVE  Bounds'
  BY <1>0, <1>1 DEF Bounds
<1>2. ASSUME NEW s \in Subs, Accept(s)
      PROVE  Bounds'
  <2>1. Len(queue) < QueueMaxSize /\ queue' = Append(queue, s) /\ UNCHANGED batch
    BY <1>0, <1>2, QueueAssumption DEF Accept, PutNowait, Full, Answer, TypeOK
  <2>2. Len(queue') = Len(queue) + 1 /\ Len(queue) \in Nat
    BY <1>0, <2>1 DEF TypeOK
  <2>3. Len(queue') <= QueueMaxSize
    BY <2>1, <2>2, QueueAssumption
  <2> QED
    BY <1>0, <2>1, <2>3 DEF Bounds
<1>3. ASSUME NEW s \in Subs, RejectFull(s) \/ RejectClosed(s)
      PROVE  Bounds'
  BY <1>1, <1>3 DEF RejectFull, RejectClosed, Answer, queueVars
<1>4. ASSUME NEW w \in Workers, Resume(w) \/ GetTimeout(w)
      PROVE  Bounds'
  <2>1. \/ \E waiting : Poll(w, waiting)
        \/ UNCHANGED <<queue, batch>>
    BY <1>4 DEF Resume, GetTimeout
  <2> QED
    BY <1>0, <1>1, <2>1, BoundsAfterPoll
<1>5. ASSUME NEW w \in Workers, WriteOk(w) \/ PersistOk(w) \/ PersistFail(w)
      PROVE  Bounds'
  BY <1>0, <1>5, BoundsAfterPoll DEF WriteOk, PersistOk, PersistFail, Finish
<1>6. ASSUME NEW w \in Workers, WriteFail(w)
      PROVE  Bounds'
  BY <1>1, <1>6 DEF WriteFail, queueVars
<1>7. ASSUME NEW w \in Workers, BackoffOver(w)
      PROVE  Bounds'
  BY <1>1, <1>7 DEF BackoffOver, queueVars
<1>8. ASSUME NEW w \in Workers, Cancel(w)
      PROVE  Bounds'
  <2>1. batch' = [batch EXCEPT ![w] = {}] /\ UNCHANGED queue
    BY <1>8 DEF Cancel
  <2> QED
    BY <1>0, <2>1, FS_EmptySet, WorkerPoolAssumption DEF Bounds, TypeOK
<1>9. ASSUME Shutdown \/ UNCHANGED vars
      PROVE  Bounds'
  BY <1>1, <1>9 DEF Shutdown, Stop, Drained, DrainTimeout, vars, queueVars, poolVars
<1> QED
  BY <1>2, <1>3, <1>4, <1>5, <1>6, <1>7, <1>8, <1>9 DEF Next, Request, WorkerStep, Terminated

LEMMA RangeBounded ==
    ASSUME NEW S, NEW q \in Seq(S)
    PROVE  Cardinality(Range(q)) <= Len(q)
<1> DEFINE n == Len(q)
<1>1. DOMAIN q = 1 .. n /\ n \in Nat
  OBVIOUS
<1>2. Range(q) = {q[i] : i \in 1 .. n}
  BY <1>1 DEF Range
<1> HIDE DEF n
<1>3. [i \in 1 .. n |-> q[i]] \in Surjection(1 .. n, Range(q))
  BY <1>1, <1>2 DEF Surjection
<1>4. IsFiniteSet(1 .. n) /\ Cardinality(1 .. n) = n
  BY <1>1, FS_Interval
<1>5. Cardinality(Range(q)) <= n
  BY <1>3, <1>4, FS_Surjection
<1> QED
  BY <1>5 DEF n

\* The union of bounded batches is bounded: number the submissions of each.
LEMMA BatchesBounded ==
    ASSUME TypeOK, Bounds, IsFiniteSet(Workers)
    PROVE  Cardinality(UNION {batch[w] : w \in Workers}) <= Cardinality(Workers) * BatchSize
<1> DEFINE slots == 1 .. BatchSize
           all == UNION {batch[w] : w \in Workers}
           number == [w \in Workers |-> CHOOSE g \in Injection(batch[w], slots) : TRUE]
           taker == [s \in all |-> CHOOSE w \in Workers : s \in batch[w]]
           place == [s \in all |-> <<taker[s], number[taker[s]][s]>>]
<1>1. IsFiniteSet(slots) /\ Cardinality(slots) = BatchSize /\ BatchSize \in Nat
  BY WorkerPoolAssumption, FS_Interval
<1>2. ASSUME NEW w \in Workers
      PROVE  number[w] \in Injection(batch[w], slots)
  <2> DEFINE n == Cardinality(batch[w])
  <2>1. batch[w] \in SUBSET Subs
    BY DEF TypeOK
  <2>2. IsFiniteSet(batch[w]) /\ n \in Nat /\ n <= BatchSize
    BY <2>1, SubsFinite DEF Bounds
  <2>3. PICK f : f \in Bijection(1 .. n, batch[w])
    BY <2>2, FS_CardinalityType DEF ExistsBijection
  <2> DEFINE g == [s \in batch[w] |-> CHOOSE i \in 1 .. n : f[i] = s]
  <2>4. \A s \in batch[w] : g[s] \in 1 .. n /\ f[g[s]] = s
    BY <2>3 DEF Bijection, Surjection
  <2>5. 1 .. n \subseteq slots
    BY <2>2, <1>1
  <2>6. g \in Injection(batch[w], slots)
    BY <2>4, <2>5 DEF Injection, IsInjective
  <2> QED
    BY <2>6
<1>3. \A s \in all : taker[s] \in Workers /\ s \in batch[taker[s]]
  OBVIOUS
<1>4. place \in Injection(all, Workers \X slots)
  <2> HIDE DEF number, taker, slots, all
  <2>1. \A s \in all : number[taker[s]][s] \in slots
    BY <1>2, <1>3 DEF Injection
  <2>2. place \in [all -> Workers \X slots]
    BY <1>3, <2>1
  <2>3. ASSUME NEW s \in all, NEW t \in all, place[s] = place[t]
        PROVE  s = t
    <3>1. taker[s] = taker[t] /\ number[taker[s]][s] = number[taker[s]][t]
      BY <2>3
    <3> QED
      BY <1>2, <1>3, <3>1 DEF Injection, IsInjective
  <2> QED
    BY <2>2, <2>3 DEF Injection, IsInjective
<1>5. /\ IsFiniteSet(Workers \X slots)
      /\ Cardinality(Workers \X slots) = Cardinality(Workers) * BatchSize
  BY <1>1, FS_Product
<1> QED
  BY <1>4, <1>5, FS_Injection

\* event_queue.py and consumer.py: the bound of the queue and the greedy
\* batches bound what is in flight, through any outage: no more than the queue
\* has room for, and a batch for each worker.  (What has left it for the
\* dead-letter buffer is in no bound.)
THEOREM BacklogIsBounded ==
    ASSUME IsFiniteSet(Workers)
    PROVE  Spec => []BacklogBounded
<1>1. Init => BoundsInv
  BY HoldingInit, FS_EmptySet, QueueAssumption, WorkerPoolAssumption
     DEF Init, QueueInit, BoundsInv, Bounds
<1>2. BoundsInv => BacklogBounded
  <2> SUFFICES ASSUME BoundsInv
               PROVE  BacklogBounded
    OBVIOUS
  <2> DEFINE taken == UNION {batch[w] : w \in Workers}
             limit == Cardinality(Workers) * BatchSize
  <2>1. TypeOK /\ unfinished = Cardinality(Range(queue) \cup taken)
    BY DEF BoundsInv, HoldingInv, QueueAccounting, Held
  <2>2. Range(queue) \in SUBSET Subs /\ taken \in SUBSET Subs
    BY <2>1 DEF TypeOK, Range
  <2>3. /\ IsFiniteSet(Range(queue)) /\ IsFiniteSet(taken)
        /\ Cardinality(Range(queue)) \in Nat /\ Cardinality(taken) \in Nat
        /\ Cardinality(Range(queue) \cap taken) \in Nat
    BY <2>2, SubsFinite
  <2>4. Cardinality(Range(queue)) <= Len(queue)
    BY <2>1, RangeBounded DEF TypeOK
  <2>5. Cardinality(taken) <= limit
    BY <2>1, BatchesBounded DEF BoundsInv
  <2>6. Cardinality(Range(queue) \cup taken)
           = Cardinality(Range(queue)) + Cardinality(taken) - Cardinality(Range(queue) \cap taken)
    BY <2>3, FS_Union
  <2>7. limit \in Nat /\ Len(queue) \in Nat /\ Len(queue) <= QueueMaxSize /\ QueueMaxSize \in Nat
    BY <2>1, FS_CardinalityType, WorkerPoolAssumption, QueueAssumption DEF BoundsInv, Bounds, TypeOK
  <2> HIDE DEF taken, limit
  <2>8. unfinished <= QueueMaxSize + limit
    BY <2>1, <2>3, <2>4, <2>5, <2>6, <2>7
  <2> QED
    BY <2>8 DEF BacklogBounded, limit
<1> QED
  BY <1>1, <1>2, BoundsStep, PTL DEF Spec

=============================================================================

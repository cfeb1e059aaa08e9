----------------------------- MODULE WorkerPool -----------------------------
(***************************************************************************)
(* The ingestion pipeline: IngestionService.ingest puts events on the      *)
(* queue, the consumer tasks of WorkerPool write them to MongoDB in        *)
(* batches and route the batches that exhaust their retries to the         *)
(* dead-letter queue, and the lifespan hook shuts the pool down.           *)
(*                                                                         *)
(* All of it runs on one event loop: a task keeps the loop from one await  *)
(* to the next.  An action is therefore one resumption of one task, with   *)
(* everything it does until it suspends again.  In particular a worker     *)
(* that has finished a batch acknowledges it and takes the next one in the *)
(* same step.                                                              *)
(*                                                                         *)
(* phase    running    serving requests                                    *)
(*          draining   worker.stop awaits queue.join()                     *)
(*          drained    join returned, and every consumer task is cancelled *)
(*          timedout   the drain timed out, and every task is cancelled    *)
(* pc       where each consumer task is suspended:                         *)
(*          getting    in queue.get(): woken, if it is not in getters      *)
(*          writing    in mongo.bulk_write                                 *)
(*          backoff    in asyncio.sleep between two attempts               *)
(*          persisting in dlq.push_many                                    *)
(*          exited     the task has ended                                  *)
(* batch    the submissions in each worker's hands                         *)
(* attempt  the write attempts each worker has made for its batch, less 1  *)
(* processed  WorkerPool._events_processed                                 *)
(* answer   the HTTP status each submission was answered with, 0 before    *)
(* dropped  history: the submissions given up when the drain timed out     *)
(***************************************************************************)
EXTENDS EventQueue, DeadLetterQueue, Integers

CONSTANTS BatchSize, MaxRetries

ASSUME WorkerPoolAssumption ==
    /\ BatchSize \in Nat \ {0}
    /\ MaxRetries \in Nat

VARIABLES phase, pc, batch, attempt, processed, answer, dropped

poolVars == <<phase, pc, batch, attempt, processed, answer, dropped>>
vars == <<queueVars, mongoVars, dlqVars, poolVars>>

Stopping == phase # "running"            \* _stop_event.is_set()
Cancelled == phase \in {"drained", "timedout"}
Live == ~Cancelled

Accepted == {s \in Subs : answer[s] = 202}

\* The accepted submissions whose put has no task_done yet.
Held == Range(queue) \cup UNION {batch[w] : w \in Workers}

Init ==
    /\ QueueInit
    /\ MongoInit
    /\ DLQInit
    /\ phase = "running"
    /\ pc = [w \in Workers |-> "getting"]
    /\ batch = [w \in Workers |-> {}]
    /\ attempt = [w \in Workers |-> 0]
    /\ processed = 0
    /\ answer = [s \in Subs |-> 0]
    /\ dropped = {}

-----------------------------------------------------------------------------
(* POST /events, from ingest on. *)

Answer(s, status) ==
    /\ answer[s] = 0
    /\ answer' = [answer EXCEPT ![s] = status]
    /\ UNCHANGED <<mongoVars, dlqVars, phase, pc, batch, attempt, processed, dropped>>

Accept(s) ==
    /\ phase = "running"
    /\ PutNowait(s)
    /\ Answer(s, 202)

RejectFull(s) ==
    /\ phase = "running"
    /\ Full
    /\ Answer(s, 429)
    /\ UNCHANGED queueVars

RejectClosed(s) ==
    /\ Stopping
    /\ Answer(s, 503)
    /\ UNCHANGED queueVars

-----------------------------------------------------------------------------
(* The consumer task, between two of its awaits. *)

\* The first event and those collected greedily after it.
NextBatchSize == IF Len(queue) < BatchSize THEN Len(queue) ELSE BatchSize

\* Worker w at the head of its loop: it blocks in get(), or takes a batch and
\* starts to write it.  waiting are the getters at that moment.
Poll(w, waiting) ==
    /\ attempt' = [attempt EXCEPT ![w] = 0]
    /\ \/ /\ queue = <<>>
          /\ getters' = waiting \cup {w}
          /\ pc' = [pc EXCEPT ![w] = "getting"]
          /\ batch' = [batch EXCEPT ![w] = {}]
          /\ UNCHANGED queue
       \/ /\ queue # <<>>
          /\ GetOldest(NextBatchSize)
          /\ batch' = [batch EXCEPT ![w] = Oldest(NextBatchSize)]
          /\ getters' = waiting
          /\ pc' = [pc EXCEPT ![w] = "writing"]

\* _process_batch returns: the batch is acknowledged and the loop goes on.
Finish(w) ==
    /\ TaskDone(Cardinality(batch[w]))
    /\ Poll(w, getters)

\* A put has woken w; another worker may have emptied the queue since.
Resume(w) ==
    /\ Live
    /\ pc[w] = "getting" /\ w \notin getters
    /\ Poll(w, getters)
    /\ UNCHANGED <<unfinished, mongoVars, dlqVars, phase, processed, answer, dropped>>

\* Faulty variant: the timeout ends the task, whether the pool stops or not.
GetTimeoutExits(w) ==
    /\ Live
    /\ pc[w] = "getting"
    /\ getters' \in AbandonGet(w)
    /\ pc' = [pc EXCEPT ![w] = "exited"]
    /\ UNCHANGED <<queue, unfinished, mongoVars, dlqVars, phase, batch, attempt>>
    /\ UNCHANGED <<processed, answer, dropped>>

\* The one-second timeout of get(), which may also hit a worker that has been
\* woken and has not run yet.
GetTimeout(w) ==
    /\ Live
    /\ pc[w] = "getting"
    /\ \E waiting \in AbandonGet(w) :
          \/ /\ Stopping
             /\ pc' = [pc EXCEPT ![w] = "exited"]
             /\ getters' = waiting
             /\ UNCHANGED <<queue, batch, attempt>>
          \/ /\ ~Stopping
             /\ Poll(w, waiting)
    /\ UNCHANGED <<unfinished, mongoVars, dlqVars, phase, processed, answer, dropped>>

WriteOk(w) ==
    /\ Live
    /\ pc[w] = "writing"
    /\ BulkWrite(IdsOf(batch[w]))
    /\ processed' = processed + Cardinality(batch[w])
    /\ Finish(w)
    /\ UNCHANGED <<dlqVars, phase, answer, dropped>>

WriteFail(w) ==
    /\ Live
    /\ pc[w] = "writing"
    /\ BulkWriteFails(IdsOf(batch[w]))
    /\ \/ /\ attempt[w] < MaxRetries
          /\ pc' = [pc EXCEPT ![w] = "backoff"]
          /\ UNCHANGED dlqVars
       \/ /\ attempt[w] = MaxRetries
          /\ pc' = [pc EXCEPT ![w] = "persisting"]
          /\ PushMany(w, batch[w])
    /\ UNCHANGED <<queueVars, phase, batch, attempt, processed, answer, dropped>>

\* Faulty variant: the attempts are not counted.
RetryForever(w) ==
    /\ Live
    /\ pc[w] = "backoff"
    /\ pc' = [pc EXCEPT ![w] = "writing"]
    /\ UNCHANGED <<queueVars, mongoVars, dlqVars, phase, batch, attempt, processed>>
    /\ UNCHANGED <<answer, dropped>>

BackoffOver(w) ==
    /\ Live
    /\ pc[w] = "backoff"
    /\ pc' = [pc EXCEPT ![w] = "writing"]
    /\ attempt' = [attempt EXCEPT ![w] = @ + 1]
    /\ UNCHANGED <<queueVars, mongoVars, dlqVars, phase, batch, processed, answer, dropped>>

PersistOk(w) ==
    /\ Live
    /\ pc[w] = "persisting"
    /\ PushPersisted(w)
    /\ Finish(w)
    /\ UNCHANGED <<phase, processed, answer, dropped>>

PersistFail(w) ==
    /\ Live
    /\ pc[w] = "persisting"
    /\ PushBuffered(w)
    /\ Finish(w)
    /\ UNCHANGED <<phase, processed, answer, dropped>>

-----------------------------------------------------------------------------
(* Shutdown. *)

\* The server lets every request finish before it runs the shutdown half of
\* the lifespan hook, and a task woken by a request runs before that.
RequestsSettled == \A w \in Workers : pc[w] = "getting" => w \in getters

\* ingestion.stop_accepting() and the first half of worker.stop().
Stop ==
    /\ phase = "running"
    /\ RequestsSettled
    /\ phase' = "draining"
    /\ UNCHANGED <<queueVars, mongoVars, dlqVars, pc, batch, attempt, processed, answer, dropped>>

\* join() returns; every task is cancelled.
Drained ==
    /\ phase = "draining"
    /\ Joined
    /\ phase' = "drained"
    /\ UNCHANGED <<queueVars, mongoVars, dlqVars, pc, batch, attempt, processed, answer, dropped>>

\* join() does not return in time; every task is cancelled, and nobody is left
\* to take what is in the queue.
DrainTimeout ==
    /\ phase = "draining"
    /\ phase' = "timedout"
    /\ dropped' = dropped \cup Range(queue)
    /\ UNCHANGED <<queueVars, mongoVars, dlqVars, pc, batch, attempt, processed, answer>>

\* Faulty variant: the cancellation is caught and the loop goes on.
SurviveCancel(w) ==
    /\ Cancelled
    /\ pc[w] # "exited"
    /\ TaskDone(Cardinality(batch[w]))
    /\ batch' = [batch EXCEPT ![w] = {}]
    /\ dropped' = dropped \cup batch[w]
    /\ pc' = [pc EXCEPT ![w] = "getting"]
    /\ UNCHANGED <<queue, getters, mongoVars, dlqVars, phase, attempt, processed, answer>>

\* A cancelled task unwinds: its batch is acknowledged but given up, while a
\* write under way in the driver's thread may still be applied.
Cancel(w) ==
    /\ Cancelled
    /\ pc[w] # "exited"
    /\ CASE pc[w] = "writing"    -> BulkWriteFails(IdsOf(batch[w])) /\ UNCHANGED dlqVars
         [] pc[w] = "persisting" -> PushCancelled(w)
         [] OTHER                -> UNCHANGED <<mongoVars, dlqVars>>
    /\ IF pc[w] = "getting" THEN getters' \in AbandonGet(w) ELSE UNCHANGED getters
    /\ TaskDone(Cardinality(batch[w]))
    /\ batch' = [batch EXCEPT ![w] = {}]
    /\ dropped' = dropped \cup batch[w]
    /\ pc' = [pc EXCEPT ![w] = "exited"]
    /\ UNCHANGED <<queue, phase, attempt, processed, answer>>

\* worker.stop() has gathered the tasks.
Stopped == Cancelled /\ \A w \in Workers : pc[w] = "exited"

Terminated == Stopped /\ UNCHANGED vars

-----------------------------------------------------------------------------
Request(s) == Accept(s) \/ RejectFull(s) \/ RejectClosed(s)

WorkerStep(w) ==
    \/ Resume(w) \/ GetTimeout(w)
    \/ WriteOk(w) \/ WriteFail(w) \/ BackoffOver(w)
    \/ PersistOk(w) \/ PersistFail(w)
    \/ Cancel(w)

Shutdown == Stop \/ Drained \/ DrainTimeout

Next ==
    \/ \E s \in Subs : Request(s)
    \/ \E w \in Workers : WorkerStep(w)
    \/ Shutdown
    \/ Terminated

\* The event loop runs every task that can run; get() and the drain have
\* timeouts; a driver call returns or raises after finitely many retries of
\* its own.  Nothing makes a call succeed, a request arrive or the server stop.
Fairness ==
    /\ \A w \in Workers : WF_vars(WorkerStep(w))
    /\ WF_vars(Drained \/ DrainTimeout)

Spec == Init /\ [][Next]_vars

FairSpec == Spec /\ Fairness

-----------------------------------------------------------------------------
(* Properties. *)

\* The values every variable may take.
TypeOK ==
    /\ queue \in Seq(Subs)
    /\ unfinished \in Int
    /\ getters \subseteq Workers
    /\ stored \subseteq EventIds
    /\ dead \subseteq EventIds
    /\ refused \subseteq EventIds
    /\ unpersisted \subseteq Subs
    /\ recorded \in Nat
    /\ pending \in [Workers -> SUBSET Subs]
    /\ racedFailure \in BOOLEAN
    /\ phase \in {"running", "draining", "drained", "timedout"}
    /\ pc \in [Workers -> {"getting", "writing", "backoff", "persisting", "exited"}]
    /\ batch \in [Workers -> SUBSET Subs]
    /\ attempt \in [Workers -> Nat]
    /\ processed \in Nat
    /\ answer \in [Subs -> {0, 202, 429, 503}]
    /\ dropped \subseteq Subs

\* An accepted submission has one holder at most: one place in the queue or
\* the batch of one worker.  (get() and get_nowait() of concurrent workers
\* never hand out an item twice.)
OneHolder ==
    /\ IsInjective(queue)
    /\ \A w \in Workers : batch[w] \cap Range(queue) = {}
    /\ \A v, w \in Workers : v # w => batch[v] \cap batch[w] = {}

\* join() counts right: the unfinished tasks are the submissions in the queue
\* or in a worker's hands, through retries, dead-lettering and cancellation
\* (the finally clause of _consume acknowledges each get exactly once).
QueueAccounting == unfinished = Cardinality(Held)

\* No wake-up is lost: while the queue holds an event, some consumer is going
\* to look at it without waiting for a timeout, even if the getter that the
\* put woke finds the queue empty, times out or exits.
NoLostWakeup ==
    Live /\ queue # <<>> =>
        \E w \in Workers :
            \/ pc[w] \in {"writing", "backoff", "persisting"}
            \/ pc[w] = "getting" /\ w \notin getters

Recoverable(s) == EventId[s] \in stored \cup dead \/ s \in unpersisted

\* What the code gives up on purpose (a drain that timed out) or takes for a
\* duplicate (a write error swallowed with the BulkWriteError).
GivenUp(s) == s \in dropped \/ EventId[s] \in refused

\* A 202 is kept: each accepted submission is queued, in a worker's hands, or
\* its event is in one of the two collections or in the dead-letter buffer.
\* The one way to lose it is a persist of dead letters that fails while
\* another push_many is suspended at its own.
NoSilentLoss ==
    ~racedFailure =>
        \A s \in Accepted : s \in Held \/ Recoverable(s) \/ GivenUp(s)

\* A drain that ends before its timeout gives nothing up: join() returns only
\* once no event is queued or in a worker's hands.
CleanDrain == phase = "drained" => Held = {} /\ dropped = {}

\* The submissions that neither events_processed nor dlq.recorded counts yet.
Uncounted ==
    Range(queue) \cup UNION {batch[w] : w \in {v \in Workers : pc[v] \in {"writing", "backoff"}}}

\* The metrics add up: every accepted submission is counted once, as
\* processed or as recorded by the DLQ, however often its write is retried.
MetricsAddUp ==
    phase # "timedout" => processed + recorded = Cardinality(Accepted \ Uncounted)

\* Every accepted submission leaves the pipeline: its batch is written,
\* dead-lettered or given up, even if MongoDB never answers again.
AcceptedSettles == \A s \in Subs : answer[s] = 202 ~> (s \notin Held \/ s \in dropped)

\* worker.stop() ends: a stuck batch cannot hold up the shutdown.
ShutdownCompletes == phase = "draining" ~> Stopped

\* The pipeline keeps the promise of Delivery: an event is inside the process
\* while it is queued, in a batch, in the dead-letter buffer or in a push_many
\* under way; nobody writes an event that has left, and none leaves before it is
\* in a collection, unless it was given up or a failed persist was overtaken.
Promise == INSTANCE Delivery WITH
    accepted <- Accepted,
    inside <- Held \cup unpersisted \cup UNION {pending[w] : w \in Workers},
    safe <- stored \cup dead,
    excused <- {s \in Subs : GivenUp(s) \/ racedFailure}

ImplementsDelivery == Promise!Spec

-----------------------------------------------------------------------------
(* What the documentation says of the pipeline and the code does not keep. *)

\* dlq.py, push_many: a failed persist never drops an entry while the process
\* runs.  That is NoSilentLoss without its exception for a raced failure.
NeverDropped == \A s \in Accepted : s \in Held \/ Recoverable(s) \/ GivenUp(s)

\* The outage ends for good: a call to MongoDB that is made again and again
\* succeeds in the end.
RecoveringSpec == FairSpec /\ \A w \in Workers : SF_vars(WriteOk(w) \/ PersistOk(w))

\* ARCHITECTURE.md section 11: the in-memory buffer flushes on recovery.  An
\* event t stored after s was buffered shows that MongoDB has recovered; yet s
\* stays in memory alone until another event is dead-lettered.
BufferFlushes ==
    \A s, t \in Subs :
        [](s \in unpersisted /\ EventId[t] \notin stored =>
             [](EventId[t] \in stored => <>(EventId[s] \in stored \cup dead \/ Stopping)))

=============================================================================

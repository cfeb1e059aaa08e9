----------------------------- MODULE EventQueue -----------------------------
(***************************************************************************)
(* The bounded queue between the API and the workers: app/queue/           *)
(* event_queue.py, a wrapper of asyncio.Queue.                             *)
(*                                                                         *)
(* queue      the buffered submissions, oldest first                       *)
(* unfinished asyncio's _unfinished_tasks: puts less task_done calls; join *)
(*            returns when it is zero                                      *)
(* getters    the workers blocked in get().  A put wakes one of them, which *)
(*            leaves the set at once but takes nothing until its task runs *)
(*            again; by then the queue may be empty.                       *)
(*                                                                         *)
(* asyncio wakes getters in the order they blocked; here any one may be    *)
(* the next, so what is checked does not depend on that order.             *)
(***************************************************************************)
EXTENDS Events, Sequences, Functions

CONSTANT QueueMaxSize

ASSUME QueueAssumption == QueueMaxSize \in Nat \ {0}

VARIABLES queue, unfinished, getters

queueVars == <<queue, unfinished, getters>>

\* Every worker has run up to its first get(): the tasks start before the
\* application serves a request.
QueueInit ==
    /\ queue = <<>>
    /\ unfinished = 0
    /\ getters = Workers

Full == Len(queue) >= QueueMaxSize

\* The sets of getters that may be left when one of them, if any, is woken.
WakeNext(waiting) ==
    IF waiting = {} THEN {{}} ELSE {waiting \ {w} : w \in waiting}

\* put_nowait, which raises QueueFull instead when the queue is full.
PutNowait(s) ==
    /\ ~Full
    /\ queue' = Append(queue, s)
    /\ unfinished' = unfinished + 1
    /\ getters' \in WakeNext(getters)

\* The getters left when the get() of worker w ends by cancellation or
\* timeout.  If w had been woken, its wake-up is passed on.
AbandonGet(w) ==
    CASE w \in getters                    -> {getters \ {w}}
      [] w \notin getters /\ queue = <<>> -> {getters}
      [] w \notin getters /\ queue # <<>> -> WakeNext(getters)

\* The first n submissions in the queue, and taking them: get() followed by
\* n - 1 calls of get_nowait().
Oldest(n) == {queue[i] : i \in 1..n}

\* Faulty variant: the last submission taken stays in the queue.
GetAllButLast(n) == queue' = SubSeq(queue, n, Len(queue))

GetOldest(n) == queue' = SubSeq(queue, n + 1, Len(queue))

\* Faulty variant: one call for a whole batch.
TaskDoneOnce(n) == unfinished' = unfinished - (IF n = 0 THEN 0 ELSE 1)

\* task_done(), called n times.
TaskDone(n) == unfinished' = unfinished - n

\* Faulty variant: waiting for an empty queue only.
QueueEmpty == queue = <<>>

\* join() returns.
Joined == unfinished = 0

=============================================================================

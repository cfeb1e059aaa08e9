------------------------------ MODULE Lifespan ------------------------------
(***************************************************************************)
(* The life of the service, lifespan of app/main.py: it connects the       *)
(* clients, starts the background tasks, serves, stops the tasks one after *)
(* the other and closes the clients.  The rollup task and the realtime     *)
(* requests are those of Stats, step by step; the worker pool and the ES   *)
(* indexer are modelled in detail by WorkerPool and EsIndexer, and here    *)
(* are tasks that may call their clients whenever they run.                *)
(*                                                                         *)
(* stage   connecting, warming (the first _refresh), serving, stopping,    *)
(*         stopped, or failed (a connect or a close has raised)            *)
(* open    the clients that exist and are not closed                       *)
(* task    each background task: none, running, cancelled (a cancel is     *)
(*         requested) or ended                                             *)
(***************************************************************************)
EXTENDS Stats

VARIABLES stage, open, task

lifeVars == <<stage, open, task>>

vars == <<lifeVars, statsVars>>

\* The clients, and those that are connected, and closed, before each of them.
Clients == {"mongo", "es", "redis"}

Earlier == [mongo |-> {}, es |-> {"mongo"}, redis |-> {"mongo", "es"}]

\* The background tasks, those that are stopped before each, and the clients
\* that each may call.
Tasks == {"worker", "indexer", "rollup"}

Before == [worker |-> {}, indexer |-> {"worker"}, rollup |-> {"worker", "indexer"}]

Needs == [worker |-> {"mongo"}, indexer |-> {"mongo", "es"}, rollup |-> {"mongo"}]

Running(t) == task[t] \in {"running", "cancelled"}

Init ==
    /\ StatsInit
    /\ stage = "connecting"
    /\ open = {}
    /\ task = [t \in Tasks |-> "none"]

-----------------------------------------------------------------------------
(* Startup. *)

IsNext(c) == c \notin open /\ Earlier[c] \subseteq open

\* connect() of the next client, and what goes with it.  The client exists
\* even if its server did not answer, which only Elasticsearch may do.
Connect(c) ==
    /\ stage = "connecting" /\ IsNext(c)
    /\ open' = open \cup {c}
    /\ UNCHANGED <<stage, task, statsVars>>

\* MongoDB or Redis does not answer: the exception ends the startup.
ConnectFails(c) ==
    /\ stage = "connecting" /\ IsNext(c) /\ c # "es"
    /\ open' = open \cup {c}
    /\ stage' = "failed"
    /\ UNCHANGED <<task, statsVars>>

\* Faulty variant: the tasks are started as soon as their clients are there,
\* before Redis has answered.
StartEarly ==
    /\ stage = "connecting" /\ open = {"mongo", "es"} /\ task["worker"] = "none"
    /\ task' = [task EXCEPT !["worker"] = "running", !["indexer"] = "running"]
    /\ UNCHANGED <<stage, open, statsVars>>

\* worker.start() and es_indexer.start(), and rollup.start() up to its await.
StartTasks ==
    /\ stage = "connecting" /\ open = Clients
    /\ stage' = "warming"
    /\ task' = [task EXCEPT !["worker"] = "running", !["indexer"] = "running"]
    /\ BeginRefresh("start")
    /\ UNCHANGED open

\* Faulty variant: start() does not await the first _refresh.
ServeEarly ==
    /\ stage = "warming"
    /\ stage' = "serving"
    /\ task' = [task EXCEPT !["rollup"] = "running"]
    /\ UNCHANGED <<open, statsVars>>

\* The first _refresh is over, one way or the other.
Serve ==
    /\ stage = "warming" /\ refresh["start"] = "idle"
    /\ stage' = "serving"
    /\ task' = [task EXCEPT !["rollup"] = "running"]
    /\ UNCHANGED <<open, statsVars>>

-----------------------------------------------------------------------------
(* The rollup task: _run, and _refresh, which swallows what is raised. *)

\* The wait for the interval times out.
Interval ==
    /\ task["rollup"] = "running"
    /\ BeginRefresh("run")
    /\ UNCHANGED lifeVars

RefreshSucceeds(k) == (CountForRollup(k) \/ WriteRollup(k)) /\ UNCHANGED lifeVars

\* Faulty variant: what _refresh raises ends the task.
RefreshEndsTask(k) ==
    /\ AbandonRefresh(k)
    /\ task' = [task EXCEPT !["rollup"] = "ended"]
    /\ UNCHANGED <<stage, open>>

RefreshFails(k) == AbandonRefresh(k) /\ UNCHANGED lifeVars

-----------------------------------------------------------------------------
(* The requests and the world around. *)

Request(r) ==
    /\ stage = "serving"
    /\ Hit(r) \/ Miss(r)
    /\ UNCHANGED lifeVars

Answer(r) == Answering(r) /\ UNCHANGED lifeVars

StatsRequest ==
    /\ stage = "serving"
    /\ AskRollup \/ AskLive
    /\ UNCHANGED lifeVars

StatsAnswer == AnswerLive /\ UNCHANGED lifeVars

Environment == (Insert \/ TtlTick) /\ UNCHANGED lifeVars

-----------------------------------------------------------------------------
(* Shutdown. *)

\* The server runs the rest of lifespan once every request is answered.
Stop ==
    /\ stage = "serving"
    /\ asked = "idle" /\ \A r \in Readers : reader[r] = "idle"
    /\ stage' = "stopping"
    /\ UNCHANGED <<open, task, statsVars>>

\* Faulty variant: stop() does not gather the task it has cancelled.
CancelRequested(t) == task[t] # "running"

\* stop() of the task has returned.
Gathered(t) == task[t] = "ended"

\* stop() of a task, after the ones before it: the worker pool drains first, at
\* most for the time of its timeout.
Cancel(t) ==
    /\ stage = "stopping"
    /\ \A u \in Before[t] : Gathered(u)
    /\ task[t] = "running"
    /\ task' = [task EXCEPT ![t] = "cancelled"]
    /\ UNCHANGED <<stage, open, statsVars>>

\* Faulty variant: _refresh swallows the cancellation too, and the loop goes on.
SwallowCancel(t) ==
    /\ task[t] = "cancelled"
    /\ task' = [task EXCEPT ![t] = IF t = "rollup" /\ refresh["run"] # "idle" THEN "running" ELSE "ended"]
    /\ IF t = "rollup" /\ refresh["run"] # "idle" THEN AbandonRefresh("run") ELSE UNCHANGED statsVars
    /\ UNCHANGED <<stage, open>>

\* A cancelled task unwinds, the rollup task out of the call it awaits.
\* (A refresh that fails first lets its loop end the task: the stop event is set.)
Unwind(t) ==
    /\ task[t] = "cancelled"
    /\ task' = [task EXCEPT ![t] = "ended"]
    /\ IF t = "rollup" /\ refresh["run"] # "idle" THEN AbandonRefresh("run") ELSE UNCHANGED statsVars
    /\ UNCHANGED <<stage, open>>

\* close() of a client, after the ones before it.
Close(c) ==
    /\ stage = "stopping" /\ c \in open
    /\ \A t \in Tasks : Gathered(t)
    /\ Earlier[c] \cap open = {}
    /\ open' = open \ {c}
    /\ UNCHANGED <<stage, task, statsVars>>

\* close() of a client over the network raises: lifespan ends with it, and the
\* clients after it stay as they are.
CloseFails(c) ==
    /\ stage = "stopping" /\ c \in open \ {"mongo"}
    /\ \A t \in Tasks : Gathered(t)
    /\ Earlier[c] \cap open = {}
    /\ open' \in {open, open \ {c}}
    /\ stage' = "failed"
    /\ UNCHANGED <<task, statsVars>>

Closed ==
    /\ stage = "stopping" /\ open = {}
    /\ stage' = "stopped"
    /\ UNCHANGED <<open, task, statsVars>>

Shutdown ==
    \/ \E t \in Tasks : Cancel(t)
    \/ \E c \in Clients : Close(c) \/ CloseFails(c)
    \/ Closed

Over == stage \in {"failed", "stopped"} /\ UNCHANGED vars

-----------------------------------------------------------------------------
Startup == (\E c \in Clients : Connect(c) \/ ConnectFails(c)) \/ StartTasks \/ Serve

RollupStep == \E k \in Refreshers : RefreshSucceeds(k) \/ RefreshFails(k)

Next ==
    \/ Startup
    \/ Interval \/ RollupStep
    \/ \E r \in Readers : Request(r) \/ Answer(r)
    \/ StatsRequest \/ StatsAnswer
    \/ Environment
    \/ Stop \/ Shutdown
    \/ \E t \in Tasks : Unwind(t)
    \/ Over

Spec == Init /\ [][Next]_vars

\* Every coroutine that can run runs, every timeout passes and every call
\* returns or raises; a call to MongoDB made again and again succeeds in the
\* end.  No request need arrive, and the server need not stop.
Fairness ==
    /\ WF_vars(Startup)
    /\ WF_vars(Interval)
    /\ WF_vars(RollupStep)
    /\ \A k \in Refreshers : /\ SF_vars(CountForRollup(k) /\ UNCHANGED lifeVars)
                             /\ SF_vars(WriteRollup(k) /\ UNCHANGED lifeVars)
    /\ \A r \in Readers : WF_vars(Answer(r))
    /\ WF_vars(StatsAnswer)
    /\ WF_vars(TtlTick /\ UNCHANGED lifeVars)
    /\ WF_vars(Shutdown)
    /\ \A t \in Tasks : WF_vars(Unwind(t))

FairSpec == Spec /\ Fairness

-----------------------------------------------------------------------------
(* Properties. *)

\* A client is never closed while a task or a request may still call it, nor
\* called before it exists, whatever each of them is doing when the service
\* starts or stops.
NoUseAfterClose ==
    /\ \A t \in Tasks : Running(t) => Needs[t] \subseteq open
    /\ \A k \in Refreshers : refresh[k] # "idle" => "mongo" \in open
    /\ \A r \in Readers : reader[r] # "idle" => {"mongo", "redis"} \subseteq open
    /\ asked # "idle" => "mongo" \in open

\* A startup that fails and a shutdown leave nothing behind that still runs.
NothingLeftRunning ==
    stage \in {"failed", "stopped"} =>
        /\ \A k \in Refreshers : refresh[k] = "idle"
        /\ \A t \in Tasks : ~Running(t)

\* The shutdown ends, whatever the tasks are awaiting, and also if a client
\* cannot be closed.
ShutdownEnds == stage = "stopping" ~> stage \in {"stopped", "failed"}

\* A client that asks for the statistics again is never told of fewer events,
\* although they are counted and written in calls that overlap with the inserts:
\* no two refreshes overlap, the one at startup included, and once there is a
\* rollup every answer comes from it.  The one exception is the first answer from
\* a rollup after a live one, which may have counted more.
StatsRegressOnce ==
    [][/\ last'.total < last.total => last.source = "live" /\ last'.source = "rollup"
       /\ last.source = "rollup" => last'.source = "rollup"]_vars

\* A rollup that a refresh has failed to bring up to date catches up: once no
\* event is inserted any more (a behaviour has MaxEvents of them at most), it
\* comes to count every one, for as long as the service is up.
RollupCatchesUp == <>[](stage = "serving" => rollup = events)

\* A stale realtime summary does not survive: a slow request may put an old one
\* back over a newer one, but the time comes when none is served that lacks an
\* inserted event.
RealtimeCatchesUp == <>[](cached # None => cached = events)

=============================================================================

--------------------------- MODULE LifespanProofs ---------------------------
(***************************************************************************)
(* Theorems about Lifespan, for any number of realtime requests and of     *)
(* events.                                                                 *)
(***************************************************************************)
EXTENDS Lifespan, TLAPS

LifeTypeOK ==
    /\ stage \in {"connecting", "warming", "serving", "stopping", "stopped", "failed"}
    /\ open \subseteq Clients
    /\ task \in [Tasks -> {"none", "running", "cancelled", "ended"}]
    /\ refresh \in [Refreshers -> {"idle", "counting", "writing"}]
    /\ reader \in [Readers -> {"idle", "counting", "writing"}]
    /\ asked \in {"idle", "counting"}

\* No request is under way.
Quiet == asked = "idle" /\ \A r \in Readers : reader[r] = "idle"

\* What each stage of the service allows.  The clients are closed only once
\* every task has ended, and a refresh has its caller: the startup, which the
\* task comes after, or the task.
Stages ==
    /\ stage = "connecting" => \A t \in Tasks : task[t] = "none"
    /\ stage = "failed" => \/ \A t \in Tasks : task[t] = "none"
                           \/ \A t \in Tasks : task[t] = "ended"
    /\ stage = "warming" =>
          /\ open = Clients /\ task["rollup"] = "none"
          /\ task["worker"] = "running" /\ task["indexer"] = "running"
    /\ stage = "serving" => open = Clients /\ \A t \in Tasks : task[t] = "running"
    /\ stage = "stopping" =>
          /\ \A t \in Tasks : task[t] # "none"
          /\ open = Clients \/ \A t \in Tasks : task[t] = "ended"
    /\ stage = "stopped" => \A t \in Tasks : task[t] = "ended"
    /\ stage # "serving" => Quiet
    /\ refresh["start"] # "idle" => stage = "warming"
    /\ refresh["run"] # "idle" => Running("rollup")

LifeInv == LifeTypeOK /\ Stages

-----------------------------------------------------------------------------
LEMMA LifeInit == Init => LifeInv
BY DEF Init, StatsInit, LifeInv, LifeTypeOK, Stages, Quiet, Refreshers

\* What the steps of Stats do to the requests and to the refresh.
LEMMA StatsStepType ==
    ASSUME LifeTypeOK
    PROVE  /\ \A k \in Refreshers :
                 /\ BeginRefresh(k) =>
                       /\ refresh' = [refresh EXCEPT ![k] = "counting"]
                       /\ UNCHANGED <<reader, asked>>
                 /\ CountForRollup(k) \/ WriteRollup(k) \/ AbandonRefresh(k) =>
                       /\ refresh[k] # "idle"
                       /\ \E at \in {"idle", "writing"} : refresh' = [refresh EXCEPT ![k] = at]
                       /\ UNCHANGED <<reader, asked>>
                 /\ AbandonRefresh(k) => refresh' = [refresh EXCEPT ![k] = "idle"]
           /\ Insert \/ TtlTick => UNCHANGED <<refresh, reader, asked>>
           /\ \A r \in Readers :
                 /\ Hit(r) \/ Miss(r) \/ Answering(r) =>
                       /\ reader' \in [Readers -> {"idle", "counting", "writing"}]
                       /\ UNCHANGED <<refresh, asked>>
                 /\ Answering(r) => reader[r] # "idle"
           /\ AskRollup \/ AskLive \/ AnswerLive =>
                 asked' \in {"idle", "counting"} /\ UNCHANGED <<refresh, reader>>
           /\ AnswerLive => asked # "idle"
BY DEF LifeTypeOK, BeginRefresh, CountForRollup, WriteRollup, AbandonRefresh, RefreshOver, Insert, TtlTick,
       Hit, Miss, Answering, CountForReader, SetSummary, ReaderFails, ReaderDone,
       AskRollup, AskLive, AnswerLive, Answered,
       rollupVars, realtimeVars, clientVars, statsVars

LEMMA LifeStep == LifeInv /\ [Next]_vars => LifeInv'
<1> SUFFICES ASSUME LifeInv, [Next]_vars
             PROVE  LifeInv'
  OBVIOUS
<1> USE DEF LifeInv
<1>1. ASSUME NEW c \in Clients, Connect(c) \/ ConnectFails(c)
      PROVE  LifeInv'
  BY <1>1 DEF Connect, ConnectFails, LifeTypeOK, Stages, Quiet, Running,
              statsVars, rollupVars, realtimeVars, clientVars
<1>2. CASE StartTasks
  BY <1>2, StatsStepType DEF StartTasks, LifeTypeOK, Stages, Quiet, Running, Tasks, Refreshers
<1>3. CASE Serve
  BY <1>3 DEF Serve, LifeTypeOK, Stages, Quiet, Running, Tasks,
              statsVars, rollupVars, realtimeVars, clientVars
<1>4. CASE Interval
  BY <1>4, StatsStepType DEF Interval, lifeVars, LifeTypeOK, Stages, Quiet, Running, Tasks, Refreshers
<1>5. ASSUME NEW k \in Refreshers, RefreshSucceeds(k) \/ RefreshFails(k)
      PROVE  LifeInv'
  BY <1>5, StatsStepType
     DEF RefreshSucceeds, RefreshFails, lifeVars, LifeTypeOK, Stages, Quiet, Running, Refreshers
<1>6. ASSUME NEW r \in Readers, Request(r) \/ Answer(r)
      PROVE  LifeInv'
  BY <1>6, StatsStepType DEF Request, Answer, lifeVars, LifeTypeOK, Stages, Quiet, Running
<1>7. CASE StatsRequest \/ StatsAnswer
  BY <1>7, StatsStepType DEF StatsRequest, StatsAnswer, lifeVars, LifeTypeOK, Stages, Quiet, Running
<1>8. CASE Environment
  BY <1>8, StatsStepType DEF Environment, lifeVars, LifeTypeOK, Stages, Quiet, Running
<1>9. CASE Stop
  BY <1>9 DEF Stop, LifeTypeOK, Stages, Quiet, Running,
              statsVars, rollupVars, realtimeVars, clientVars
<1>10. CASE Shutdown
  <2>1. ASSUME NEW t \in Tasks, Cancel(t)
        PROVE  LifeInv'
    BY <2>1 DEF Cancel, LifeTypeOK, Stages, Quiet, Running,
                statsVars, rollupVars, realtimeVars, clientVars
  <2>2. ASSUME NEW c \in Clients, Close(c)
        PROVE  LifeInv'
    BY <2>2 DEF Close, Gathered, LifeTypeOK, Stages, Quiet, Running,
                statsVars, rollupVars, realtimeVars, clientVars
  <2>3. ASSUME NEW c \in Clients, CloseFails(c)
        PROVE  LifeInv'
    BY <2>3 DEF CloseFails, Gathered, LifeTypeOK, Stages, Quiet, Running,
                statsVars, rollupVars, realtimeVars, clientVars
  <2>4. CASE Closed
    BY <2>4 DEF Closed, LifeTypeOK, Stages, Quiet, Running, Clients,
                statsVars, rollupVars, realtimeVars, clientVars
  <2> QED
    BY <1>10, <2>1, <2>2, <2>3, <2>4 DEF Shutdown
<1>11. ASSUME NEW t \in Tasks, Unwind(t)
       PROVE  LifeInv'
  <2>1. /\ UNCHANGED <<stage, open, reader, asked>>
        /\ task[t] = "cancelled" /\ task' = [task EXCEPT ![t] = "ended"]
        /\ refresh' \in {refresh, [refresh EXCEPT !["run"] = "idle"]}
        /\ t = "rollup" => refresh'["run"] = "idle"
    BY <1>11, StatsStepType DEF Unwind, LifeTypeOK, Refreshers, statsVars, rollupVars, realtimeVars, clientVars
  <2> QED
    BY <2>1 DEF LifeTypeOK, Stages, Quiet, Running, Refreshers
<1>12. CASE UNCHANGED vars
  BY <1>12 DEF vars, lifeVars, LifeTypeOK, Stages, Quiet, Running,
               statsVars, rollupVars, realtimeVars, clientVars
<1> QED
  BY <1>1, <1>2, <1>3, <1>4, <1>5, <1>6, <1>7, <1>8, <1>9, <1>10, <1>11, <1>12
     DEF Next, Startup, RollupStep, Over

\* No client is closed under a task or a request that may call it, however the
\* shutdown and what is under way interleave.
THEOREM NoUseAfterCloseHolds == Spec => []NoUseAfterClose
<1>1. LifeInv => NoUseAfterClose
  BY DEF LifeInv, LifeTypeOK, Stages, Quiet, NoUseAfterClose, Running, Needs, Clients, Tasks, Refreshers
<1> QED
  BY <1>1, LifeInit, LifeStep, PTL DEF Spec

\* A failed startup and a shutdown leave no task and no refresh running.
THEOREM NothingLeftRunningHolds == Spec => []NothingLeftRunning
<1>1. LifeInv => NothingLeftRunning
  BY DEF LifeInv, LifeTypeOK, Stages, NothingLeftRunning, Running, Tasks, Refreshers
<1> QED
  BY <1>1, LifeInit, LifeStep, PTL DEF Spec

-----------------------------------------------------------------------------
(* The totals that /events/stats tells. *)

\* A count under way will not come out below what was told before it began.
Told ==
    /\ events \in Nat
    /\ rollup \in {None} \cup 0 .. events
    /\ tally \in [Refreshers -> 0 .. events]
    /\ \A k \in Refreshers : refresh[k] # "idle" /\ rollup # None => rollup <= tally[k]
    /\ last \in [source : {"none", "live", "rollup"}, total : 0 .. events]
    /\ last.source = "none" => last.total = 0
    /\ last.source = "rollup" => rollup # None /\ last.total <= rollup
    /\ asked = "counting" => /\ seen \in 0 .. events /\ last.total <= seen
                             /\ last.source # "rollup"

\* What a step does to the answers.
Tells ==
    /\ last'.total < last.total => last.source = "live" /\ last'.source = "rollup"
    /\ last.source = "rollup" => last'.source = "rollup"

\* The refresh of the startup is over before the task has its first one.
LEMMA OneRefresh ==
    ASSUME LifeInv, NEW k \in Refreshers, NEW j \in Refreshers,
           refresh[k] # "idle", refresh[j] # "idle"
    PROVE  j = k
BY DEF LifeInv, Stages, Running, Refreshers

LEMMA ToldStep ==
    ASSUME LifeInv, Told, [Next]_vars
    PROVE  Told' /\ Tells
<1> USE StatsAssumption DEF Told, Tells
<1>1. CASE UNCHANGED <<events, rollup, refresh, tally, asked, seen, last>>
  BY <1>1
<1>2. CASE Insert
  BY <1>2 DEF Insert, rollupVars, realtimeVars, clientVars
<1>3. ASSUME NEW k \in Refreshers, BeginRefresh(k)
      PROVE  Told' /\ Tells
  BY <1>3 DEF BeginRefresh, LifeInv, LifeTypeOK, clientVars
<1>4. ASSUME NEW k \in Refreshers, CountForRollup(k)
      PROVE  Told' /\ Tells
  BY <1>4 DEF CountForRollup, Counts, LifeInv, LifeTypeOK, clientVars
<1>5. ASSUME NEW k \in Refreshers, WriteRollup(k) \/ AbandonRefresh(k)
      PROVE  Told' /\ Tells
  <2>1. /\ refresh[k] # "idle" /\ refresh' = [refresh EXCEPT ![k] = "idle"]
        /\ tally' = [tally EXCEPT ![k] = 0] /\ rollup' \in {rollup, tally[k]}
        /\ UNCHANGED <<events, asked, seen, last>>
    BY <1>5 DEF WriteRollup, AbandonRefresh, RefreshOver, clientVars
  <2>2. \A j \in Refreshers : refresh'[j] = "idle"
    BY <2>1, OneRefresh DEF LifeInv, LifeTypeOK
  <2>3. tally[k] \in 0 .. events /\ (rollup # None => rollup <= tally[k])
    BY <2>1
  <2> QED
    BY <2>1, <2>2, <2>3
<1>6. CASE AskRollup
  BY <1>6 DEF AskRollup, Answered, rollupVars, realtimeVars
<1>7. CASE AskLive
  BY <1>7 DEF AskLive, rollupVars, realtimeVars
<1>8. CASE AnswerLive
  BY <1>8 DEF AnswerLive, Answered, Counts, rollupVars, realtimeVars
<1>9. \/ UNCHANGED <<events, rollup, refresh, tally, asked, seen, last>>
      \/ Insert \/ AskRollup \/ AskLive \/ AnswerLive
      \/ \E k \in Refreshers : \/ BeginRefresh(k) \/ CountForRollup(k)
                               \/ WriteRollup(k) \/ AbandonRefresh(k)
  BY DEF Next, Startup, Connect, ConnectFails, StartTasks, Serve, Interval, RollupStep,
         RefreshSucceeds, RefreshFails, Request, Answer, StatsRequest, StatsAnswer, Environment,
         Stop, Shutdown, Cancel, Close, CloseFails, Closed, Unwind, Over, Hit, Miss, Answering,
         CountForReader, SetSummary, ReaderFails, ReaderDone, TtlTick, Refreshers,
         vars, statsVars, rollupVars, clientVars
<1> QED
  BY <1>1, <1>2, <1>3, <1>4, <1>5, <1>6, <1>7, <1>8, <1>9

\* A client that asks for the statistics again is told of at least as many
\* events, except when the first rollup follows a live answer.
THEOREM StatsRegressOnceHolds == Spec => StatsRegressOnce
<1>1. Init => Told
  BY StatsAssumption DEF Init, StatsInit, Told
<1>2. LifeInv /\ Told /\ [Next]_vars => Told' /\ [Tells]_vars
  BY ToldStep
<1> QED
  BY <1>1, <1>2, LifeInit, LifeStep, PTL DEF Spec, StatsRegressOnce, Tells

=============================================================================

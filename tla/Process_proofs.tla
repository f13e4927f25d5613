---------------------------- MODULE Process_proofs ----------------------------
(***************************************************************************)
(* Proofs about the process and what runs beside the requests, for any     *)
(* tasks, settings, servers, connections, sockets, events and migrations.  *)
(*                                                                         *)
(* Lifespan: both properties speak of one moment of the process; the       *)
(* invariant says what holds at each step on the way to it.                *)
(*                                                                         *)
(* McpBridge: ClientsAreClosed says of a client that no one has tried to   *)
(* close that someone still will.  Two moments need more: a request may    *)
(* open a client again, so no request is left when the shutdown begins     *)
(* (NobodyUses), and close_all empties the map only when it has tried to   *)
(* close what was in it (MapIsClosed).                                     *)
(*                                                                         *)
(* EventBus: an event waits in the channel once and is for nobody yet; a   *)
(* send under way goes to a socket that the event is for and has not       *)
(* reached.                                                                *)
(*                                                                         *)
(* Migrations: what an opener has still to run is what is newer than the   *)
(* version it has read or written, in order (Plan), so no version is       *)
(* written over one that was left out.                                     *)
(***************************************************************************)
EXTENDS Lifespan, McpBridge, EventBus, Migrations, Selection_proofs, SequenceTheorems,
        FiniteSetTheorems, TLAPS

-------------------------------------------------------------------------------
(* The lifespan of the process *)

Starting == {"prepare", "cron", "cleaner", "retry", "hot reload", "backup", "redis"}

Stopping == {"mcp", "events", "sqlite", "scheduler", "plugins", "stopped"}

PhaseOK == phase \in Starting \union Stopping \union {"serving", "failed", "exited"}

\* The scheduler's coroutine has run before a clean-up begins, so it cannot
\* set running again once it was told to stop.
LoopHasStarted == phase \in Stopping => loop # "unstarted"

CleanupSet == {"mcp", "events", "sqlite", "scheduler", "plugins"}

\* Clean-ups are tried in their order...
TriedInOrder ==
    /\ cleanups \in Seq(CleanupSet)
    /\ \A j \in 1..Len(cleanups) : cleanups[j] = Cleanups[j]

\* ... and so many before each of them.
CleanedBefore ==
    /\ phase \in Starting \union {"serving", "mcp"} => Len(cleanups) = 0
    /\ phase = "events" => Len(cleanups) = 1
    /\ phase = "sqlite" => Len(cleanups) = 2
    /\ phase = "scheduler" => Len(cleanups) = 3
    /\ phase = "plugins" => Len(cleanups) = 4
    /\ phase = "stopped" => Len(cleanups) = 5

ToldToStop ==
    /\ running \in BOOLEAN
    /\ phase \in {"plugins", "stopped"} => ~running

NothingLoaded == phase = "stopped" => plugins # "loaded"

\* The tasks are created one after the other.
TasksInOrder ==
    /\ phase \in {"hot reload", "backup", "redis", "serving"} => "retry" \in background
    /\ phase \in {"retry", "hot reload", "backup", "redis", "serving"} /\ settings.cleaner
         => "cleaner" \in background
    /\ phase \in {"cleaner", "retry", "hot reload", "backup", "redis", "serving"} /\ settings.cron
         => loop # "absent"
    /\ phase \in {"backup", "redis", "serving"} /\ settings.hotReload
         => "hot reload" \in background
    /\ phase = "redis" /\ settings.cron /\ settings.backup => AutoBackup \in tasks

LifeIInv ==
    /\ PhaseOK
    /\ LoopHasStarted
    /\ TriedInOrder
    /\ CleanedBefore
    /\ ToldToStop
    /\ NothingLoaded
    /\ TasksInOrder

-------------------------------------------------------------------------------
LEMMA LifeInitially == LifeInit => LifeIInv
<1> SUFFICES ASSUME LifeInit PROVE LifeIInv
  OBVIOUS
<1>1. TriedInOrder /\ Len(cleanups) = 0
  BY DEF LifeInit, TriedInOrder
<1> QED
  BY <1>1 DEF LifeInit, CronInit, LifeIInv, PhaseOK, LoopHasStarted, CleanedBefore, ToldToStop,
              NothingLoaded, TasksInOrder, Starting, Stopping

\* A step that tries no clean-up.
LEMMA NothingTried ==
    ASSUME TriedInOrder, cleanups' = cleanups
    PROVE  TriedInOrder'
BY DEF TriedInOrder

\* A step that touches nothing the invariant reads.
LEMMA NothingMoves ==
    ASSUME LifeIInv,
           UNCHANGED <<settings, phase, loop, running, background, plugins, cleanups>>,
           tasks' = tasks \/ phase # "redis"
    PROVE  LifeIInv'
<1>1. /\ settings' = settings /\ phase' = phase /\ loop' = loop /\ running' = running
      /\ background' = background /\ plugins' = plugins /\ cleanups' = cleanups
  OBVIOUS
<1>2. PhaseOK' /\ LoopHasStarted'
  BY <1>1 DEF LifeIInv, PhaseOK, LoopHasStarted
<1>3. TriedInOrder'
  BY <1>1, NothingTried DEF LifeIInv
<1>4. CleanedBefore'
  BY <1>1 DEF LifeIInv, CleanedBefore
<1>5. ToldToStop' /\ NothingLoaded'
  BY <1>1 DEF LifeIInv, ToldToStop, NothingLoaded
<1>6. TasksInOrder'
  BY <1>1 DEF LifeIInv, TasksInOrder
<1> QED
  BY <1>2, <1>3, <1>4, <1>5, <1>6 DEF LifeIInv

LEMMA CleanupNames ==
    /\ DOMAIN Cleanups = 1..5 /\ Len(Cleanups) = 5
    /\ Cleanups[1] = "mcp" /\ Cleanups[2] = "events" /\ Cleanups[3] = "sqlite"
    /\ Cleanups[4] = "scheduler" /\ Cleanups[5] = "plugins"
BY DEF Cleanups

\* A step of start-up that only goes on, or fails.
LEMMA SkipStep ==
    ASSUME LifeIInv, NEW next, Skip(next),
           \/ <<phase, next>> = <<"cron", "cleaner">> /\ ~settings.cron
           \/ <<phase, next>> = <<"cleaner", "retry">> /\ ~settings.cleaner
           \/ <<phase, next>> = <<"hot reload", "backup">> /\ ~settings.hotReload
           \/ <<phase, next>> = <<"backup", "redis">> /\ ~(settings.cron /\ settings.backup)
           \/ <<phase, next>> = <<"redis", "serving">>
           \/ <<phase, next>> = <<"serving", "mcp">> /\ loop # "unstarted"
    PROVE  LifeIInv'
BY NothingTried DEF Skip, cronVars, LifeIInv, PhaseOK, LoopHasStarted, CleanedBefore, ToldToStop,
       NothingLoaded, TasksInOrder, Starting, Stopping

LEMMA FailedStep ==
    ASSUME LifeIInv, StartupRaises
    PROVE  LifeIInv'
BY NothingTried DEF StartupRaises, cronVars, LifeIInv, PhaseOK, LoopHasStarted, CleanedBefore, ToldToStop,
       NothingLoaded, TasksInOrder, Starting, Stopping

LEMMA CreateTaskStep ==
    ASSUME LifeIInv, NEW name, NEW next, CreateTask(name, next),
           <<phase, name, next>> \in {<<"cleaner", "cleaner", "retry">>,
                                      <<"retry", "retry", "hot reload">>,
                                      <<"hot reload", "hot reload", "backup">>}
    PROVE  LifeIInv'
<1>1. CASE StartupRaises
  BY <1>1, FailedStep
<1>2. CASE imported
  <2>1. /\ phase' = next /\ background' = background \union {name}
        /\ UNCHANGED <<settings, plugins, cleanups>> /\ UNCHANGED cronVars
    BY <1>2 DEF CreateTask
  <2> QED
    BY <2>1, NothingTried DEF cronVars, LifeIInv, PhaseOK, LoopHasStarted, CleanedBefore, ToldToStop,
                NothingLoaded, TasksInOrder, Starting, Stopping
<1> QED
  BY <1>1, <1>2 DEF CreateTask

\* The loop starts only while the server serves.
LEMMA LoopStepStep ==
    ASSUME LifeIInv, LoopRuns
    PROVE  LifeIInv'
<1>1. /\ settings' = settings /\ phase' = phase /\ background' = background
      /\ plugins' = plugins /\ cleanups' = cleanups
  BY DEF LoopRuns, lifeVars
<1>2. phase # "serving" => loop # "unstarted"
  BY DEF LifeIInv, LoopHasStarted, LoopRuns, Suspended, Stopping
<1>3. /\ loop # "absent" /\ loop' \notin {"absent", "unstarted"}
      /\ \/ running' = running
         \/ running' = TRUE /\ phase = "serving"
  <2>1. CASE StartLoop
    BY <1>2, <2>1 DEF StartLoop
  <2>2. CASE TickRaises
    BY <2>2 DEF TickRaises
  <2>3. CASE \E n \in TaskNames : FireTask(n)
    <3>1. loop = "between" /\ loop' = "action" /\ running' = running
      BY <2>3 DEF FireTask
    <3> QED
      BY <3>1
  <2>4. CASE ActionEnds
    BY <2>4 DEF ActionEnds, AfterAction
  <2>5. CASE EndTick
    BY <2>5 DEF EndTick
  <2>6. CASE Awake
    BY <2>6 DEF Awake
  <2>7. LoopStep
    BY DEF LoopRuns
  <2> QED
    BY <2>1, <2>2, <2>3, <2>4, <2>5, <2>6, <2>7 DEF LoopStep
<1>4. PhaseOK' /\ LoopHasStarted'
  BY <1>1, <1>3 DEF LifeIInv, PhaseOK, LoopHasStarted
<1>5. TriedInOrder' /\ CleanedBefore'
  BY <1>1, NothingTried DEF LifeIInv, CleanedBefore
<1>6. ToldToStop'
  <2>1. CASE running' = running
    BY <1>1, <2>1 DEF LifeIInv, ToldToStop
  <2>2. CASE running' = TRUE /\ phase = "serving"
    BY <1>1, <2>2 DEF ToldToStop
  <2> QED
    BY <1>3, <2>1, <2>2
<1>7. NothingLoaded' /\ TasksInOrder'
  BY <1>1, <1>3 DEF LifeIInv, NothingLoaded, TasksInOrder, LoopRuns, Suspended
<1> QED
  BY <1>4, <1>5, <1>6, <1>7 DEF LifeIInv

\* Each clean-up is tried once, whether or not it raises.
LEMMA CleanupStep ==
    ASSUME LifeIInv, NEW i \in DOMAIN Cleanups, Cleanup(i)
    PROVE  LifeIInv'
<1>1. i \in 1..5
  BY CleanupNames
<1>2. /\ phase = Cleanups[i]
      /\ cleanups' = Append(cleanups, Cleanups[i])
      /\ phase' = IF i = 5 THEN "stopped" ELSE Cleanups[i + 1]
      /\ settings' = settings
  BY CleanupNames DEF Cleanup, AfterFailed, AfterCleanup
<1>3. loop' = loop
  BY DEF Cleanup, CleanedUp, StopLoop, cronVars
<1>4. /\ running' \in BOOLEAN
      /\ ~running => ~running'
      /\ i = 4 => ~running'
  <2>1. \/ running' = FALSE
        \/ running' = running /\ (Cleanups[i] = "scheduler" => ~running)
    <3>1. CASE CleanedUp(Cleanups[i])
      BY <3>1 DEF CleanedUp, StopLoop, cronVars
    <3>2. CASE Cleanups[i] \in {"mcp", "events", "sqlite"} /\ UNCHANGED cronVars
      BY <3>2 DEF cronVars
    <3> QED
      BY <3>1, <3>2 DEF Cleanup
  <2>2. i = 4 => Cleanups[i] = "scheduler"
    BY CleanupNames
  <2>3. running \in BOOLEAN
    BY DEF LifeIInv, ToldToStop
  <2>4. CASE running' = FALSE
    BY <2>4
  <2>5. CASE running' = running /\ (Cleanups[i] = "scheduler" => ~running)
    <3>1. i = 4 => ~running
      BY <2>2, <2>5
    <3> QED
      BY <2>3, <2>5, <3>1
  <2> QED
    BY <2>1, <2>4, <2>5
<1>5. i = 5 => plugins' # "loaded"
  BY CleanupNames DEF Cleanup, CleanedUp, Unloaded
<1>6. \/ i = 1 /\ phase = "mcp" /\ phase' = "events" /\ cleanups' = Append(cleanups, "mcp")
      \/ i = 2 /\ phase = "events" /\ phase' = "sqlite" /\ cleanups' = Append(cleanups, "events")
      \/ i = 3 /\ phase = "sqlite" /\ phase' = "scheduler" /\ cleanups' = Append(cleanups, "sqlite")
      \/ i = 4 /\ phase = "scheduler" /\ phase' = "plugins" /\ cleanups' = Append(cleanups, "scheduler")
      \/ i = 5 /\ phase = "plugins" /\ phase' = "stopped" /\ cleanups' = Append(cleanups, "plugins")
  <2>1. i = 1 \/ i = 2 \/ i = 3 \/ i = 4 \/ i = 5
    BY <1>1
  <2>2. CASE i = 1
    BY <1>2, <2>2, CleanupNames
  <2>3. CASE i = 2
    BY <1>2, <2>3, CleanupNames
  <2>4. CASE i = 3
    BY <1>2, <2>4, CleanupNames
  <2>5. CASE i = 4
    BY <1>2, <2>5, CleanupNames
  <2>6. CASE i = 5
    BY <1>2, <2>6, CleanupNames
  <2> QED
    BY <2>1, <2>2, <2>3, <2>4, <2>5, <2>6
<1>7. TriedInOrder' /\ CleanedBefore'
  <2>1. Len(cleanups) = i - 1 /\ cleanups \in Seq(CleanupSet)
    BY <1>6 DEF LifeIInv, TriedInOrder, CleanedBefore
  <2>2. Cleanups[i] \in CleanupSet
    BY <1>1, CleanupNames DEF CleanupSet
  <2>3. /\ cleanups' \in Seq(CleanupSet) /\ Len(cleanups') = i
        /\ cleanups'[i] = Cleanups[i]
        /\ \A j \in 1..(i - 1) : cleanups'[j] = cleanups[j]
    BY <1>1, <1>2, <2>1, <2>2, AppendProperties
  <2>4. \A j \in 1..i : cleanups'[j] = Cleanups[j]
    BY <1>1, <2>1, <2>3 DEF LifeIInv, TriedInOrder
  <2>5. CleanedBefore'
    BY <1>6, <2>3 DEF CleanedBefore, Starting
  <2> QED
    BY <2>3, <2>4, <2>5 DEF TriedInOrder
<1>8. PhaseOK' /\ LoopHasStarted' /\ TasksInOrder'
  BY <1>3, <1>6 DEF LifeIInv, PhaseOK, LoopHasStarted, TasksInOrder, Starting, Stopping
<1>9. ToldToStop' /\ NothingLoaded'
  BY <1>4, <1>5, <1>6 DEF LifeIInv, ToldToStop, NothingLoaded
<1> QED
  BY <1>7, <1>8, <1>9 DEF LifeIInv

\* The scheduler's coroutine is created with its task, and not yet run.
LEMMA StartSchedulerStep ==
    ASSUME LifeIInv, StartScheduler
    PROVE  LifeIInv'
<1>1. CASE ~settings.cron
  BY <1>1, SkipStep DEF StartScheduler
<1>2. CASE settings.cron
  <2>1. /\ phase = "cron" /\ phase' = "cleaner" /\ loop' = "unstarted"
        /\ settings' = settings /\ running' = running /\ background' = background
        /\ plugins' = plugins /\ cleanups' = cleanups
    BY <1>2 DEF StartScheduler, CreateLoop
  <2>2. PhaseOK' /\ LoopHasStarted' /\ TasksInOrder'
    BY <2>1 DEF PhaseOK, LoopHasStarted, TasksInOrder, Starting, Stopping
  <2>3. TriedInOrder' /\ CleanedBefore'
    BY <2>1, NothingTried DEF LifeIInv, CleanedBefore, Starting
  <2>4. ToldToStop' /\ NothingLoaded'
    BY <2>1 DEF LifeIInv, ToldToStop, NothingLoaded
  <2> QED
    BY <2>2, <2>3, <2>4 DEF LifeIInv
<1> QED
  BY <1>1, <1>2

\* Steps that only move on: what is tried, told and loaded stays as it is.
LEMMA MovesOn ==
    ASSUME LifeIInv,
           <<phase, phase'>> \in {<<"prepare", "cron">>, <<"backup", "redis">>,
                                  <<"redis", "serving">>},
           UNCHANGED <<settings, loop, running, cleanups>>,
           background \subseteq background',
           phase = "backup" => AutoBackup \in tasks'
    PROVE  LifeIInv'
<1>1. /\ \/ phase = "prepare" /\ phase' = "cron"
         \/ phase = "backup" /\ phase' = "redis"
         \/ phase = "redis" /\ phase' = "serving"
      /\ settings' = settings /\ loop' = loop /\ running' = running /\ cleanups' = cleanups
  OBVIOUS
<1>2. PhaseOK' /\ LoopHasStarted'
  BY <1>1 DEF PhaseOK, LoopHasStarted, Starting, Stopping
<1>3. TriedInOrder' /\ CleanedBefore'
  BY <1>1, NothingTried DEF LifeIInv, CleanedBefore, Starting
<1>4. ToldToStop' /\ NothingLoaded'
  BY <1>1 DEF LifeIInv, ToldToStop, NothingLoaded
<1>5. TasksInOrder'
  BY <1>1 DEF LifeIInv, TasksInOrder
<1> QED
  BY <1>2, <1>3, <1>4, <1>5 DEF LifeIInv

LEMMA ExitStep ==
    ASSUME LifeIInv, Exit
    PROVE  LifeIInv'
<1>1. phase' = "exited" /\ running' = running /\ cleanups' = cleanups
  BY DEF Exit
<1>2. PhaseOK' /\ LoopHasStarted' /\ NothingLoaded' /\ TasksInOrder'
  BY <1>1 DEF PhaseOK, LoopHasStarted, NothingLoaded, TasksInOrder, Starting, Stopping
<1>3. TriedInOrder' /\ CleanedBefore' /\ ToldToStop'
  BY <1>1, NothingTried DEF LifeIInv, CleanedBefore, ToldToStop, Starting
<1> QED
  BY <1>2, <1>3 DEF LifeIInv

LEMMA LifeStep ==
    ASSUME LifeIInv, [LifeNext]_allLifeVars
    PROVE  LifeIInv'
<1>1. CASE Prepare
  <2>1. CASE StartupRaises
    BY <2>1, FailedStep
  <2>2. CASE ~StartupRaises
    <3>1. /\ phase = "prepare" /\ phase' = "cron" /\ background' = background
          /\ UNCHANGED <<settings, loop, running, cleanups>>
      BY <1>1, <2>2 DEF Prepare, cronVars
    <3> QED
      BY <3>1, MovesOn
  <2> QED
    BY <2>1, <2>2
<1>2. CASE StartScheduler
  BY <1>2, StartSchedulerStep
<1>3. CASE StartCleaner
  BY <1>3, SkipStep, CreateTaskStep DEF StartCleaner
<1>4. CASE StartRetryLoop
  BY <1>4, FailedStep, CreateTaskStep DEF StartRetryLoop
<1>5. CASE StartHotReload
  BY <1>5, SkipStep, CreateTaskStep DEF StartHotReload
<1>6. CASE ScheduleBackup
  <2>1. CASE ~(settings.backup /\ settings.cron)
    BY <1>6, <2>1, SkipStep DEF ScheduleBackup
  <2>2. CASE settings.backup /\ settings.cron
    <3>1. /\ phase = "backup" /\ phase' = "redis" /\ background' = background
          /\ UNCHANGED <<settings, loop, running, cleanups>>
          /\ AutoBackup \in tasks'
      BY <1>6, <2>2 DEF ScheduleBackup, AddTask
    <3> QED
      BY <3>1, MovesOn
  <2> QED
    BY <2>1, <2>2
<1>7. CASE StartListener
  <2>1. CASE Skip("serving")
    BY <1>7, <2>1, SkipStep DEF StartListener
  <2>2. CASE ~Skip("serving")
    BY <1>7, <2>2, MovesOn DEF StartListener, cronVars
  <2> QED
    BY <2>1, <2>2
<1>8. CASE LoopRuns
  BY <1>8, LoopStepStep
<1>9. CASE CronRequest
  BY <1>9, NothingMoves DEF CronRequest, Request, AddTask, RemoveTask, lifeVars
<1>10. CASE Stop
  BY <1>10, SkipStep, CleanupNames DEF Stop
<1>11. ASSUME NEW i \in DOMAIN Cleanups, Cleanup(i)
       PROVE  LifeIInv'
  BY <1>11, CleanupStep
<1>12. CASE Exit
  BY <1>12, ExitStep
<1>13. CASE UNCHANGED allLifeVars
  BY <1>13, NothingMoves DEF allLifeVars, lifeVars, cronVars
<1> QED
  BY <1>1, <1>2, <1>3, <1>4, <1>5, <1>6, <1>7, <1>8, <1>9, <1>10, <1>11, <1>12, <1>13
  DEF LifeNext

-------------------------------------------------------------------------------
LEMMA LifeHolds == LifeSpec => []LifeIInv
<1>1. LifeInit => LifeIInv
  BY LifeInitially
<1>2. LifeIInv /\ [LifeNext]_allLifeVars => LifeIInv'
  BY LifeStep
<1> QED
  BY <1>1, <1>2, PTL DEF LifeSpec

\* Whatever the clean-ups of lifespan raise, the last of them is reached with
\* the scheduler stopped and the plugins unloaded.
THEOREM ShutdownsAreComplete == LifeSpec => []ShutdownIsComplete
<1>1. LifeIInv => ShutdownIsComplete
  <2> SUFFICES ASSUME LifeIInv, phase = "stopped"
               PROVE  cleanups = Cleanups /\ ~running /\ plugins # "loaded"
    BY DEF ShutdownIsComplete
  <2>1. /\ cleanups \in Seq(CleanupSet) /\ Len(cleanups) = 5
        /\ \A j \in 1..5 : cleanups[j] = Cleanups[j]
    BY DEF LifeIInv, TriedInOrder, CleanedBefore
  <2>2. Cleanups \in Seq(CleanupSet)
    BY DEF Cleanups, CleanupSet
  <2>3. cleanups = Cleanups
    BY <2>1, <2>2, CleanupNames, SeqEqual
  <2> QED
    BY <2>3 DEF LifeIInv, ToldToStop, NothingLoaded
<1> QED
  BY <1>1, LifeHolds, PTL

\* A server starts to serve with the tasks its settings ask for, the listener
\* of Redis apart.
THEOREM ServersHaveTheirTasks == LifeSpec => ServesWithItsTasks
<1> DEFINE Step ==
      phase # "serving" /\ phase' = "serving" =>
        /\ "retry" \in background'
        /\ settings.cleaner => "cleaner" \in background'
        /\ settings.hotReload => "hot reload" \in background'
        /\ settings.cron => loop' # "absent"
        /\ settings.cron /\ settings.backup => AutoBackup \in tasks'
<1>1. LifeIInv /\ [LifeNext]_allLifeVars => [Step]_allLifeVars
  <2> SUFFICES ASSUME LifeIInv, [LifeNext]_allLifeVars, phase # "serving", phase' = "serving"
               PROVE  Step
    OBVIOUS
  <2>1. LifeIInv'
    BY LifeStep
  <2>2. StartListener
    <3>1. ~Prepare /\ ~StartScheduler /\ ~StartCleaner /\ ~StartRetryLoop /\ ~StartHotReload
          /\ ~ScheduleBackup
      BY DEF Prepare, StartScheduler, StartCleaner, StartRetryLoop, StartHotReload, ScheduleBackup,
             Skip, CreateTask, StartupRaises
    <3>2. ~LoopRuns /\ ~CronRequest /\ ~Stop /\ ~Exit /\ ~UNCHANGED allLifeVars
      BY DEF LoopRuns, CronRequest, Stop, Exit, Skip, allLifeVars, lifeVars
    <3>3. \A i \in DOMAIN Cleanups : ~Cleanup(i)
      <4> SUFFICES ASSUME NEW i \in DOMAIN Cleanups, Cleanup(i)
                   PROVE  FALSE
        OBVIOUS
      <4>1. i \in 1..5 /\ phase' = IF i = 5 THEN "stopped" ELSE Cleanups[i + 1]
        BY CleanupNames DEF Cleanup, AfterFailed, AfterCleanup
      <4>2. i # 5 => i + 1 \in 2..5
        BY <4>1
      <4>3. \A j \in 2..5 : Cleanups[j] # "serving"
        BY CleanupNames
      <4> QED
        BY <4>1, <4>2, <4>3
    <3> QED
      BY <3>1, <3>2, <3>3 DEF LifeNext
  <2>3. phase = "redis" /\ settings' = settings /\ tasks' = tasks
    BY <2>2 DEF StartListener, Skip, cronVars
  <2> QED
    BY <2>1, <2>3 DEF LifeIInv, TasksInOrder
<1> QED
  BY <1>1, LifeHolds, PTL DEF LifeSpec, ServesWithItsTasks

-------------------------------------------------------------------------------
(* The lifespan of the process: the types *)

Ticks == [size : 0..Cardinality(TaskNames), left : 0..Cardinality(TaskNames),
          seen : SUBSET TaskNames]

\* A set of tasks has no more of them than there are names.
LEMMA TickTypes ==
    /\ NoTick \in Ticks
    /\ tasks \subseteq TaskNames => NewTick \in Ticks
<1>1. Cardinality(TaskNames) \in Nat
  BY SchedulerAssumption, FS_CardinalityType
<1>2. ASSUME tasks \subseteq TaskNames
      PROVE  Cardinality(tasks) \in 0..Cardinality(TaskNames)
  <2>1. /\ IsFiniteSet(tasks)
        /\ Cardinality(tasks) <= Cardinality(TaskNames)
    BY <1>2, SchedulerAssumption, FS_Subset
  <2>2. Cardinality(tasks) \in Nat
    BY <2>1, FS_CardinalityType
  <2> QED
    BY <1>1, <2>1, <2>2
<1>3. NoTick \in Ticks
  BY <1>1 DEF NoTick, Ticks
<1>4. ASSUME tasks \subseteq TaskNames PROVE NewTick \in Ticks
  <2> DEFINE n == Cardinality(tasks)
  <2>1. n \in 0..Cardinality(TaskNames)
    BY <1>2, <1>4
  <2>2. NewTick = [size |-> n, left |-> n, seen |-> {}]
    BY DEF NewTick
  <2> HIDE DEF n
  <2> QED
    BY <2>1, <2>2 DEF Ticks
<1> QED
  BY <1>3, <1>4

LEMMA CronTypes ==
    CronTypeOK <=> /\ tasks \subseteq TaskNames
                   /\ running \in BOOLEAN
                   /\ loop \in LoopStates
                   /\ tick \in Ticks
                   /\ changed \in BOOLEAN
BY DEF CronTypeOK, Ticks

LEMMA LoopStepTypes ==
    ASSUME CronTypeOK, LoopStep
    PROVE  CronTypeOK'
<1>1. /\ tasks \subseteq TaskNames /\ running \in BOOLEAN /\ loop \in LoopStates
      /\ tick \in Ticks /\ changed \in BOOLEAN
  BY CronTypes
<1>2. tasks' = tasks /\ NewTick \in Ticks /\ NoTick \in Ticks
  BY <1>1, TickTypes DEF LoopStep, StartLoop, TickRaises, FireTask, ActionEnds, EndTick, Awake
<1>3. ASSUME running' \in BOOLEAN, loop' \in LoopStates, tick' \in Ticks, changed' \in BOOLEAN
      PROVE  CronTypeOK'
  BY <1>1, <1>2, <1>3 DEF CronTypeOK, Ticks
<1>4. CASE StartLoop
  BY <1>1, <1>2, <1>3, <1>4 DEF StartLoop, LoopStates
<1>5. CASE TickRaises
  BY <1>1, <1>3, <1>5 DEF TickRaises, LoopStates
<1>6. ASSUME NEW n \in TaskNames, FireTask(n) PROVE CronTypeOK'
  <2> DEFINE left == tick.left - 1
             seen == tick.seen \union {n}
             next == [tick EXCEPT !.left = left, !.seen = seen]
  <2>1. tick' = next /\ tick.left > 0 /\ running' = running /\ changed' = changed
        /\ loop' = "action"
    BY <1>6 DEF FireTask
  <2>2. left \in 0..Cardinality(TaskNames)
    <3>1. tick.left \in 0..Cardinality(TaskNames) /\ Cardinality(TaskNames) \in Nat
      BY <1>1, SchedulerAssumption, FS_CardinalityType DEF Ticks
    <3> QED
      BY <2>1, <3>1
  <2>4. seen \in SUBSET TaskNames
    BY <1>1 DEF Ticks
  <2> HIDE DEF left, seen
  <2>3. next \in Ticks
    BY <1>1, <2>2, <2>4 DEF Ticks
  <2> HIDE DEF next
  <2> QED
    BY <1>1, <1>3, <2>1, <2>3 DEF LoopStates
<1>7. CASE ActionEnds
  BY <1>1, <1>3, <1>7 DEF ActionEnds, AfterAction, LoopStates
<1>8. CASE EndTick
  BY <1>1, <1>2, <1>3, <1>8 DEF EndTick, LoopStates
<1>9. CASE Awake
  <2>1. /\ running' = running /\ changed' = changed
        /\ tick' \in {tick, NewTick} /\ loop' \in {"between", "ended"}
    BY <1>9 DEF Awake
  <2> QED
    BY <1>1, <1>2, <1>3, <2>1 DEF LoopStates
<1> QED
  BY <1>4, <1>5, <1>6, <1>7, <1>8, <1>9 DEF LoopStep

\* What a request, the start-up and the shutdown do to the scheduler.
LEMMA AddTaskTypes ==
    ASSUME CronTypeOK, NEW n \in TaskNames, AddTask(n) \/ RemoveTask(n)
    PROVE  CronTypeOK'
<1>1. tasks' \subseteq TaskNames /\ running' = running /\ loop' = loop /\ tick' = tick
  BY DEF CronTypeOK, AddTask, RemoveTask
<1>2. changed' \in BOOLEAN
  <2>1. Noted
    BY DEF AddTask, RemoveTask
  <2> QED
    BY <2>1, Zenon DEF Noted
<1> QED
  BY <1>1, <1>2 DEF CronTypeOK

LEMMA OtherCronTypes ==
    ASSUME CronTypeOK, CreateLoop \/ StopLoop \/ UNCHANGED cronVars
    PROVE  CronTypeOK'
<1>1. CASE CreateLoop
  BY <1>1 DEF CreateLoop, CronTypeOK, LoopStates
<1>2. CASE StopLoop
  BY <1>2 DEF StopLoop, CronTypeOK
<1>3. CASE UNCHANGED cronVars
  BY <1>3 DEF cronVars, CronTypeOK
<1> QED
  BY <1>1, <1>2, <1>3

TaskKinds == {"cleaner", "retry", "hot reload", "listener"}

\* What the invariant does not say of the process's own variables.
OwnTypes ==
    /\ settings \in Switches
    /\ imported \in BOOLEAN
    /\ background \subseteq TaskKinds
    /\ plugins \in {"none", "loaded", "unloaded"}
    /\ faulted \in BOOLEAN

LifeTypes == CronTypeOK /\ OwnTypes

LEMMA LifeTypesInitially == LifeInit => LifeTypes
<1> SUFFICES ASSUME LifeInit PROVE LifeTypes
  OBVIOUS
<1>1. NoTick \in Ticks
  BY TickTypes
<1>2. CronTypeOK
  BY <1>1, CronTypes DEF LifeInit, CronInit, LoopStates
<1> QED
  BY <1>2 DEF LifeInit, LifeTypes, OwnTypes

\* The steps that may start a task, or fail.
LEMMA StartTaskTypes ==
    ASSUME LifeTypes, NEW name \in TaskKinds, NEW next,
           \/ CreateTask(name, next)
           \/ StartupRaises /\ faulted' = TRUE
           \/ Skip(next)
    PROVE  LifeTypes'
<1>1. UNCHANGED cronVars /\ settings' = settings /\ imported' = imported /\ plugins' = plugins
  BY DEF CreateTask, StartupRaises, Skip
<1>2. background' \in {background, background \union {name}}
  BY DEF CreateTask, StartupRaises, Skip
<1>3. faulted' \in {faulted, TRUE}
  BY DEF CreateTask, StartupRaises, Skip
<1>4. CronTypeOK'
  BY <1>1, OtherCronTypes DEF LifeTypes
<1>5. OwnTypes'
  BY <1>1, <1>2, <1>3 DEF LifeTypes, OwnTypes
<1> QED
  BY <1>4, <1>5 DEF LifeTypes

LEMMA LifeTypesStep ==
    ASSUME LifeTypes, [LifeNext]_allLifeVars
    PROVE  LifeTypes'
<1>0. CronTypeOK /\ OwnTypes
  BY DEF LifeTypes
<1>1. CASE Prepare
  <2>1. CASE StartupRaises /\ faulted' = TRUE
    BY <2>1, StartTaskTypes DEF TaskKinds
  <2>2. CASE ~(StartupRaises /\ faulted' = TRUE)
    <3>1. /\ UNCHANGED <<settings, imported, background, faulted>> /\ UNCHANGED cronVars
          /\ plugins' \in {"loaded", "none"}
      BY <1>1, <2>2 DEF Prepare
    <3>2. OwnTypes'
      BY <1>0, <3>1 DEF OwnTypes
    <3> QED
      BY <1>0, <3>1, <3>2, OtherCronTypes DEF LifeTypes
  <2> QED
    BY <2>1, <2>2
<1>2. CASE StartScheduler
  <2>1. CASE settings.cron
    <3>1. /\ CreateLoop /\ UNCHANGED <<settings, background, plugins, faulted>>
          /\ imported' = TRUE
      BY <1>2, <2>1 DEF StartScheduler
    <3>2. OwnTypes'
      BY <1>0, <3>1 DEF OwnTypes
    <3> QED
      BY <1>0, <3>1, <3>2, OtherCronTypes DEF LifeTypes
  <2>2. CASE ~settings.cron
    BY <1>2, <2>2, StartTaskTypes DEF StartScheduler, TaskKinds
  <2> QED
    BY <2>1, <2>2
<1>3. CASE StartCleaner
  <2>1. CreateTask("cleaner", "retry") \/ Skip("retry")
    BY <1>3 DEF StartCleaner
  <2>2. "cleaner" \in TaskKinds
    BY DEF TaskKinds
  <2> QED
    BY <2>1, <2>2, StartTaskTypes
<1>4. CASE StartRetryLoop
  <2>1. CreateTask("retry", "hot reload") \/ (StartupRaises /\ faulted' = TRUE)
    BY <1>4 DEF StartRetryLoop
  <2>2. "retry" \in TaskKinds
    BY DEF TaskKinds
  <2> QED
    BY <2>1, <2>2, StartTaskTypes
<1>5. CASE StartHotReload
  <2>1. CreateTask("hot reload", "backup") \/ Skip("backup")
    BY <1>5 DEF StartHotReload
  <2>2. "hot reload" \in TaskKinds
    BY DEF TaskKinds
  <2> QED
    BY <2>1, <2>2, StartTaskTypes
<1>6. CASE ScheduleBackup
  <2>1. CASE Skip("redis")
    BY <2>1, StartTaskTypes DEF TaskKinds
  <2>2. CASE ~Skip("redis")
    <3>1. /\ AddTask(AutoBackup)
          /\ UNCHANGED <<settings, imported, background, plugins, faulted>>
      BY <1>6, <2>2 DEF ScheduleBackup
    <3>2. OwnTypes'
      BY <1>0, <3>1 DEF OwnTypes
    <3> QED
      BY <1>0, <3>1, <3>2, AddTaskTypes, LifespanAssumption DEF LifeTypes
  <2> QED
    BY <2>1, <2>2
<1>7. CASE StartListener
  <2>1. CASE Skip("serving")
    BY <2>1, StartTaskTypes DEF TaskKinds
  <2>2. CASE ~Skip("serving")
    <3>1. /\ background' = background \union {"listener"}
          /\ UNCHANGED <<settings, imported, plugins, faulted>> /\ UNCHANGED cronVars
      BY <1>7, <2>2 DEF StartListener
    <3>2. OwnTypes'
      BY <1>0, <3>1 DEF OwnTypes, TaskKinds
    <3> QED
      BY <1>0, <3>1, <3>2, OtherCronTypes DEF LifeTypes
  <2> QED
    BY <2>1, <2>2
<1>8. CASE LoopRuns
  <2>1. LoopStep /\ UNCHANGED lifeVars
    BY <1>8 DEF LoopRuns
  <2>2. OwnTypes'
    BY <1>0, <2>1 DEF OwnTypes, lifeVars
  <2> QED
    BY <1>0, <2>1, <2>2, LoopStepTypes DEF LifeTypes
<1>9. CASE CronRequest
  <2>1. UNCHANGED lifeVars /\ \E n \in TaskNames : AddTask(n) \/ RemoveTask(n)
    BY <1>9 DEF CronRequest, Request
  <2>2. OwnTypes'
    BY <1>0, <2>1 DEF OwnTypes, lifeVars
  <2> QED
    BY <1>0, <2>1, <2>2, AddTaskTypes DEF LifeTypes
<1>10. CASE Stop
  <2>1. Skip(Cleanups[1]) /\ "retry" \in TaskKinds
    BY <1>10 DEF Stop, TaskKinds
  <2> QED
    BY <2>1, StartTaskTypes
<1>11. ASSUME NEW i \in DOMAIN Cleanups, Cleanup(i)
       PROVE  LifeTypes'
  <2>1. settings' = settings /\ imported' = imported /\ faulted' = faulted
    BY <1>11 DEF Cleanup
  <2>2. CASE CleanedUp(Cleanups[i])
    <3>1. background' \in {background, background \ {"listener"}}
          /\ plugins' \in {plugins, "unloaded"}
      BY <2>2 DEF CleanedUp, Unloaded
    <3>2. StopLoop \/ UNCHANGED cronVars
      BY <2>2 DEF CleanedUp
    <3>3. OwnTypes'
      BY <1>0, <2>1, <3>1 DEF OwnTypes
    <3> QED
      BY <1>0, <3>2, <3>3, OtherCronTypes DEF LifeTypes
  <2>3. CASE UNCHANGED <<background, plugins>> /\ UNCHANGED cronVars
    <3>1. OwnTypes'
      BY <1>0, <2>1, <2>3 DEF OwnTypes
    <3> QED
      BY <1>0, <2>3, <3>1, OtherCronTypes DEF LifeTypes
  <2> QED
    BY <1>11, <2>2, <2>3 DEF Cleanup
<1>12. CASE Exit
  <2>1. /\ UNCHANGED <<settings, imported, plugins, faulted, tasks, running, tick, changed>>
        /\ background' = {} /\ loop' \in {loop, "ended"}
    BY <1>12 DEF Exit
  <2>2. CronTypeOK'
    BY <1>0, <2>1 DEF CronTypeOK, LoopStates
  <2>3. OwnTypes'
    BY <1>0, <2>1 DEF OwnTypes
  <2> QED
    BY <2>2, <2>3 DEF LifeTypes
<1>13. CASE UNCHANGED allLifeVars
  <2>1. UNCHANGED lifeVars /\ UNCHANGED cronVars
    BY <1>13 DEF allLifeVars
  <2>2. OwnTypes'
    BY <1>0, <2>1 DEF OwnTypes, lifeVars
  <2> QED
    BY <1>0, <2>1, <2>2, OtherCronTypes DEF LifeTypes
<1> QED
  BY <1>1, <1>2, <1>3, <1>4, <1>5, <1>6, <1>7, <1>8, <1>9, <1>10, <1>11, <1>12, <1>13
  DEF LifeNext

\* The variables of Lifespan and of the scheduler stay in their types.
THEOREM LifeWellTyped == LifeSpec => []LifeTypeOK
<1>1. LifeTypes /\ [LifeNext]_allLifeVars => LifeTypes'
  BY LifeTypesStep
<1>2. LifeTypes /\ LifeIInv => LifeTypeOK
  <2> SUFFICES ASSUME LifeTypes, LifeIInv PROVE LifeTypeOK
    OBVIOUS
  <2>1. phase \in Phases
    <3>1. {"mcp", "events", "sqlite", "scheduler", "plugins"} \subseteq Phases
      BY CleanupNames DEF Phases
    <3>2. {"prepare", "cron", "cleaner", "retry", "hot reload", "backup", "redis", "serving",
           "stopped", "failed", "exited"} \subseteq Phases
      BY DEF Phases
    <3> QED
      BY <3>1, <3>2 DEF LifeIInv, PhaseOK, Starting, Stopping
  <2>2. \A i \in DOMAIN cleanups : cleanups[i] = Cleanups[i]
    BY LenProperties DEF LifeIInv, TriedInOrder
  <2> QED
    BY <2>1, <2>2 DEF LifeTypes, OwnTypes, TaskKinds, LifeTypeOK
<1> QED
  BY <1>1, <1>2, LifeTypesInitially, LifeHolds, PTL DEF LifeSpec

-------------------------------------------------------------------------------
(* The MCP bridge *)

ConnsTypeOK ==
    /\ registered \in [Servers -> Conns \union {NoConn}]
    /\ conn \in [Conns -> Connection]
    /\ closing \in [at : {"no", "pending", "servers", "done"}, left : SUBSET Conns]
    /\ replaced \subseteq Conns

\* Requests end before the shutdown closes the connections.
NobodyUses == closing.at # "no" => \A u \in Users : user[u] = Free

\* While close_all goes through the servers, it has closed, or tried to close,
\* what it has dealt with.
MapIsClosed ==
    closing.at = "servers" =>
        \A k \in Registered : k \in closing.left \/ conn[k].client \in {"none", "failed"}

BridgeIInv ==
    /\ ConnsTypeOK
    /\ NobodyUses
    /\ MapIsClosed
    /\ ClientsAreClosed

LEMMA BridgeInitially == McpInit => BridgeIInv
<1> SUFFICES ASSUME McpInit PROVE BridgeIInv
  OBVIOUS
<1>1. ConnsTypeOK
  BY DEF McpInit, ConnsTypeOK, Connection, Unused
<1>2. NobodyUses /\ MapIsClosed
  BY DEF McpInit, NobodyUses, MapIsClosed
<1>3. ClientsAreClosed
  BY DEF McpInit, ClientsAreClosed, Unused
<1> QED
  BY <1>1, <1>2, <1>3 DEF BridgeIInv

\* What a request notes about a server leaves its client alone.
LEMMA NotesKeepClients ==
    ASSUME BridgeIInv, NEW k, NEW doing,
           conn' \in {conn, AfterFailure(k, doing), AfterSuccess(k, doing)}
    PROVE  /\ conn' \in [Conns -> Connection]
           /\ \A c \in Conns : conn'[c].client = conn[c].client
                               /\ conn'[c].leaving = conn[c].leaving
<1>1. conn \in [Conns -> Connection]
  BY DEF BridgeIInv, ConnsTypeOK
<1>2. \E healthy \in {"yes", "no"}, tools \in BOOLEAN :
        \/ conn' = conn
        \/ conn' = [conn EXCEPT ![k].healthy = healthy, ![k].tools = tools]
        \/ conn' = [conn EXCEPT ![k].healthy = healthy]
  BY DEF AfterFailure, AfterSuccess
<1>3. PICK healthy \in {"yes", "no"}, tools \in BOOLEAN :
        \/ conn' = conn
        \/ conn' = [conn EXCEPT ![k].healthy = healthy, ![k].tools = tools]
        \/ conn' = [conn EXCEPT ![k].healthy = healthy]
  BY <1>2
<1>4. CASE k \notin Conns
  BY <1>1, <1>3, <1>4
<1>5. CASE k \in Conns
  BY <1>1, <1>3, <1>5 DEF Connection
<1> QED
  BY <1>4, <1>5

\* A step that leaves the map and every client as they are.
LEMMA SameClients ==
    ASSUME BridgeIInv,
           conn' \in [Conns -> Connection],
           \A c \in Conns : conn'[c].client = conn[c].client
                            /\ conn'[c].leaving = conn[c].leaving,
           NobodyUses',
           UNCHANGED <<registered, closing, replaced>>
    PROVE  BridgeIInv'
<1>1. ConnsTypeOK'
  BY DEF BridgeIInv, ConnsTypeOK
<1>2. Registered' = Registered
  BY DEF Registered
<1>3. Registered \subseteq Conns
  BY DEF Registered
<1>4. MapIsClosed' /\ ClientsAreClosed'
  BY <1>2, <1>3 DEF BridgeIInv, MapIsClosed, ClientsAreClosed
<1> QED
  BY <1>1, <1>4 DEF BridgeIInv

\* A registered connection may get its client while nothing is shut down.
LEMMA OpeningPreserves ==
    ASSUME BridgeIInv, NEW k \in Registered, conn' = WithClient(k), closing.at = "no",
           UNCHANGED <<registered, closing, replaced>>
    PROVE  BridgeIInv'
<1>1. k \in Conns /\ conn[k] \in Connection
  BY DEF Registered, BridgeIInv, ConnsTypeOK
<1>2. conn' \in [Conns -> Connection]
  BY <1>1 DEF WithClient, Connection, BridgeIInv, ConnsTypeOK
<1>3. \A c \in Conns : c # k => conn'[c] = conn[c]
  BY DEF WithClient, BridgeIInv, ConnsTypeOK
<1>4. ConnsTypeOK'
  BY <1>2 DEF BridgeIInv, ConnsTypeOK
<1>5. Registered' = Registered
  BY DEF Registered
<1>6. ClientsAreClosed'
  BY <1>3, <1>5 DEF BridgeIInv, ClientsAreClosed
<1>7. NobodyUses' /\ MapIsClosed'
  BY DEF NobodyUses, MapIsClosed
<1> QED
  BY <1>4, <1>6, <1>7 DEF BridgeIInv

LEMMA AddPreserves ==
    ASSUME BridgeIInv, NEW n \in Servers, NEW k \in Conns, AddServer(n, k)
    PROVE  BridgeIInv'
<1>1. /\ closing.at = "no"
      /\ registered' = [registered EXCEPT ![n] = k]
      /\ conn' = [conn EXCEPT ![k].used = TRUE]
      /\ replaced' = IF registered[n] = NoConn THEN replaced
                                               ELSE replaced \union {registered[n]}
      /\ UNCHANGED <<user, closing>>
  BY DEF AddServer
<1>2. ConnsTypeOK'
  BY <1>1 DEF BridgeIInv, ConnsTypeOK, Connection
<1>3. \A c \in Conns : conn'[c].client = conn[c].client /\ conn'[c].leaving = conn[c].leaving
  BY <1>1 DEF BridgeIInv, ConnsTypeOK, Connection
<1>4. \A c \in Registered : c \in Registered' \/ c \in replaced'
  <2> SUFFICES ASSUME NEW c \in Registered, c \notin replaced'
               PROVE  c \in Registered'
    OBVIOUS
  <2>1. PICK m \in Servers : registered[m] = c
    BY DEF Registered
  <2>2. c \in Conns /\ c # NoConn
    BY BridgeAssumption DEF Registered
  <2>3. m # n
    BY <1>1, <2>1, <2>2
  <2>4. registered'[m] = c
    BY <1>1, <2>1, <2>3 DEF BridgeIInv, ConnsTypeOK
  <2> QED
    BY <2>2, <2>4 DEF Registered
<1>5. replaced \subseteq replaced'
  BY <1>1
<1>6. ClientsAreClosed'
  BY <1>3, <1>4, <1>5 DEF BridgeIInv, ClientsAreClosed
<1>7. NobodyUses' /\ MapIsClosed'
  BY <1>1 DEF NobodyUses, MapIsClosed
<1> QED
  BY <1>2, <1>6, <1>7 DEF BridgeIInv

LEMMA RemovePreserves ==
    ASSUME BridgeIInv, NEW n \in Servers, RemoveServer(n)
    PROVE  BridgeIInv'
<1> DEFINE k == registered[n]
<1>1. /\ closing.at = "no"
      /\ k # NoConn
      /\ conn' = [conn EXCEPT ![k].leaving = TRUE]
      /\ registered' = [registered EXCEPT ![n] = NoConn]
      /\ UNCHANGED <<user, closing, replaced>>
  BY DEF RemoveServer, Leaving
<1>2. k \in Conns
  BY <1>1 DEF BridgeIInv, ConnsTypeOK
<1>3. ConnsTypeOK'
  BY <1>1, <1>2 DEF BridgeIInv, ConnsTypeOK, Connection
<1>4. /\ conn'[k].leaving
      /\ \A c \in Conns : c # k => conn'[c] = conn[c]
  BY <1>1, <1>2 DEF BridgeIInv, ConnsTypeOK
<1>5. \A c \in Registered : c # k => c \in Registered'
  BY <1>1 DEF Registered, BridgeIInv, ConnsTypeOK
<1>6. ClientsAreClosed'
  BY <1>1, <1>4, <1>5 DEF BridgeIInv, ClientsAreClosed
<1>7. NobodyUses' /\ MapIsClosed'
  BY <1>1 DEF NobodyUses, MapIsClosed
<1> QED
  BY <1>3, <1>6, <1>7 DEF BridgeIInv

\* The parts of closing a connection.
LEMMA ClosingPreserves ==
    ASSUME BridgeIInv, NEW k \in Conns,
           CloseBegins(k) \/ CloseEnds(k) \/ CloseFails(k) \/ NothingToClose(k)
    PROVE  BridgeIInv'
<1>1. /\ UNCHANGED <<registered, user, replaced>>
      /\ conn' \in {conn, [conn EXCEPT ![k].client = "gone"],
                    [conn EXCEPT ![k].client = "none", ![k].leaving = FALSE],
                    [conn EXCEPT ![k].client = "failed", ![k].leaving = FALSE],
                    [conn EXCEPT ![k].leaving = FALSE]}
      /\ closing' \in {closing, [closing EXCEPT !.left = @ \ {k}]}
  BY DEF CloseBegins, CloseEnds, CloseFails, NothingToClose
<1>2. conn[k] \in Connection
  BY DEF BridgeIInv, ConnsTypeOK
<1>3. ConnsTypeOK'
  <2>1. conn' \in [Conns -> Connection]
    <3>1. /\ [conn EXCEPT ![k].client = "gone"] \in [Conns -> Connection]
          /\ [conn EXCEPT ![k].leaving = FALSE] \in [Conns -> Connection]
      BY <1>2 DEF BridgeIInv, ConnsTypeOK, Connection
    <3>2. /\ [conn EXCEPT ![k].client = "none", ![k].leaving = FALSE] \in [Conns -> Connection]
          /\ [conn EXCEPT ![k].client = "failed", ![k].leaving = FALSE] \in [Conns -> Connection]
      BY <1>2 DEF BridgeIInv, ConnsTypeOK, Connection
    <3> QED
      BY <1>1, <3>1, <3>2 DEF BridgeIInv, ConnsTypeOK
  <2>2. closing' \in [at : {"no", "pending", "servers", "done"}, left : SUBSET Conns]
    BY <1>1 DEF BridgeIInv, ConnsTypeOK
  <2> QED
    BY <1>1, <2>1, <2>2 DEF BridgeIInv, ConnsTypeOK
<1>4. closing'.at = closing.at /\ closing.left \subseteq closing'.left \union {k}
  BY <1>1 DEF BridgeIInv, ConnsTypeOK
<1>5. \A c \in Conns : c # k => conn'[c] = conn[c]
  BY <1>1 DEF BridgeIInv, ConnsTypeOK
<1>6. Registered' = Registered /\ Registered \subseteq Conns
  BY <1>1 DEF Registered
<1>7. \/ conn'[k].client \in {"none", "failed"}
      \/ /\ conn[k].client \in {"open", "gone"}
         /\ conn'[k].leaving = conn[k].leaving
         /\ closing' = closing
  <2>1. CASE CloseBegins(k)
    <3>1. /\ closing' = closing
          /\ conn' = [conn EXCEPT ![k].client = "gone"]
          /\ conn[k].client = "open"
      BY <2>1 DEF CloseBegins
    <3>2. conn'[k].leaving = conn[k].leaving
      BY <3>1, <1>2 DEF BridgeIInv, ConnsTypeOK, Connection
    <3> QED
      BY <3>1, <3>2
  <2>2. CASE CloseEnds(k)
    <3>1. conn' = [conn EXCEPT ![k].client = "none", ![k].leaving = FALSE]
      BY <2>2 DEF CloseEnds
    <3> QED
      BY <3>1, <1>2 DEF BridgeIInv, ConnsTypeOK, Connection
  <2>3. CASE CloseFails(k)
    <3>1. conn' = [conn EXCEPT ![k].client = "failed", ![k].leaving = FALSE]
      BY <2>3 DEF CloseFails
    <3> QED
      BY <3>1, <1>2 DEF BridgeIInv, ConnsTypeOK, Connection
  <2>4. CASE NothingToClose(k)
    <3>1. /\ conn[k].client = "none"
          /\ conn' = conn \/ conn' = [conn EXCEPT ![k].leaving = FALSE]
      BY <2>4 DEF NothingToClose
    <3> QED
      BY <3>1, <1>2 DEF BridgeIInv, ConnsTypeOK, Connection
  <2> QED
    BY <2>1, <2>2, <2>3, <2>4
<1>8. ClientsAreClosed'
  BY <1>1, <1>5, <1>6, <1>7 DEF BridgeIInv, ClientsAreClosed
<1>9. MapIsClosed'
  BY <1>4, <1>5, <1>6, <1>7 DEF BridgeIInv, MapIsClosed
<1>10. NobodyUses'
  BY <1>1, <1>4 DEF BridgeIInv, NobodyUses
<1> QED
  BY <1>3, <1>8, <1>9, <1>10 DEF BridgeIInv

\* The shutdown up to, and from, the closing of the servers.
LEMMA ShutdownPreserves ==
    ASSUME BridgeIInv, Shutdown \/ CloseServers \/ AllClosed
    PROVE  BridgeIInv'
<1>1. conn' = conn /\ user' = user /\ replaced' = replaced
  BY DEF Shutdown, CloseServers, AllClosed
<1>2. Registered \subseteq Conns
  BY DEF Registered
<1>3. CASE Shutdown
  <2>1. ConnsTypeOK' /\ closing'.at = "pending" /\ registered' = registered
    BY <1>1, <1>3 DEF Shutdown, BridgeIInv, ConnsTypeOK
  <2>2. NobodyUses' /\ MapIsClosed' /\ ClientsAreClosed'
    BY <1>1, <1>3, <2>1
    DEF Shutdown, BridgeIInv, NobodyUses, MapIsClosed, ClientsAreClosed, Registered
  <2> QED
    BY <2>1, <2>2 DEF BridgeIInv
<1>4. CASE CloseServers
  <2>1. /\ ConnsTypeOK'
        /\ closing'.left = Registered
        /\ registered' = registered
        /\ closing.at # "no"
    BY <1>1, <1>2, <1>4 DEF CloseServers, BridgeIInv, ConnsTypeOK
  <2>2. Registered' = Registered
    BY <2>1 DEF Registered
  <2>3. NobodyUses' /\ MapIsClosed' /\ ClientsAreClosed'
    BY <1>1, <2>1, <2>2 DEF BridgeIInv, NobodyUses, MapIsClosed, ClientsAreClosed
  <2> QED
    BY <2>1, <2>3 DEF BridgeIInv
<1>5. CASE AllClosed
  <2>1. /\ ConnsTypeOK'
        /\ closing'.at = "done"
        /\ closing.at # "no"
    BY <1>1, <1>5 DEF AllClosed, BridgeIInv, ConnsTypeOK
  <2>2. \A k \in Registered : conn[k].client \in {"none", "failed"}
    BY <1>5 DEF AllClosed, BridgeIInv, MapIsClosed
  <2>3. NobodyUses' /\ MapIsClosed' /\ ClientsAreClosed'
    BY <1>1, <2>1, <2>2 DEF BridgeIInv, NobodyUses, MapIsClosed, ClientsAreClosed
  <2> QED
    BY <2>1, <2>3 DEF BridgeIInv
<1> QED
  BY <1>3, <1>4, <1>5

\* A request under way: the step of an iteration, or the end of a call.
LEMMA RequestPreserves ==
    ASSUME BridgeIInv, NEW u \in Users,
           NextServer(u) \/ CallSucceeds(u) \/ CallFails(u) \/ ListRaises(u)
    PROVE  BridgeIInv'
<1>1. user[u] # Free /\ UNCHANGED <<registered, closing, replaced>>
  BY DEF NextServer, CallSucceeds, CallFails, ListRaises, InCall, Free
<1>2. closing.at = "no"
  BY <1>1 DEF BridgeIInv, NobodyUses
<1>3. NobodyUses'
  BY <1>1, <1>2 DEF NobodyUses
<1>4. CASE NextServer(u)
  <2>1. conn' = conn \/ \E k \in Registered : conn' = WithClient(k)
    BY <1>4 DEF NextServer
  <2> QED
    BY <1>1, <1>2, <1>3, <2>1, SameClients, OpeningPreserves DEF BridgeIInv, ConnsTypeOK
<1>5. CASE CallSucceeds(u) \/ CallFails(u) \/ ListRaises(u)
  <2>1. conn' \in {conn, AfterFailure(user[u].conn, user[u].doing),
                         AfterSuccess(user[u].conn, user[u].doing)}
    BY <1>5 DEF CallSucceeds, CallFails, ListRaises
  <2> QED
    BY <1>1, <1>3, <2>1, NotesKeepClients, SameClients
<1> QED
  BY <1>4, <1>5

LEMMA BridgeStep == BridgeIInv /\ [McpNext]_mcpVars => BridgeIInv'
<1> SUFFICES ASSUME BridgeIInv, [McpNext]_mcpVars PROVE BridgeIInv'
  OBVIOUS
<1>1. CASE UNCHANGED mcpVars
  BY <1>1, SameClients DEF mcpVars, BridgeIInv, ConnsTypeOK, NobodyUses
<1>2. ASSUME NEW n \in Servers, RemoveServer(n) PROVE BridgeIInv'
  BY <1>2, RemovePreserves
<1>3. ASSUME NEW n \in Servers, NEW k \in Conns, AddServer(n, k) PROVE BridgeIInv'
  BY <1>3, AddPreserves
<1>4. ASSUME NEW u \in Users, NEW n \in Servers, CallTool(u, n) \/ CheckServer(u, n)
      PROVE  BridgeIInv'
  <2>1. /\ closing.at = "no" /\ registered[n] # NoConn
        /\ conn' = WithClient(registered[n])
        /\ UNCHANGED <<registered, closing, replaced>>
    BY <1>4 DEF CallTool, CheckServer, Waits
  <2>2. registered[n] \in Registered
    BY <2>1 DEF Registered, BridgeIInv, ConnsTypeOK
  <2> QED
    BY <2>1, <2>2, OpeningPreserves
<1>5. ASSUME NEW u \in Users, NEW doing, Aggregate(u, doing) PROVE BridgeIInv'
  <2>1. closing.at = "no" /\ UNCHANGED <<registered, conn, closing, replaced>>
    BY <1>5 DEF Aggregate
  <2> QED
    BY <2>1, SameClients DEF BridgeIInv, ConnsTypeOK, NobodyUses
<1>6. ASSUME NEW u \in Users,
             NextServer(u) \/ CallSucceeds(u) \/ CallFails(u) \/ ListRaises(u)
      PROVE BridgeIInv'
  BY <1>6, RequestPreserves
<1>7. CASE Shutdown
  BY <1>7, ShutdownPreserves
<1>8. CASE CloseStep
  BY <1>8, ClosingPreserves, ShutdownPreserves DEF CloseStep
<1> QED
  BY <1>1, <1>2, <1>3, <1>4, <1>5, <1>6, <1>7, <1>8 DEF McpNext

\* MCPBridge and MCPServerConnection of bridge.py: whatever requests were under
\* way when servers were removed or the process shut down, a client that nobody
\* has tried to close has somebody who will, or its server was replaced.
THEOREM ClientsAreAlwaysClosed == McpSpec => []ClientsAreClosed
<1>1. BridgeIInv => ClientsAreClosed
  BY DEF BridgeIInv
<1> QED
  BY BridgeInitially, BridgeStep, <1>1, PTL DEF McpSpec

-------------------------------------------------------------------------------
(* The MCP bridge: the types *)

BridgeUse ==
    [doing : {"nothing", "call", "check", "list", "listing", "health", "checking"},
     conn : Conns \union {NoConn}, size : 0..Cardinality(Servers), seen : SUBSET Conns]

UsersOK == user \in [Users -> BridgeUse]

\* The map has no more entries than there are servers.
LEMMA SizeType == Size \in 0..Cardinality(Servers)
<1> DEFINE named == {n \in Servers : registered[n] # NoConn}
<1>1. named \subseteq Servers
  OBVIOUS
<1>2. Size = Cardinality(named)
  BY DEF Size
<1> HIDE DEF named
<1>3. IsFiniteSet(named) /\ Cardinality(named) <= Cardinality(Servers)
  BY <1>1, BridgeAssumption, FS_Subset
<1>4. Cardinality(named) \in Nat /\ Cardinality(Servers) \in Nat
  BY <1>3, BridgeAssumption, FS_CardinalityType
<1> QED
  BY <1>2, <1>3, <1>4

LEMMA FreeType == Free \in BridgeUse
<1>1. Cardinality(Servers) \in Nat
  BY BridgeAssumption, FS_CardinalityType
<1> QED
  BY <1>1 DEF Free, BridgeUse

\* One request moves.
LEMMA UserMoves ==
    ASSUME UsersOK, NEW u \in Users, NEW next \in BridgeUse, user' = [user EXCEPT ![u] = next]
    PROVE  UsersOK'
BY DEF UsersOK

LEMMA GoesOnTypes ==
    ASSUME UsersOK, NEW u \in Users, GoesOn(u)
    PROVE  UsersOK'
<1> DEFINE listing == [user[u] EXCEPT !.doing = "listing", !.conn = NoConn]
           checking == [user[u] EXCEPT !.doing = "checking", !.conn = NoConn]
<1>1. user[u] \in BridgeUse
  BY DEF UsersOK
<1>2. listing \in BridgeUse
  BY <1>1 DEF BridgeUse
<1>4. checking \in BridgeUse
  BY <1>1 DEF BridgeUse
<1>3. \/ user' = [user EXCEPT ![u] = listing]
      \/ user' = [user EXCEPT ![u] = checking]
      \/ user' = [user EXCEPT ![u] = Free]
  BY DEF GoesOn
<1> HIDE DEF listing, checking
<1> QED
  BY <1>2, <1>3, <1>4, FreeType, UserMoves

LEMMA NextServerTypes ==
    ASSUME UsersOK, NEW u \in Users, NextServer(u)
    PROVE  UsersOK'
<1>1. user[u] \in BridgeUse
  BY DEF UsersOK
<1>2. CASE user' = [user EXCEPT ![u] = Free]
  BY <1>2, FreeType, UserMoves
<1>3. ASSUME NEW k \in Registered, user' = [user EXCEPT ![u].seen = @ \union {k}]
      PROVE  UsersOK'
  <2> DEFINE seen == user[u].seen \union {k}
             next == [user[u] EXCEPT !.seen = seen]
  <2>1. seen \in SUBSET Conns
    BY <1>1 DEF Registered, BridgeUse
  <2>2. user' = [user EXCEPT ![u] = next]
    BY <1>3
  <2> HIDE DEF seen
  <2>3. next \in BridgeUse
    BY <1>1, <2>1 DEF BridgeUse
  <2> HIDE DEF next
  <2> QED
    BY <2>2, <2>3, UserMoves
<1>4. ASSUME NEW k \in Registered,
             user' = [user EXCEPT
                        ![u] = [doing |-> IF @.doing = "listing" THEN "list" ELSE "health",
                                conn |-> k, size |-> @.size, seen |-> @.seen \union {k}]]
      PROVE  UsersOK'
  <2> DEFINE seen == user[u].seen \union {k}
             doing == IF user[u].doing = "listing" THEN "list" ELSE "health"
             next == [doing |-> doing, conn |-> k, size |-> user[u].size, seen |-> seen]
  <2>1. seen \in SUBSET Conns /\ k \in Conns /\ doing \in {"list", "health"}
    BY <1>1 DEF Registered, BridgeUse
  <2>2. user' = [user EXCEPT ![u] = next]
    BY <1>4
  <2> HIDE DEF seen, doing
  <2>3. next \in BridgeUse
    BY <1>1, <2>1 DEF BridgeUse
  <2> HIDE DEF next
  <2> QED
    BY <2>2, <2>3, UserMoves
<1>5. \/ user' = [user EXCEPT ![u] = Free]
      \/ \E k \in Registered :
            \/ user' = [user EXCEPT ![u].seen = @ \union {k}]
            \/ user' = [user EXCEPT
                          ![u] = [doing |-> IF @.doing = "listing" THEN "list" ELSE "health",
                                  conn |-> k, size |-> @.size, seen |-> @.seen \union {k}]]
  BY DEF NextServer
<1> QED
  BY <1>2, <1>3, <1>4, <1>5

LEMMA UsersStep ==
    ASSUME UsersOK, ConnsTypeOK, [McpNext]_mcpVars
    PROVE  UsersOK'
<1>1. ASSUME UNCHANGED user PROVE UsersOK'
  BY <1>1 DEF UsersOK
<1>2. ASSUME NEW u \in Users, NEW n \in Servers, CallTool(u, n) \/ CheckServer(u, n)
      PROVE  UsersOK'
  <2>1. PICK doing \in {"call", "check"} : Waits(u, doing, registered[n])
    BY <1>2 DEF CallTool, CheckServer
  <2> DEFINE next == [user[u] EXCEPT !.doing = doing, !.conn = registered[n]]
  <2>2. user' = [user EXCEPT ![u] = next]
    BY <2>1 DEF Waits
  <2>3. user[u] \in BridgeUse /\ registered[n] \in Conns \union {NoConn}
    BY DEF UsersOK, ConnsTypeOK
  <2>4. next \in BridgeUse
    BY <2>3 DEF BridgeUse
  <2> HIDE DEF next
  <2> QED
    BY <2>2, <2>4, UserMoves
<1>3. ASSUME NEW u \in Users, NEW doing \in {"listing", "checking"}, Aggregate(u, doing)
      PROVE  UsersOK'
  <2> DEFINE size == Size
             next == [Free EXCEPT !.doing = doing, !.size = size]
  <2>1. user' = [user EXCEPT ![u] = next]
    BY <1>3 DEF Aggregate
  <2>2. size \in 0..Cardinality(Servers)
    BY SizeType
  <2> HIDE DEF size
  <2>3. next \in BridgeUse
    BY <2>2, FreeType DEF BridgeUse
  <2> HIDE DEF next
  <2> QED
    BY <2>1, <2>3, UserMoves
<1>4. ASSUME NEW u \in Users, NextServer(u) PROVE UsersOK'
  BY <1>4, NextServerTypes
<1>5. ASSUME NEW u \in Users, CallSucceeds(u) \/ CallFails(u) PROVE UsersOK'
  BY <1>5, GoesOnTypes DEF CallSucceeds, CallFails
<1>6. ASSUME NEW u \in Users, ListRaises(u) PROVE UsersOK'
  BY <1>6, FreeType, UserMoves DEF ListRaises
<1>7. ASSUME NEW n \in Servers, NEW k \in Conns, RemoveServer(n) \/ AddServer(n, k)
      PROVE  UsersOK'
  BY <1>1, <1>7 DEF RemoveServer, AddServer
<1>8. ASSUME NEW n \in Servers, RemoveServer(n) PROVE UsersOK'
  BY <1>1, <1>8 DEF RemoveServer
<1>9. CASE Shutdown \/ CloseServers \/ AllClosed
  BY <1>1, <1>9 DEF Shutdown, CloseServers, AllClosed
<1>10. ASSUME NEW k \in Conns, CloseBegins(k) \/ CloseEnds(k) \/ CloseFails(k) \/ NothingToClose(k)
       PROVE  UsersOK'
  BY <1>1, <1>10 DEF CloseBegins, CloseEnds, CloseFails, NothingToClose
<1>11. CASE UNCHANGED mcpVars
  BY <1>1, <1>11 DEF mcpVars
<1> QED
  BY <1>2, <1>3, <1>4, <1>5, <1>6, <1>7, <1>8, <1>9, <1>10, <1>11 DEF McpNext, CloseStep

\* The variables of McpBridge stay in their types.
THEOREM BridgeWellTyped == McpSpec => []McpTypeOK
<1> DEFINE TypedInv == BridgeIInv /\ UsersOK
<1>1. McpInit => TypedInv
  BY BridgeInitially, FreeType DEF McpInit, UsersOK
<1>2. TypedInv /\ [McpNext]_mcpVars => TypedInv'
  BY BridgeStep, UsersStep DEF BridgeIInv
<1>3. TypedInv => McpTypeOK
  BY DEF BridgeIInv, ConnsTypeOK, UsersOK, BridgeUse, McpTypeOK
<1> QED
  BY <1>1, <1>2, <1>3, PTL DEF McpSpec

-------------------------------------------------------------------------------
(* The event bus: lists without repetition *)

Distinct(list) == \A i, j \in DOMAIN list : i # j => list[i] # list[j]

LEMMA DistinctAppend ==
    ASSUME NEW S, NEW list \in Seq(S), NEW e \in S, Distinct(list), e \notin Elements(list)
    PROVE  Distinct(Append(list, e))
<1> DEFINE long == Append(list, e)
<1>1. /\ Len(list) \in Nat /\ DOMAIN list = 1..Len(list) /\ DOMAIN long = 1..(Len(list) + 1)
      /\ \A i \in 1..Len(list) : long[i] = list[i]
      /\ long[Len(list) + 1] = e
  BY AppendProperties
<1>2. \A i \in DOMAIN list : list[i] # e
  BY DEF Elements
<1>3. \A i, j \in DOMAIN list : i # j => list[i] # list[j]
  BY DEF Distinct
<1> HIDE DEF long
<1>4. ASSUME NEW i \in DOMAIN long, NEW j \in DOMAIN long, i # j
      PROVE  long[i] # long[j]
  <2>1. CASE i \in 1..Len(list) /\ j \in 1..Len(list)
    BY <1>1, <1>3, <1>4, <2>1
  <2>2. CASE i \in 1..Len(list) /\ j = Len(list) + 1
    BY <1>1, <1>2, <2>2
  <2>3. CASE i = Len(list) + 1 /\ j \in 1..Len(list)
    BY <1>1, <1>2, <2>3
  <2> QED
    BY <1>1, <1>4, <2>1, <2>2, <2>3
<1> QED
  BY <1>4 DEF Distinct, long

LEMMA DistinctTail ==
    ASSUME NEW S, NEW list \in Seq(S), list # <<>>, Distinct(list)
    PROVE  /\ Tail(list) \in Seq(S) /\ Head(list) \in S
           /\ Distinct(Tail(list))
           /\ Head(list) \in Elements(list)
           /\ Head(list) \notin Elements(Tail(list))
           /\ Elements(Tail(list)) \subseteq Elements(list)
<1> DEFINE rest == Tail(list)
<1>1. /\ Len(list) \in Nat /\ Len(list) >= 1 /\ DOMAIN list = 1..Len(list) /\ Head(list) = list[1]
      /\ Head(list) \in S /\ rest \in Seq(S)
  OBVIOUS
<1>2. /\ DOMAIN rest = 1..(Len(list) - 1)
      /\ \A i \in 1..(Len(list) - 1) : rest[i] = list[i + 1]
  OBVIOUS
<1> HIDE DEF rest
<1>3. \A i, j \in DOMAIN list : i # j => list[i] # list[j]
  BY DEF Distinct
<1>4. \A i \in DOMAIN rest : i + 1 \in DOMAIN list /\ i + 1 # 1 /\ rest[i] = list[i + 1]
  BY <1>1, <1>2
<1>5. Distinct(rest)
  <2> SUFFICES ASSUME NEW i \in DOMAIN rest, NEW j \in DOMAIN rest, i # j
               PROVE  rest[i] # rest[j]
    BY DEF Distinct
  <2>1. i + 1 # j + 1
    BY <1>1, <1>2
  <2> QED
    BY <1>3, <1>4, <2>1
<1>6. 1 \in DOMAIN list /\ Head(list) \in Elements(list)
  BY <1>1 DEF Elements
<1>7. Head(list) \notin Elements(rest)
  BY <1>1, <1>3, <1>4, <1>6 DEF Elements
<1>8. Elements(rest) \subseteq Elements(list)
  BY <1>4 DEF Elements
<1> QED
  BY <1>1, <1>5, <1>6, <1>7, <1>8 DEF rest

-------------------------------------------------------------------------------
(* The event bus: the invariant *)

Listening == [at : {"waiting", "fanning", "stopped"}, event : Seq(Events),
              to : Seq(Sockets), dead : SUBSET Sockets]

Publishing == [at : {"unpublished", "sending", "published"},
               to : SUBSET Sockets, dead : SUBSET Sockets]

\* An event that waits in the channel is for nobody yet, and waits there once.
ChannelOK ==
    /\ Distinct(channel)
    /\ \A e \in Elements(channel) : owed[e] = {} /\ sends[e].at # "unpublished"
    /\ backend = "memory" => channel = <<>>

\* A send under way is to a socket that the event is for and has not reached.
SendsOK ==
    \A e \in Events :
        /\ sends[e].at = "unpublished" => owed[e] = {}
        /\ backend = "redis" => sends[e].to = {}
        /\ \A c \in sends[e].to : c \in owed[e] /\ e \notin Elements(got[c])

\* So are those the listener has still to come to.
ListenerOK ==
    /\ listener.at # "fanning" => listener.to = <<>>
    /\ backend = "memory" => listener.at = "waiting"
    /\ listener.at = "fanning" =>
        /\ listener.event[1] \in Events
        /\ Distinct(listener.to)
        /\ \A c \in Elements(listener.to) :
              c \in owed[listener.event[1]] /\ listener.event[1] \notin Elements(got[c])

GotOK ==
    \A c \in Sockets :
        /\ Distinct(got[c])
        /\ \A e \in Elements(got[c]) : c \in owed[e]

BusIInv ==
    /\ BusTypeOK /\ listener \in Listening
    /\ ChannelOK
    /\ SendsOK
    /\ ListenerOK
    /\ GotOK

LEMMA BusTypes ==
    ASSUME BusTypeOK
    PROVE  /\ backend \in {"memory", "redis"}
           /\ sends \in [Events -> Publishing]
           /\ channel \in Seq(Events)
           /\ got \in [Sockets -> Seq(Events)]
           /\ owed \in [Events -> SUBSET Sockets]
           /\ socket \in [Sockets -> SocketState]
BY DEF BusTypeOK, Publishing

LEMMA BusTypeParts ==
    ASSUME backend \in {"memory", "redis"}, sends \in [Events -> Publishing],
           channel \in Seq(Events), got \in [Sockets -> Seq(Events)],
           owed \in [Events -> SUBSET Sockets], socket \in [Sockets -> SocketState],
           listener \in Listening
    PROVE  BusTypeOK
BY DEF BusTypeOK, Publishing, Listening

LEMMA RestingType ==
    /\ Resting \in Listening /\ Resting.at = "waiting" /\ Resting.to = <<>>
    /\ [Resting EXCEPT !.at = "stopped"] \in Listening
    /\ [Resting EXCEPT !.at = "stopped"].at = "stopped"
    /\ [Resting EXCEPT !.at = "stopped"].to = <<>>
BY EmptySeq DEF Resting, Listening

LEMMA NothingIsDistinct == Distinct(<<>>) /\ Elements(<<>>) = {}
BY ElementsEmpty DEF Distinct

LEMMA PublishingTypes ==
    /\ NotPublished \in Publishing /\ NotPublished.at = "unpublished" /\ NotPublished.to = {}
    /\ Published \in Publishing /\ Published.at = "published" /\ Published.to = {}
    /\ \A to \in SUBSET Sockets :
          /\ [at |-> "sending", to |-> to, dead |-> {}] \in Publishing
          /\ [at |-> "sending", to |-> to, dead |-> {}].at = "sending"
          /\ [at |-> "sending", to |-> to, dead |-> {}].to = to
BY DEF NotPublished, Published, Publishing

LEMMA BusInitially == BusInit => BusIInv
<1> SUFFICES ASSUME BusInit PROVE BusIInv
  OBVIOUS
<1>1. /\ backend \in {"memory", "redis"} /\ channel = <<>> /\ listener = Resting
      /\ sends = [e \in Events |-> NotPublished]
      /\ got = [c \in Sockets |-> <<>>]
      /\ owed = [e \in Events |-> {}]
  BY DEF BusInit
<1>2. socket \in [Sockets -> SocketState]
  BY DEF BusInit, SocketState
<1>3. BusTypeOK
  <2>1. sends \in [Events -> Publishing]
    BY <1>1, PublishingTypes
  <2>2. got \in [Sockets -> Seq(Events)] /\ channel \in Seq(Events)
    BY <1>1, EmptySeq
  <2>3. owed \in [Events -> SUBSET Sockets]
    BY <1>1
  <2> QED
    BY <1>1, <1>2, <2>1, <2>2, <2>3, RestingType, BusTypeParts
<1>4. ChannelOK
  BY <1>1, NothingIsDistinct DEF ChannelOK
<1>5. SendsOK
  BY <1>1, PublishingTypes DEF SendsOK
<1>6. ListenerOK
  BY <1>1, RestingType DEF ListenerOK
<1>7. GotOK
  BY <1>1, NothingIsDistinct DEF GotOK
<1> QED
  BY <1>1, <1>3, <1>4, <1>5, <1>6, <1>7, RestingType DEF BusIInv

\* The sockets change in no way that the rest of the invariant speaks of.
LEMMA SocketsMove ==
    ASSUME BusIInv, socket' \in [Sockets -> SocketState],
           UNCHANGED <<backend, sends, channel, listener, got, owed>>
    PROVE  BusIInv'
<1>1. BusTypeOK'
  BY DEF BusIInv, BusTypeOK
<1>2. (listener \in Listening)' /\ ChannelOK' /\ SendsOK' /\ ListenerOK' /\ GotOK'
  BY DEF BusIInv, ChannelOK, SendsOK, ListenerOK, GotOK, Listening
<1> QED
  BY <1>1, <1>2 DEF BusIInv

-------------------------------------------------------------------------------
(* The event bus: the steps *)

LEMMA UnsubscribeType ==
    ASSUME BusTypeOK, NEW ids
    PROVE  Unsubscribe(ids) \in [Sockets -> SocketState]
<1>1. \A c \in Sockets : socket[c] \in SocketState
  BY BusTypes
<1>2. \A c \in Sockets : [socket[c] EXCEPT !.subscribed = FALSE] \in SocketState
  BY <1>1 DEF SocketState
<1> QED
  BY <1>1, <1>2 DEF Unsubscribe

LEMMA ConnectStep ==
    ASSUME BusIInv, NEW c \in Sockets, Connect(c) \/ Vanish(c) \/ Disconnect(c)
    PROVE  BusIInv'
<1>1. BusTypeOK
  BY DEF BusIInv
<1>2. CASE Connect(c)
  <2>1. [subscribed |-> TRUE, up |-> TRUE] \in SocketState
    BY DEF SocketState
  <2>2. socket' \in [Sockets -> SocketState]
    BY <1>1, <1>2, <2>1, BusTypes DEF Connect
  <2> QED
    BY <1>2, <2>2, SocketsMove DEF Connect
<1>3. CASE Vanish(c)
  <2>1. socket' = [socket EXCEPT ![c] = [socket[c] EXCEPT !.up = FALSE]]
    BY <1>3 DEF Vanish
  <2>2. [socket[c] EXCEPT !.up = FALSE] \in SocketState
    BY <1>1, BusTypes DEF SocketState
  <2>3. socket' \in [Sockets -> SocketState]
    BY <1>1, <2>1, <2>2, BusTypes
  <2> QED
    BY <1>3, <2>3, SocketsMove DEF Vanish
<1>4. CASE Disconnect(c)
  <2>1. socket' \in [Sockets -> SocketState]
    BY <1>1, <1>4, UnsubscribeType DEF Disconnect
  <2> QED
    BY <1>4, <2>1, SocketsMove DEF Disconnect
<1> QED
  BY <1>2, <1>3, <1>4

\* In memory the event is for the sockets of this moment, and was for nobody.
LEMMA PublishInMemoryStep ==
    ASSUME BusIInv, NEW e \in Events, PublishInMemory(e)
    PROVE  BusIInv'
<1> DEFINE next == [at |-> "sending", to |-> Subscribed, dead |-> {}]
<1>1. /\ backend = "memory" /\ sends[e] = NotPublished
      /\ sends' = [sends EXCEPT ![e] = next]
      /\ owed' = [owed EXCEPT ![e] = Subscribed]
      /\ UNCHANGED <<backend, socket, channel, listener, got>>
  BY DEF PublishInMemory
<1>2. Subscribed \in SUBSET Sockets
  BY DEF Subscribed
<1>3. next \in Publishing /\ next.at = "sending" /\ next.to = Subscribed
  BY <1>2, PublishingTypes
<1> HIDE DEF next
<1>4. BusTypeOK /\ listener \in Listening /\ ChannelOK /\ SendsOK /\ ListenerOK /\ GotOK
  BY DEF BusIInv
<1>5. /\ sends \in [Events -> Publishing] /\ owed \in [Events -> SUBSET Sockets]
      /\ got \in [Sockets -> Seq(Events)]
  BY <1>4, BusTypes
<1>6. /\ sends'[e] = next /\ owed'[e] = Subscribed
      /\ \A x \in Events : x # e => sends'[x] = sends[x] /\ owed'[x] = owed[x]
  BY <1>1, <1>5
<1>7. owed[e] = {} /\ sends[e].at = "unpublished"
  BY <1>1, <1>4, PublishingTypes DEF SendsOK
<1>8. BusTypeOK'
  <2>1. sends' \in [Events -> Publishing] /\ owed' \in [Events -> SUBSET Sockets]
    BY <1>1, <1>2, <1>3, <1>5
  <2> QED
    BY <1>1, <1>4, <2>1 DEF BusTypeOK, Publishing
<1>9. ChannelOK'
  BY <1>1, <1>4, NothingIsDistinct DEF ChannelOK
<1>10. \A c \in Sockets : e \notin Elements(got[c])
  BY <1>4, <1>7 DEF GotOK
<1>11. SendsOK'
  <2> SUFFICES ASSUME NEW x \in Events
               PROVE  /\ sends'[x].at = "unpublished" => owed'[x] = {}
                      /\ backend' = "redis" => sends'[x].to = {}
                      /\ \A c \in sends'[x].to : c \in owed'[x] /\ x \notin Elements(got'[c])
    BY DEF SendsOK
  <2>1. CASE x = e
    BY <1>1, <1>2, <1>3, <1>6, <1>10, <2>1
  <2>2. CASE x # e
    BY <1>1, <1>4, <1>6, <2>2 DEF SendsOK
  <2> QED
    BY <2>1, <2>2
<1>12. ListenerOK'
  BY <1>1, <1>4 DEF ListenerOK
<1>13. GotOK'
  <2> SUFFICES ASSUME NEW c \in Sockets
               PROVE  Distinct(got'[c]) /\ \A x \in Elements(got'[c]) : c \in owed'[x]
    BY DEF GotOK
  <2>1. Distinct(got[c]) /\ \A x \in Elements(got[c]) : c \in owed[x] /\ x \in Events /\ x # e
    BY <1>4, <1>5, <1>10, ElementsType DEF GotOK
  <2> QED
    BY <1>1, <1>6, <2>1
<1> QED
  BY <1>1, <1>4, <1>8, <1>9, <1>11, <1>12, <1>13 DEF BusIInv, Listening

\* A send adds the event to what one socket has got, or nothing.
LEMMA ReachedGot ==
    ASSUME BusTypeOK, GotOK, NEW c \in Sockets, NEW e \in Events,
           c \in owed[e], e \notin Elements(got[c]),
           got' = Reached(c, e), owed' = owed
    PROVE  /\ got' \in [Sockets -> Seq(Events)]
           /\ \A d \in Sockets : d # c => got'[d] = got[d]
           /\ Elements(got'[c]) \subseteq Elements(got[c]) \union {e}
           /\ GotOK'
<1>1. got \in [Sockets -> Seq(Events)] /\ got[c] \in Seq(Events)
  BY BusTypes
<1>2. got' = [got EXCEPT ![c] = IF socket[c].up THEN Append(got[c], e) ELSE got[c]]
  BY DEF Reached
<1>3. CASE got'[c] = Append(got[c], e) /\ got' = [got EXCEPT ![c] = Append(got[c], e)]
  <2>1. Append(got[c], e) \in Seq(Events)
    BY <1>1, AppendProperties
  <2>2. got' \in [Sockets -> Seq(Events)] /\ \A d \in Sockets : d # c => got'[d] = got[d]
    BY <1>1, <1>3, <2>1
  <2>3. Elements(got'[c]) = Elements(got[c]) \union {e}
    BY <1>1, <1>3, ElementsAppend
  <2>4. Distinct(got[c])
    BY DEF GotOK
  <2>5. Distinct(got'[c])
    BY <1>1, <1>3, <2>4, DistinctAppend
  <2>6. GotOK'
    <3> SUFFICES ASSUME NEW d \in Sockets
                 PROVE  Distinct(got'[d]) /\ \A x \in Elements(got'[d]) : d \in owed[x]
      BY DEF GotOK
    <3>1. CASE d = c
      BY <2>3, <2>5, <3>1 DEF GotOK
    <3>2. CASE d # c
      BY <2>2, <3>2 DEF GotOK
    <3> QED
      BY <3>1, <3>2
  <2> QED
    BY <2>2, <2>3, <2>6
<1>4. CASE got' = got
  BY <1>1, <1>4 DEF GotOK
<1>5. \/ got' = got
      \/ got'[c] = Append(got[c], e) /\ got' = [got EXCEPT ![c] = Append(got[c], e)]
  <2>1. CASE socket[c].up
    <3>1. (IF socket[c].up THEN Append(got[c], e) ELSE got[c]) = Append(got[c], e)
      BY <2>1, Zenon
    <3> QED
      BY <1>1, <1>2, <3>1
  <2>2. CASE ~socket[c].up
    <3>1. (IF socket[c].up THEN Append(got[c], e) ELSE got[c]) = got[c]
      BY <2>2, Zenon
    <3> QED
      BY <1>1, <1>2, <3>1
  <2> QED
    BY <2>1, <2>2
<1> QED
  BY <1>3, <1>4, <1>5

LEMMA RaisedType ==
    ASSUME NEW c \in Sockets, NEW raised \in Raised(c)
    PROVE  raised \in SUBSET Sockets
<1>1. raised = {} \/ raised = {c}
  BY DEF Raised
<1> QED
  BY <1>1

LEMMA SendOneStep ==
    ASSUME BusIInv, NEW e \in Events, NEW c \in Sockets, SendOne(e, c)
    PROVE  BusIInv'
<1> PICK raised \in Raised(c) : sends' = AfterSend(e, c, raised)
  BY DEF SendOne
<1> DEFINE next == [sends[e] EXCEPT !.to = @ \ {c}, !.dead = @ \union raised]
<1>1. /\ c \in sends[e].to /\ sends' = AfterSend(e, c, raised) /\ got' = Reached(c, e)
      /\ UNCHANGED <<backend, socket, channel, listener, owed>>
  BY DEF SendOne
<1>2. BusTypeOK /\ listener \in Listening /\ ChannelOK /\ SendsOK /\ ListenerOK /\ GotOK
  BY DEF BusIInv
<1>3. /\ sends \in [Events -> Publishing] /\ owed \in [Events -> SUBSET Sockets]
      /\ got \in [Sockets -> Seq(Events)] /\ backend \in {"memory", "redis"}
  BY <1>2, BusTypes
<1>4. sends' = [sends EXCEPT ![e] = next]
  BY <1>1, <1>3 DEF AfterSend
<1>5. /\ next \in Publishing /\ next.at = sends[e].at /\ next.to = sends[e].to \ {c}
  <2>1. sends[e] \in Publishing /\ raised \in SUBSET Sockets
    BY <1>3, RaisedType
  <2> QED
    BY <2>1 DEF Publishing
<1> HIDE DEF next
<1>6. sends'[e] = next /\ \A x \in Events : x # e => sends'[x] = sends[x]
  BY <1>3, <1>4
<1>7. c \in owed[e] /\ e \notin Elements(got[c])
  BY <1>1, <1>2 DEF SendsOK
<1>8. /\ got' \in [Sockets -> Seq(Events)] /\ GotOK'
      /\ \A d \in Sockets : d # c => got'[d] = got[d]
      /\ Elements(got'[c]) \subseteq Elements(got[c]) \union {e}
  BY <1>1, <1>2, <1>7, ReachedGot
<1>9. backend = "memory" /\ listener.at # "fanning"
  BY <1>1, <1>2, <1>3 DEF SendsOK, ListenerOK
<1>10. BusTypeOK'
  <2>1. sends' \in [Events -> Publishing]
    BY <1>3, <1>4, <1>5
  <2> QED
    BY <1>1, <1>2, <1>8, <2>1 DEF BusTypeOK, Publishing
<1>11. ChannelOK'
  BY <1>1, <1>2, <1>9, NothingIsDistinct DEF ChannelOK
<1>12. SendsOK'
  <2> SUFFICES ASSUME NEW x \in Events
               PROVE  /\ sends'[x].at = "unpublished" => owed'[x] = {}
                      /\ backend' = "redis" => sends'[x].to = {}
                      /\ \A d \in sends'[x].to : d \in owed'[x] /\ x \notin Elements(got'[d])
    BY DEF SendsOK
  <2>1. sends'[x].at = sends[x].at /\ sends'[x].to \subseteq sends[x].to
    BY <1>5, <1>6
  <2>2. ASSUME NEW d \in sends'[x].to
        PROVE  x \notin Elements(got'[d])
    <3>1. x \notin Elements(got[d]) /\ d \in Sockets
      BY <1>2, <1>3, <2>1, <2>2 DEF SendsOK, Publishing
    <3>2. CASE d = c
      <4>1. x # e
        BY <1>5, <1>6, <2>2, <3>2
      <4> QED
        BY <1>8, <3>1, <3>2, <4>1
    <3>3. CASE d # c
      BY <1>8, <3>1, <3>3
    <3> QED
      BY <3>2, <3>3
  <2> QED
    BY <1>1, <1>2, <1>9, <2>1, <2>2 DEF SendsOK
<1>13. ListenerOK'
  BY <1>1, <1>2, <1>9 DEF ListenerOK
<1> QED
  BY <1>1, <1>2, <1>8, <1>10, <1>11, <1>12, <1>13 DEF BusIInv, Listening

\* Sends and the event itself stay as they are, or it counts as published.
LEMMA GatheredStep ==
    ASSUME BusIInv, NEW e \in Events, Gathered(e)
    PROVE  BusIInv'
<1>1. /\ sends[e].at = "sending" /\ socket' = Unsubscribe(sends[e].dead)
      /\ sends' = [sends EXCEPT ![e] = Published]
      /\ UNCHANGED <<backend, channel, listener, got, owed>>
  BY DEF Gathered
<1>2. BusTypeOK /\ listener \in Listening /\ ChannelOK /\ SendsOK /\ ListenerOK /\ GotOK
  BY DEF BusIInv
<1>3. sends \in [Events -> Publishing] /\ socket' \in [Sockets -> SocketState]
  BY <1>1, <1>2, BusTypes, UnsubscribeType
<1>4. sends'[e] = Published /\ \A x \in Events : x # e => sends'[x] = sends[x]
  BY <1>1, <1>3
<1>5. BusTypeOK'
  <2>1. sends' \in [Events -> Publishing]
    BY <1>1, <1>3, PublishingTypes
  <2> QED
    BY <1>1, <1>2, <1>3, <2>1 DEF BusTypeOK, Publishing
<1>6. \A x \in Events : sends'[x].at = "unpublished" => sends[x].at = "unpublished"
  BY <1>4, PublishingTypes
<1>7. \A x \in Events : sends'[x].to \subseteq sends[x].to
  BY <1>4, PublishingTypes
<1>8. ChannelOK'
  <2>1. Elements(channel) \subseteq Events
    BY <1>2, BusTypes, ElementsType
  <2> QED
    BY <1>1, <1>2, <1>6, <2>1 DEF ChannelOK
<1>9. SendsOK'
  BY <1>1, <1>2, <1>6, <1>7 DEF SendsOK
<1>10. ListenerOK' /\ GotOK'
  BY <1>1, <1>2 DEF ListenerOK, GotOK
<1> QED
  BY <1>1, <1>2, <1>5, <1>8, <1>9, <1>10 DEF BusIInv, Listening

\* The event joins the channel once: it was not published before.
LEMMA PublishToRedisStep ==
    ASSUME BusIInv, NEW e \in Events, PublishToRedis(e)
    PROVE  BusIInv'
<1> DEFINE next == [at |-> "sending", to |-> LocalSends, dead |-> {}]
<1>1. /\ backend = "redis" /\ sends[e] = NotPublished
      /\ UNCHANGED <<backend, socket, listener, got, owed>>
  BY DEF PublishToRedis
<1>2. BusTypeOK /\ listener \in Listening /\ ChannelOK /\ SendsOK /\ ListenerOK /\ GotOK
  BY DEF BusIInv
<1>3. sends \in [Events -> Publishing] /\ channel \in Seq(Events)
  BY <1>2, BusTypes
<1>4. next \in Publishing /\ next.at = "sending" /\ next.to = {}
  BY PublishingTypes DEF LocalSends
<1> HIDE DEF next
<1>5. PICK new \in Publishing :
            /\ new.at # "unpublished" /\ new.to = {}
            /\ sends' = [sends EXCEPT ![e] = new]
  <2>1. sends' = [sends EXCEPT ![e] = next] \/ sends' = [sends EXCEPT ![e] = Published]
    BY DEF PublishToRedis, next
  <2> QED
    BY <1>4, <2>1, PublishingTypes
<1>6. sends'[e] = new /\ \A x \in Events : x # e => sends'[x] = sends[x]
  BY <1>3, <1>5
<1>7. sends[e].at = "unpublished" /\ owed[e] = {} /\ e \notin Elements(channel)
  BY <1>1, <1>2, PublishingTypes DEF SendsOK, ChannelOK
<1>8. /\ channel' \in Seq(Events) /\ Distinct(channel')
      /\ Elements(channel') \subseteq Elements(channel) \union {e}
  <2>1. CASE channel' = channel
    BY <1>2, <1>3, <2>1 DEF ChannelOK
  <2>2. CASE channel' = Append(channel, e)
    <3>1. Distinct(channel)
      BY <1>2 DEF ChannelOK
    <3>2. Distinct(channel')
      BY <1>3, <1>7, <2>2, <3>1, DistinctAppend
    <3>3. Elements(channel') = Elements(channel) \union {e}
      BY <1>3, <2>2, ElementsAppend
    <3>4. channel' \in Seq(Events)
      BY <1>3, <2>2, AppendProperties
    <3> QED
      BY <3>2, <3>3, <3>4
  <2> QED
    BY <2>1, <2>2 DEF PublishToRedis
<1>9. BusTypeOK'
  <2>1. sends' \in [Events -> Publishing]
    BY <1>3, <1>5
  <2> QED
    BY <1>1, <1>2, <1>8, <2>1 DEF BusTypeOK, Publishing
<1>10. ChannelOK'
  <2>1. Elements(channel) \subseteq Events
    BY <1>3, ElementsType
  <2>2. \A x \in Elements(channel') : owed'[x] = {} /\ sends'[x].at # "unpublished"
    BY <1>1, <1>2, <1>5, <1>6, <1>7, <1>8, <2>1 DEF ChannelOK
  <2> QED
    BY <1>1, <1>8, <2>2 DEF ChannelOK
<1>11. SendsOK'
  BY <1>1, <1>2, <1>5, <1>6 DEF SendsOK
<1>12. ListenerOK' /\ GotOK'
  BY <1>1, <1>2 DEF ListenerOK, GotOK
<1> QED
  BY <1>1, <1>2, <1>9, <1>10, <1>11, <1>12 DEF BusIInv, Listening

\* The message in hand goes to the sockets of this moment, each in its turn;
\* nobody has got it.
LEMMA ListenStep ==
    ASSUME BusIInv, Listen
    PROVE  BusIInv'
<1> DEFINE e == Head(channel)
<1>1. PICK turns \in Orders(Subscribed) :
        listener' = [at |-> "fanning", event |-> <<e>>, to |-> turns, dead |-> {}]
  BY DEF Listen
<1>2. /\ backend = "redis" /\ channel # <<>> /\ channel' = Tail(channel)
      /\ owed' = [owed EXCEPT ![e] = Subscribed]
      /\ UNCHANGED <<backend, socket, sends, got>>
  BY DEF Listen
<1>3. BusTypeOK /\ listener \in Listening /\ ChannelOK /\ SendsOK /\ ListenerOK /\ GotOK
  BY DEF BusIInv
<1>4. /\ sends \in [Events -> Publishing] /\ channel \in Seq(Events)
      /\ owed \in [Events -> SUBSET Sockets] /\ got \in [Sockets -> Seq(Events)]
  BY <1>3, BusTypes
<1>5. Subscribed \in SUBSET Sockets /\ IsFiniteSet(Subscribed)
  <2>1. Subscribed \in SUBSET Sockets
    BY DEF Subscribed
  <2> QED
    BY <2>1, BusAssumption, FS_Subset
<1>6. /\ turns \in Seq(Subscribed) /\ Elements(turns) = Subscribed
      /\ \A i, j \in DOMAIN turns : turns[i] = turns[j] => i = j
  BY <1>5, OrdersType
<1>7. turns \in Seq(Sockets) /\ Distinct(turns)
  <2>1. turns \in Seq(Sockets)
    BY <1>5, <1>6
  <2>2. Distinct(turns)
    BY <1>6 DEF Distinct
  <2> QED
    BY <2>1, <2>2
<1>8. /\ Tail(channel) \in Seq(Events) /\ e \in Events /\ Distinct(Tail(channel))
      /\ e \in Elements(channel) /\ e \notin Elements(Tail(channel))
      /\ Elements(Tail(channel)) \subseteq Elements(channel)
  BY <1>2, <1>3, <1>4, DistinctTail DEF ChannelOK
<1> HIDE DEF e
<1>9. /\ listener' \in Listening /\ listener'.at = "fanning" /\ listener'.to = turns
      /\ listener'.event[1] = e
  BY <1>1, <1>7, <1>8 DEF Listening
<1>10. /\ owed[e] = {} /\ sends[e].at # "unpublished"
  BY <1>3, <1>8 DEF ChannelOK
<1>11. \A c \in Sockets : e \notin Elements(got[c])
  BY <1>3, <1>10 DEF GotOK
<1>12. owed'[e] = Subscribed /\ \A x \in Events : x # e => owed'[x] = owed[x]
  BY <1>2, <1>4, <1>8
<1>13. BusTypeOK'
  <2>1. owed' \in [Events -> SUBSET Sockets]
    BY <1>2, <1>4, <1>5
  <2> QED
    BY <1>2, <1>3, <1>8, <1>9, <2>1 DEF BusTypeOK
<1>14. ChannelOK'
  <2>1. Elements(channel) \subseteq Events
    BY <1>4, ElementsType
  <2>2. \A x \in Elements(channel') : owed'[x] = {} /\ sends'[x].at # "unpublished"
    BY <1>2, <1>3, <1>8, <1>12, <2>1 DEF ChannelOK
  <2> QED
    BY <1>2, <1>8, <2>2 DEF ChannelOK
<1>15. SendsOK'
  <2> SUFFICES ASSUME NEW x \in Events
               PROVE  /\ sends'[x].at = "unpublished" => owed'[x] = {}
                      /\ backend' = "redis" => sends'[x].to = {}
                      /\ \A c \in sends'[x].to : c \in owed'[x] /\ x \notin Elements(got'[c])
    BY DEF SendsOK
  <2>1. sends[x].to = {} /\ (sends[x].at = "unpublished" => owed[x] = {} /\ x # e)
    BY <1>2, <1>3, <1>10 DEF SendsOK
  <2> QED
    BY <1>2, <1>12, <2>1
<1>16. ListenerOK'
  <2>1. \A c \in Elements(turns) : c \in owed'[e] /\ e \notin Elements(got'[c])
    BY <1>2, <1>5, <1>6, <1>11, <1>12
  <2> QED
    BY <1>2, <1>7, <1>8, <1>9, <2>1 DEF ListenerOK
<1>17. GotOK'
  <2> SUFFICES ASSUME NEW c \in Sockets
               PROVE  Distinct(got'[c]) /\ \A x \in Elements(got'[c]) : c \in owed'[x]
    BY DEF GotOK
  <2>1. Distinct(got[c]) /\ \A x \in Elements(got[c]) : c \in owed[x] /\ x \in Events /\ x # e
    BY <1>3, <1>4, <1>11, ElementsType DEF GotOK
  <2> QED
    BY <1>2, <1>12, <2>1
<1> QED
  BY <1>9, <1>13, <1>14, <1>15, <1>16, <1>17 DEF BusIInv, Listening

LEMMA ListenerSendsStep ==
    ASSUME BusIInv, NEW c \in Sockets, ListenerSends(c)
    PROVE  BusIInv'
<1> DEFINE After(raised) == [listener EXCEPT !.to = Tail(@), !.dead = @ \union raised]
           e == listener.event[1]
<1> PICK raised \in Raised(c) : listener' = After(raised)
  BY DEF ListenerSends
<1> DEFINE next == After(raised)
<1>1. /\ listener.to # <<>> /\ c = Head(listener.to) /\ listener' = next
      /\ got' = Reached(c, e)
      /\ UNCHANGED <<backend, socket, sends, channel, owed>>
  BY DEF ListenerSends
<1>2. BusTypeOK /\ listener \in Listening /\ ChannelOK /\ SendsOK /\ ListenerOK /\ GotOK
  BY DEF BusIInv
<1>3. /\ got \in [Sockets -> Seq(Events)] /\ listener.to \in Seq(Sockets)
      /\ backend \in {"memory", "redis"}
  BY <1>2, BusTypes DEF Listening
<1>4. /\ listener.at = "fanning" /\ e \in Events /\ Distinct(listener.to) /\ backend = "redis"
      /\ \A d \in Elements(listener.to) : d \in owed[e] /\ e \notin Elements(got[d])
  BY <1>1, <1>2, <1>3 DEF ListenerOK
<1>5. /\ Tail(listener.to) \in Seq(Sockets) /\ Distinct(Tail(listener.to))
      /\ c \in Elements(listener.to) /\ c \notin Elements(Tail(listener.to))
      /\ Elements(Tail(listener.to)) \subseteq Elements(listener.to)
  BY <1>1, <1>3, <1>4, DistinctTail
<1>6. /\ next \in Listening /\ next.at = "fanning" /\ next.to = Tail(listener.to)
      /\ next.event = listener.event
  <2>1. raised \in SUBSET Sockets
    BY RaisedType
  <2> QED
    BY <1>2, <1>4, <1>5, <2>1 DEF Listening
<1> HIDE DEF next, After
<1>7. /\ got' \in [Sockets -> Seq(Events)] /\ GotOK'
      /\ \A d \in Sockets : d # c => got'[d] = got[d]
  BY <1>1, <1>2, <1>4, <1>5, ReachedGot
<1>8. BusTypeOK'
  BY <1>1, <1>2, <1>6, <1>7 DEF BusTypeOK
<1>9. ChannelOK'
  BY <1>1, <1>2 DEF ChannelOK
<1>10. SendsOK'
  BY <1>1, <1>2, <1>4 DEF SendsOK
<1>11. ListenerOK'
  <2>1. \A d \in Elements(Tail(listener.to)) : d \in Sockets /\ d # c
    BY <1>5, ElementsType
  <2>2. \A d \in Elements(Tail(listener.to)) : d \in owed[e] /\ e \notin Elements(got'[d])
    BY <1>4, <1>5, <1>7, <2>1
  <2>3. listener'.event[1] = e
    BY <1>1, <1>6
  <2> QED
    BY <1>1, <1>4, <1>5, <1>6, <2>2, <2>3 DEF ListenerOK
<1> QED
  BY <1>1, <1>6, <1>7, <1>8, <1>9, <1>10, <1>11 DEF BusIInv, Listening

LEMMA ListenerEndsStep ==
    ASSUME BusIInv, ListenerDone \/ ListenerStops
    PROVE  BusIInv'
<1>1. BusTypeOK /\ listener \in Listening /\ ChannelOK /\ SendsOK /\ ListenerOK /\ GotOK
  BY DEF BusIInv
<1>2. /\ socket' \in [Sockets -> SocketState]
      /\ listener' \in Listening /\ listener'.at # "fanning" /\ listener'.to = <<>>
      /\ channel' = channel \/ channel' = <<>>
      /\ UNCHANGED <<backend, sends, got, owed>>
  BY <1>1, BusTypes, UnsubscribeType, RestingType DEF ListenerDone, ListenerStops
<1>3. backend = "memory" => listener'.at = "waiting"
  BY RestingType DEF ListenerDone, ListenerStops
<1>4. channel' \in Seq(Events) /\ Distinct(channel') /\ Elements(channel') \subseteq Elements(channel)
  <2>1. CASE channel' = channel
    BY <1>1, <2>1, BusTypes DEF ChannelOK
  <2>2. CASE channel' = <<>>
    BY <2>2, EmptySeq, NothingIsDistinct
  <2> QED
    BY <1>2, <2>1, <2>2
<1>5. BusTypeOK'
  BY <1>1, <1>2, <1>4 DEF BusTypeOK, Listening
<1>6. ChannelOK'
  BY <1>1, <1>2, <1>4 DEF ChannelOK
<1>7. SendsOK' /\ GotOK'
  BY <1>1, <1>2 DEF SendsOK, GotOK
<1>8. ListenerOK'
  BY <1>2, <1>3 DEF ListenerOK
<1> QED
  BY <1>2, <1>5, <1>6, <1>7, <1>8 DEF BusIInv, Listening

LEMMA BusStep == BusIInv /\ [BusNext]_busVars => BusIInv'
<1> SUFFICES ASSUME BusIInv, [BusNext]_busVars PROVE BusIInv'
  OBVIOUS
<1>1. CASE UNCHANGED busVars
  <2>1. BusTypeOK' /\ ChannelOK' /\ SendsOK' /\ ListenerOK' /\ GotOK' /\ (listener \in Listening)'
    BY <1>1 DEF busVars, BusIInv, BusTypeOK, ChannelOK, SendsOK, ListenerOK, GotOK, Listening
  <2> QED
    BY <2>1 DEF BusIInv
<1>2. ASSUME NEW c \in Sockets,
             Connect(c) \/ Vanish(c) \/ Disconnect(c) \/ ListenerSends(c)
      PROVE  BusIInv'
  BY <1>2, ConnectStep, ListenerSendsStep
<1>3. ASSUME NEW e \in Events,
             \/ PublishInMemory(e) \/ PublishToRedis(e) \/ Gathered(e)
             \/ \E c \in Sockets : SendOne(e, c)
      PROVE  BusIInv'
  BY <1>3, PublishInMemoryStep, PublishToRedisStep, GatheredStep, SendOneStep
<1>4. CASE Listen \/ ListenerDone \/ ListenerStops
  BY <1>4, ListenStep, ListenerEndsStep
<1> QED
  BY <1>1, <1>2, <1>3, <1>4, Zenon DEF BusNext

LEMMA BusHolds == BusSpec => []BusIInv
<1> QED
  BY BusInitially, BusStep, PTL DEF BusSpec

\* However publishers, the listener and clients interleave, no socket gets an
\* event twice, nor one it was not subscribed for when its sockets were collected.
THEOREM EventsComeOnce == BusSpec => []AtMostOnce
<1>1. BusIInv => AtMostOnce
  <2> SUFFICES ASSUME BusIInv, NEW c \in Sockets
               PROVE  /\ \A i, j \in DOMAIN got[c] : i # j => got[c][i] # got[c][j]
                      /\ \A i \in DOMAIN got[c] : c \in owed[got[c][i]]
    BY DEF AtMostOnce
  <2> QED
    BY DEF BusIInv, GotOK, Distinct, Elements
<1> QED
  BY <1>1, BusHolds, PTL

\* The state of the bus keeps its type.
THEOREM BusWellTyped == BusSpec => []BusTypeOK
<1>1. BusIInv => BusTypeOK
  BY DEF BusIInv
<1> QED
  BY <1>1, BusHolds, PTL

-------------------------------------------------------------------------------
(* The schema migrations: the order of the migrations *)

\* The migrations newer than a version, each once, from the oldest to the last.
Plan(list, current) ==
    /\ list \in Seq(Versions)
    /\ Ordered(list, Less)
    /\ Elements(list) = {v \in Versions : v > current}

LEMMA LatestType ==
    Latest \in Nat /\ \A w \in Versions : w <= Latest
<1> DEFINE All == Versions \union {0}
<1>1. All \subseteq Nat /\ IsFiniteSet(All) /\ All # {}
  BY MigrationAssumption, FS_AddElement
<1>2. \E v \in All : \A w \in All : w <= v
  BY <1>1, FiniteSetHasMax
<1>3. \E v \in All : \A w \in Versions : w <= v
  BY <1>2
<1> QED
  BY <1>1, <1>3 DEF Latest

LEMMA VersionsAreNumbers == \A v \in Versions : v \in Nat /\ v >= 1 /\ v > 0
BY MigrationAssumption

\* Whatever order the store lists its migrations in, they are sorted.
LEMMA SortedPlan ==
    ASSUME NEW list, Elements(list) = Versions
    PROVE  Plan(Sorted(list), 0)
<1> DEFINE last == Latest
           upTo == 1..last
           numbers == [v \in 1..last |-> v]
<1>1. last \in Nat /\ \A v \in Versions : v \in Nat /\ v >= 1 /\ v > 0 /\ v <= last
  BY LatestType, VersionsAreNumbers
<1>2. Sorted(list) = Select(numbers, Versions)
  BY DEF Sorted
<1> HIDE DEF last
<1>3. numbers \in Seq(upTo) /\ Elements(numbers) = upTo /\ Ordered(numbers, Less)
  BY <1>1, CountingUp
<1>4. upTo \intersect Versions = Versions /\ Versions = {v \in Versions : v > 0}
  BY <1>1
<1> HIDE DEF numbers, upTo
<1>5. Sorted(list) \in Seq(Versions)
  BY <1>2, <1>3, <1>4, SelectType
<1>6. Ordered(Sorted(list), Less)
  BY <1>2, <1>3, SelectOrdered
<1>7. Elements(Sorted(list)) = Versions
  BY <1>2, <1>3, <1>4, SelectElements
<1> QED
  BY <1>4, <1>5, <1>6, <1>7 DEF Plan

\* Passing over what is not newer than a version leaves the plan from there.
LEMMA RemainingPlan ==
    ASSUME NEW list, NEW current \in Nat,
           list \in Seq(Versions), Ordered(list, Less),
           \A v \in Versions : v > current => v \in Elements(list)
    PROVE  Plan(Remaining(list, current), current)
<1> DEFINE newer == {v \in Versions : v > current}
<1>1. Remaining(list, current) = Select(list, newer)
  BY DEF Remaining
<1>2. newer \subseteq Elements(list)
  OBVIOUS
<1> HIDE DEF newer
<1>3. Select(list, newer) \in Seq(Versions)
  BY SelectType
<1>4. Ordered(Select(list, newer), Less)
  BY SelectOrdered
<1>5. Elements(Select(list, newer)) = newer
  <2>1. Elements(Select(list, newer)) = Elements(list) \intersect newer
    BY SelectElements
  <2> QED
    BY <1>2, <2>1
<1> QED
  BY <1>1, <1>3, <1>4, <1>5 DEF Plan, newer

\* The first of a plan is the oldest, and the rest holds what is newer than it.
LEMMA PlanHead ==
    ASSUME NEW list, NEW current \in Nat, Plan(list, current), list # <<>>
    PROVE  /\ Head(list) \in Versions /\ Head(list) > current
           /\ \A w \in Versions : w > current /\ w <= Head(list) => w = Head(list)
<1>1. list \in Seq(Versions) /\ Len(list) \in Nat /\ Len(list) >= 1 /\ Head(list) = list[1]
      /\ DOMAIN list = 1..Len(list)
  BY DEF Plan
<1>2. Head(list) \in Elements(list)
  BY <1>1 DEF Elements
<1>3. Head(list) \in Versions /\ Head(list) > current
  BY <1>2 DEF Plan
<1>4. ASSUME NEW w \in Versions, w > current, w <= Head(list)
      PROVE  w = Head(list)
  <2>1. w \in Elements(list)
    BY <1>4 DEF Plan
  <2>2. PICK i \in DOMAIN list : w = list[i]
    BY <2>1 DEF Elements
  <2>3. CASE i = 1
    BY <1>1, <2>2, <2>3
  <2>4. CASE i # 1
    <3>1. i \in DOMAIN list /\ 1 \in DOMAIN list /\ 1 < i
      BY <1>1, <2>2, <2>4
    <3>2. <<list[1], list[i]>> \in Less
      BY <3>1 DEF Plan, Ordered
    <3>3. Head(list) < w
      BY <1>1, <2>2, <3>2 DEF Less
    <3> QED
      BY <1>3, <1>4, <3>3, VersionsAreNumbers
  <2> QED
    BY <2>3, <2>4
<1> QED
  BY <1>3, <1>4

LEMMA PlanTail ==
    ASSUME NEW list, NEW current \in Nat, Plan(list, current), list # <<>>
    PROVE  Plan(Remaining(Tail(list), Head(list)), Head(list))
<1> DEFINE rest == Tail(list)
<1>1. list \in Seq(Versions) /\ Len(list) \in Nat /\ Len(list) >= 1 /\ Head(list) = list[1]
      /\ DOMAIN list = 1..Len(list)
  BY DEF Plan
<1>2. rest \in Seq(Versions) /\ DOMAIN rest = 1..(Len(list) - 1)
      /\ \A i \in 1..(Len(list) - 1) : rest[i] = list[i + 1]
  BY <1>1
<1> HIDE DEF rest
<1>3. \A i, j \in DOMAIN list : i < j => <<list[i], list[j]>> \in Less
  BY DEF Plan, Ordered
<1>4. \A i, j \in DOMAIN rest : i < j => <<rest[i], rest[j]>> \in Less
  <2> TAKE i, j \in DOMAIN rest
  <2>1. i + 1 \in DOMAIN list /\ j + 1 \in DOMAIN list /\ (i < j => i + 1 < j + 1)
    BY <1>1, <1>2
  <2>2. rest[i] = list[i + 1] /\ rest[j] = list[j + 1]
    BY <1>2
  <2> QED
    BY <1>3, <2>1, <2>2
<1>5. Ordered(rest, Less)
  BY <1>4 DEF Ordered
<1>6. Head(list) \in Versions /\ Head(list) > current /\ Head(list) \in Nat
  BY PlanHead, VersionsAreNumbers
<1>7. \A v \in Versions : v > Head(list) => v \in Elements(rest)
  <2> TAKE v \in Versions
  <2> HAVE v > Head(list)
  <2>1. v > current
    BY <1>6, VersionsAreNumbers
  <2>2. PICK i \in DOMAIN list : v = list[i]
    BY <2>1 DEF Plan, Elements
  <2>3. i # 1
    BY <1>1, <1>6, <2>2
  <2>4. i - 1 \in DOMAIN rest /\ (i - 1) + 1 = i
    BY <1>1, <1>2, <2>2, <2>3
  <2>5. rest[i - 1] = v
    BY <1>2, <2>2, <2>4
  <2> QED
    BY <2>4, <2>5 DEF Elements
<1>8. Plan(Remaining(rest, Head(list)), Head(list))
  BY <1>2, <1>5, <1>6, <1>7, RemainingPlan
<1> QED
  BY <1>8 DEF rest

-------------------------------------------------------------------------------
(* The schema migrations: the invariant *)

Openings == [at : {"closed", "tables", "version", "script", "set", "open"},
             current : Versions \union {0}, todo : Seq(Versions), half : 0..Halves]

\* Every script up to version n has run to its end.
UpTo(n) == \A v \in Versions : v <= n => applied[v] = Halves

\* What an opening has seen done before it goes on.  A script under way has run
\* at least as far as this opening took it, whoever else executes it.
OpenerOK(o) ==
    /\ opener[o].at \in {"version", "script", "set", "open"} => tables
    /\ opener[o].at \in {"script", "set"} =>
            UpTo(opener[o].current) /\ Plan(opener[o].todo, opener[o].current)
    /\ opener[o].at = "script" /\ opener[o].todo # <<>> =>
            opener[o].half < Halves /\ applied[Head(opener[o].todo)] >= opener[o].half
    /\ opener[o].at = "set" =>
            opener[o].todo # <<>> /\ applied[Head(opener[o].todo)] = Halves
    /\ opener[o].at = "open" => \A v \in Versions : applied[v] = Halves

MigrationIInv ==
    /\ MigrationTypeOK
    /\ given \in Seq(Versions) /\ Elements(given) = Versions
    /\ UpTo(version)
    /\ version # 0 => tables
    /\ \A o \in Openers : OpenerOK(o)

LEMMA MigrationIInvType == MigrationIInv => MigrationTypeOK
BY DEF MigrationIInv

LEMMA HalvesType == Halves \in Nat /\ Halves >= 1
BY MigrationAssumption

LEMMA MigrationTypeDef ==
    MigrationTypeOK <=> /\ given \in Seq(Versions)
                        /\ tables \in BOOLEAN
                        /\ version \in Versions \union {0}
                        /\ applied \in [Versions -> 0..Halves]
                        /\ opener \in [Openers -> Openings]
BY DEF MigrationTypeOK, Openings

LEMMA OpenerGoesOn ==
    ASSUME NEW r \in Openings,
           NEW at \in {"closed", "tables", "version", "script", "set", "open"}
    PROVE  [r EXCEPT !.at = at] \in Openings /\ [r EXCEPT !.at = at].at = at
BY DEF Openings

LEMMA ClosedType == Closed \in Openings /\ Closed.at = "closed"
BY EmptySeq, HalvesType DEF Closed, Openings

LEMMA OpenerFields ==
    ASSUME MigrationTypeOK, NEW o \in Openers
    PROVE  /\ opener[o] \in Openings
           /\ opener[o].at \in {"closed", "tables", "version", "script", "set", "open"}
           /\ opener[o].current \in Nat
           /\ opener[o].current \in Versions \union {0}
           /\ opener[o].todo \in Seq(Versions)
           /\ opener[o].half \in 0..Halves
<1>1. opener[o] \in Openings
  BY MigrationTypeDef
<1> QED
  BY <1>1, VersionsAreNumbers DEF Openings

LEMMA MigrationInitially == MigrationInit => MigrationIInv
<1> SUFFICES ASSUME MigrationInit PROVE MigrationIInv
  OBVIOUS
<1>1. given \in Seq(Versions) /\ Elements(given) = Versions
  BY MigrationAssumption, OrdersType DEF MigrationInit
<1>2. MigrationTypeOK
  <2>1. applied \in [Versions -> 0..Halves]
    BY HalvesType DEF MigrationInit
  <2>2. opener \in [Openers -> Openings]
    BY ClosedType DEF MigrationInit
  <2> QED
    BY <1>1, <2>1, <2>2, MigrationTypeDef DEF MigrationInit
<1>3. UpTo(version)
  BY VersionsAreNumbers DEF MigrationInit, UpTo
<1>4. \A o \in Openers : OpenerOK(o)
  BY DEF MigrationInit, OpenerOK, Closed
<1> QED
  BY <1>1, <1>2, <1>3, <1>4 DEF MigrationInit, MigrationIInv

\* Scripts that have run further and tables that are there keep an opening
\* right that did not move.
LEMMA OpenerKept ==
    ASSUME MigrationTypeOK, NEW p \in Openers, OpenerOK(p), opener'[p] = opener[p],
           tables => tables',
           \A v \in Versions : applied'[v] >= applied[v] /\ applied'[v] \in 0..Halves
    PROVE  OpenerOK(p)'
<1>1. \A v \in Versions : applied[v] \in 0..Halves
  BY DEF MigrationTypeOK
<1>2. \A v \in Versions : applied[v] = Halves => applied'[v] = Halves
  BY <1>1, HalvesType
<1>3. \A n : UpTo(n) => UpTo(n)'
  BY <1>2 DEF UpTo
<1>4. opener[p].todo # <<>> => Head(opener[p].todo) \in Versions
  <2>1. opener[p].todo \in Seq(Versions)
    BY OpenerFields
  <2> QED
    BY <2>1
<1>5. opener[p].half \in 0..Halves
  BY OpenerFields
<1>6. opener'[p].at \in {"version", "script", "set", "open"} => tables'
  BY Zenon DEF OpenerOK
<1>7. opener'[p].at \in {"script", "set"} =>
            UpTo(opener[p].current)' /\ Plan(opener'[p].todo, opener'[p].current)
  BY <1>3 DEF OpenerOK, UpTo
<1>8. opener'[p].at = "script" /\ opener'[p].todo # <<>> =>
            opener'[p].half < Halves /\ applied'[Head(opener'[p].todo)] >= opener'[p].half
  BY <1>1, <1>4, <1>5, HalvesType DEF OpenerOK
<1>9. opener'[p].at = "set" =>
            opener'[p].todo # <<>> /\ applied'[Head(opener'[p].todo)] = Halves
  BY <1>2, <1>4 DEF OpenerOK
<1>10. opener'[p].at = "open" => \A v \in Versions : applied'[v] = Halves
  BY <1>2 DEF OpenerOK
<1> QED
  BY <1>6, <1>7, <1>8, <1>9, <1>10 DEF OpenerOK

\* A step of the opening o that leaves the store as it is.
LEMMA OnlyTheOpening ==
    ASSUME MigrationIInv, NEW o \in Openers, NEW next,
           opener' = [opener EXCEPT ![o] = next],
           next \in Openings,
           UNCHANGED <<given, tables, version, applied>>,
           OpenerOK(o)'
    PROVE  MigrationIInv'
<1>1. MigrationTypeOK'
  BY MigrationTypeDef, MigrationIInvType DEF MigrationTypeOK, Openings
<1>2. \A p \in Openers : p # o => opener'[p] = opener[p]
  BY MigrationTypeDef, MigrationIInvType
<1>3. \A v \in Versions : applied'[v] >= applied[v] /\ applied'[v] \in 0..Halves
  BY HalvesType DEF MigrationIInv, MigrationTypeOK
<1>4. \A p \in Openers : OpenerOK(p)'
  BY <1>2, <1>3, OpenerKept, MigrationIInvType DEF MigrationIInv
<1>5. UpTo(version)'
  BY DEF MigrationIInv, UpTo
<1> QED
  BY <1>1, <1>4, <1>5 DEF MigrationIInv

-------------------------------------------------------------------------------
(* The schema migrations: the steps *)

\* Only an opening at its start or at its end asks nothing of the scripts.
LEMMA OpenStoreStep ==
    ASSUME MigrationIInv, NEW o \in Openers, OpenStore(o)
    PROVE  MigrationIInv'
<1> DEFINE next == [opener[o] EXCEPT !.at = "tables"]
<1>1. opener' = [opener EXCEPT ![o] = next]
  BY DEF OpenStore, Goes
<1>2. next.at = "tables" /\ next \in Openings
  BY OpenerFields, MigrationIInvType, OpenerGoesOn
<1> HIDE DEF next
<1>3. opener'[o] = next
  BY <1>1, MigrationTypeDef, MigrationIInvType
<1>4. OpenerOK(o)'
  BY <1>2, <1>3 DEF OpenerOK
<1> QED
  BY <1>1, <1>2, <1>4, OnlyTheOpening DEF OpenStore

LEMMA InitTablesStep ==
    ASSUME MigrationIInv, NEW o \in Openers, InitTables(o)
    PROVE  MigrationIInv'
<1> DEFINE next == [opener[o] EXCEPT !.at = "version"]
<1>1. opener' = [opener EXCEPT ![o] = next] /\ tables' = TRUE
  BY DEF InitTables, Goes
<1>2. next.at = "version" /\ next \in Openings
  BY OpenerFields, MigrationIInvType, OpenerGoesOn
<1> HIDE DEF next
<1>3. opener'[o] = next /\ \A p \in Openers : p # o => opener'[p] = opener[p]
  BY <1>1, MigrationTypeDef, MigrationIInvType
<1>4. OpenerOK(o)'
  BY <1>1, <1>2, <1>3 DEF OpenerOK
<1>5. \A v \in Versions : applied'[v] >= applied[v] /\ applied'[v] \in 0..Halves
  BY HalvesType DEF InitTables, MigrationIInv, MigrationTypeOK
<1>6. \A p \in Openers : OpenerOK(p)'
  BY <1>1, <1>3, <1>4, <1>5, OpenerKept, MigrationIInvType DEF MigrationIInv
<1>7. MigrationTypeOK'
  <2>1. UNCHANGED <<given, version, applied>>
    BY DEF InitTables
  <2>2. opener' \in [Openers -> Openings]
    BY <1>1, <1>2, MigrationTypeDef, MigrationIInvType
  <2> QED
    BY <1>1, <2>1, <2>2, MigrationTypeDef, MigrationIInvType DEF MigrationTypeOK, Openings
<1>8. UpTo(version)'
  BY DEF InitTables, MigrationIInv, UpTo
<1>9. given' \in Seq(Versions) /\ Elements(given') = Versions
  BY DEF InitTables, MigrationIInv
<1> QED
  BY <1>1, <1>6, <1>7, <1>8, <1>9 DEF MigrationIInv

\* The row is read once, and what it says stays true of the scripts.
LEMMA ReadVersionStep ==
    ASSUME MigrationIInv, NEW o \in Openers, ReadVersion(o)
    PROVE  MigrationIInv'
<1> DEFINE todo == Remaining(Sorted(given), version)
           next == [at |-> "script", current |-> version, half |-> 0, todo |-> todo]
<1>1. version \in Nat /\ version \in Versions \union {0}
  BY VersionsAreNumbers DEF MigrationIInv, MigrationTypeOK
<1>2. Plan(Sorted(given), 0)
  BY SortedPlan DEF MigrationIInv
<1>3. \A v \in Versions : v > version => v \in Elements(Sorted(given))
  BY <1>2, VersionsAreNumbers DEF Plan
<1>4. Plan(todo, version)
  BY <1>1, <1>2, <1>3, RemainingPlan DEF Plan
<1> HIDE DEF todo
<1>5. todo \in Seq(Versions)
  BY <1>4 DEF Plan
<1>6. opener' = [opener EXCEPT ![o] = next]
  BY DEF ReadVersion, todo
<1>7. /\ next \in Openings
      /\ next.at = "script" /\ next.current = version /\ next.half = 0 /\ next.todo = todo
  BY <1>1, <1>5, HalvesType DEF Openings
<1> HIDE DEF next
<1>8. opener'[o] = next
  BY <1>6, MigrationTypeDef, MigrationIInvType
<1>9. todo # <<>> => applied[Head(todo)] >= 0
  <2>1. todo # <<>> => Head(todo) \in Versions
    BY <1>5
  <2> QED
    BY <2>1, HalvesType DEF MigrationIInv, MigrationTypeOK
<1>10. tables
  BY Zenon DEF ReadVersion, MigrationIInv, OpenerOK
<1>11. UpTo(version)
  BY DEF MigrationIInv
<1>12. UNCHANGED <<given, tables, version, applied>>
  BY DEF ReadVersion
<1>13. OpenerOK(o)'
  <2>1. tables'
    BY <1>10, <1>12
  <2>2. /\ opener'[o].at = "script" /\ opener'[o].current = version
        /\ opener'[o].half = 0 /\ opener'[o].todo = todo
    BY <1>7, <1>8
  <2>3. todo # <<>> => 0 < Halves /\ applied'[Head(todo)] >= 0
    BY <1>9, <1>12, HalvesType
  <2>4. \A v \in Versions : v <= opener'[o].current => applied'[v] = Halves
    BY <1>11, <1>12, <2>2 DEF UpTo
  <2>5. Plan(opener'[o].todo, opener'[o].current)
    BY <1>4, <2>2
  <2>6. opener'[o].todo # <<>> => /\ opener'[o].half < Halves
                                  /\ applied'[Head(opener'[o].todo)] >= opener'[o].half
    BY <2>2, <2>3
  <2> QED
    BY <2>1, <2>2, <2>4, <2>5, <2>6 DEF OpenerOK, UpTo
<1> QED
  BY <1>6, <1>7, <1>12, <1>13, OnlyTheOpening

LEMMA OpeningFailsStep ==
    ASSUME MigrationIInv, NEW o \in Openers, OpeningFails(o)
    PROVE  MigrationIInv'
<1>1. opener' = [opener EXCEPT ![o] = Closed] /\ UNCHANGED <<given, tables, version, applied>>
  BY DEF OpeningFails, VersionAfterError
<1>2. opener'[o].at = "closed"
  BY <1>1, ClosedType, MigrationTypeDef, MigrationIInvType
<1>3. OpenerOK(o)'
  BY <1>2 DEF OpenerOK
<1> QED
  BY <1>1, <1>3, ClosedType, OnlyTheOpening

LEMMA CloseStoreStep ==
    ASSUME MigrationIInv, NEW o \in Openers, CloseStore(o)
    PROVE  MigrationIInv'
<1>1. opener' = [opener EXCEPT ![o] = Closed] /\ UNCHANGED <<given, tables, version, applied>>
  BY DEF CloseStore
<1>2. opener'[o].at = "closed"
  BY <1>1, ClosedType, MigrationTypeDef, MigrationIInvType
<1>3. OpenerOK(o)'
  BY <1>2 DEF OpenerOK
<1> QED
  BY <1>1, <1>3, ClosedType, OnlyTheOpening

\* Nothing is left of the plan: every script has run to its end.
LEMMA OpenedStep ==
    ASSUME MigrationIInv, NEW o \in Openers, Opened(o)
    PROVE  MigrationIInv'
<1> DEFINE next == [Closed EXCEPT !.at = "open"]
<1>1. opener' = [opener EXCEPT ![o] = next] /\ UNCHANGED <<given, tables, version, applied>>
  BY DEF Opened
<1>2. next \in Openings /\ next.at = "open"
  BY ClosedType, OpenerGoesOn
<1> HIDE DEF next
<1>3. opener'[o] = next
  BY <1>1, MigrationTypeDef, MigrationIInvType
<1>4. tables
  BY Zenon DEF Opened, MigrationIInv, OpenerOK
<1>5. \A v \in Versions : applied[v] = Halves
  <2>1. /\ UpTo(opener[o].current) /\ Plan(opener[o].todo, opener[o].current)
        /\ opener[o].todo = <<>> /\ opener[o].current \in Nat
    BY OpenerFields, MigrationIInvType DEF Opened, MigrationIInv, OpenerOK
  <2>2. {v \in Versions : v > opener[o].current} = {}
    BY <2>1, ElementsEmpty DEF Plan
  <2>3. \A v \in Versions : v <= opener[o].current
    BY <2>1, <2>2, VersionsAreNumbers
  <2> QED
    BY <2>1, <2>3 DEF UpTo
<1>6. tables' /\ \A v \in Versions : applied'[v] = Halves
  BY <1>1, <1>4, <1>5
<1>7. OpenerOK(o)'
  BY <1>2, <1>3, <1>6 DEF OpenerOK
<1> QED
  BY <1>1, <1>2, <1>7, OnlyTheOpening

\* A script only ever gets further, so what the others have seen of it stands.
LEMMA RunStatementStep ==
    ASSUME MigrationIInv, NEW o \in Openers, RunStatement(o)
    PROVE  MigrationIInv'
<1> DEFINE v == Head(opener[o].todo)
           half == opener[o].half + 1
           at == IF half = Halves THEN "set" ELSE "script"
           next == [[opener[o] EXCEPT !.half = half] EXCEPT !.at = at]
<1>1. /\ opener[o].at = "script" /\ opener[o].todo # <<>>
      /\ applied' = [applied EXCEPT ![v] = IF half > @ THEN half ELSE @]
      /\ opener' = [opener EXCEPT ![o] = next]
      /\ UNCHANGED <<given, tables, version>>
  <2>1. opener' = [opener EXCEPT ![o].half = half, ![o].at = at]
    BY DEF RunStatement
  <2>2. opener' = [opener EXCEPT ![o] = next]
    BY <2>1, MigrationTypeDef, MigrationIInvType
  <2> QED
    BY <2>2 DEF RunStatement
<1>2. /\ opener[o].todo \in Seq(Versions) /\ v \in Versions
      /\ opener[o].half \in 0..Halves /\ opener[o] \in Openings
  BY <1>1, OpenerFields, MigrationIInvType
<1>3. opener[o].half < Halves /\ applied[v] >= opener[o].half
  BY <1>1 DEF MigrationIInv, OpenerOK
<1>4. half \in 0..Halves /\ half \in Nat /\ (half # Halves => half < Halves)
  BY <1>2, <1>3, HalvesType
<1>5. /\ next \in Openings /\ next.at = at /\ next.half = half
      /\ next.todo = opener[o].todo /\ next.current = opener[o].current
  BY <1>2, <1>4 DEF Openings
<1> HIDE DEF next
<1>6. \A w \in Versions : applied[w] \in 0..Halves
  BY MigrationTypeDef, MigrationIInvType
<1>7. applied' \in [Versions -> 0..Halves]
  BY <1>1, <1>2, <1>4, MigrationTypeDef, MigrationIInvType
<1>8. \A w \in Versions : applied'[w] >= applied[w] /\ applied'[w] \in 0..Halves
  <2> TAKE w \in Versions
  <2>1. CASE w = v
    <3>1. applied'[v] = IF half > applied[v] THEN half ELSE applied[v]
      BY <1>1, <1>2, MigrationTypeDef, MigrationIInvType
    <3> QED
      BY <1>2, <1>4, <1>6, <2>1, <3>1, HalvesType
  <2>2. CASE w # v
    <3>1. applied'[w] = applied[w]
      BY <1>1, <2>2, MigrationTypeDef, MigrationIInvType
    <3> QED
      BY <1>6, <3>1, HalvesType
  <2> QED
    BY <2>1, <2>2
<1>9. applied'[v] >= half
  <2>1. applied'[v] = IF half > applied[v] THEN half ELSE applied[v]
    BY <1>1, <1>2, MigrationTypeDef, MigrationIInvType
  <2>2. applied[v] \in Nat
    BY <1>2, <1>6
  <2> QED
    BY <1>4, <2>1, <2>2
<1>10. half = Halves => applied'[v] = Halves
  BY <1>2, <1>8, <1>9, HalvesType
<1>11. opener'[o] = next /\ \A p \in Openers : p # o => opener'[p] = opener[p]
  BY <1>1, MigrationTypeDef, MigrationIInvType
<1>12. \A w \in Versions : applied[w] = Halves => applied'[w] = Halves
  BY <1>6, <1>8, HalvesType
<1>13. OpenerOK(o)'
  <2>1. /\ opener'[o].at = at /\ opener'[o].half = half
        /\ opener'[o].todo = opener[o].todo /\ opener'[o].current = opener[o].current
    BY <1>5, <1>11
  <2>2. tables'
    BY <1>1, Zenon DEF MigrationIInv, OpenerOK
  <2>3. UpTo(opener[o].current) /\ Plan(opener[o].todo, opener[o].current)
    BY <1>1 DEF MigrationIInv, OpenerOK
  <2>4. \A w \in Versions : w <= opener'[o].current => applied'[w] = Halves
    BY <1>12, <2>1, <2>3 DEF UpTo
  <2>5. Plan(opener'[o].todo, opener'[o].current)
    BY <2>1, <2>3
  <2>6. at \in {"script", "set"} /\ (at = "script" => half < Halves)
        /\ (at = "set" => half = Halves)
    BY <1>4
  <2>7. opener'[o].at = "script" => /\ opener'[o].half < Halves
                                    /\ applied'[Head(opener'[o].todo)] >= opener'[o].half
    BY <1>9, <2>1, <2>6
  <2>8. opener'[o].at = "set" => opener'[o].todo # <<>> /\ applied'[Head(opener'[o].todo)] = Halves
    BY <1>1, <1>10, <2>1, <2>6
  <2> HIDE DEF at, half, v
  <2> QED
    BY <2>1, <2>2, <2>4, <2>5, <2>6, <2>7, <2>8 DEF OpenerOK, UpTo
<1>14. \A p \in Openers : OpenerOK(p)'
  BY <1>1, <1>8, <1>11, <1>13, OpenerKept, MigrationIInvType DEF MigrationIInv
<1>15. MigrationTypeOK'
  <2>1. opener' \in [Openers -> Openings]
    BY <1>1, <1>5, MigrationTypeDef, MigrationIInvType
  <2> QED
    BY <1>1, <1>7, <2>1, MigrationTypeDef, MigrationIInvType DEF MigrationTypeOK, Openings
<1>16. UpTo(version)'
  BY <1>1, <1>12 DEF MigrationIInv, UpTo
<1> QED
  BY <1>1, <1>14, <1>15, <1>16 DEF MigrationIInv

\* The row may go back, to a version whose scripts have all run: the scripts up
\* to the one that just ended are those this opening found applied, and it.
LEMMA SetVersionStep ==
    ASSUME MigrationIInv, NEW o \in Openers, SetVersion(o)
    PROVE  MigrationIInv'
<1> DEFINE todo == opener[o].todo
           v == Head(todo)
           rest == Remaining(Tail(todo), v)
           next == [at |-> "script", current |-> v, half |-> 0, todo |-> rest]
<1>1. /\ opener[o].at = "set" /\ version' = v
      /\ opener' = [opener EXCEPT ![o] = next]
      /\ UNCHANGED <<given, tables, applied>>
  BY DEF SetVersion
<1>2. /\ todo # <<>> /\ applied[v] = Halves
      /\ UpTo(opener[o].current) /\ Plan(todo, opener[o].current)
  BY <1>1 DEF MigrationIInv, OpenerOK
<1>3. opener[o].current \in Nat
  BY OpenerFields, MigrationIInvType
<1>4. /\ v \in Versions /\ v > opener[o].current /\ v \in Nat /\ v # 0
      /\ \A w \in Versions : w > opener[o].current /\ w <= v => w = v
  BY <1>2, <1>3, PlanHead, VersionsAreNumbers
<1>5. Plan(rest, v)
  BY <1>2, <1>3, PlanTail
<1>6. UpTo(v)
  <2> SUFFICES ASSUME NEW w \in Versions, w <= v
               PROVE  applied[w] = Halves
    BY DEF UpTo
  <2>1. CASE w <= opener[o].current
    BY <1>2, <2>1 DEF UpTo
  <2>2. CASE ~(w <= opener[o].current)
    <3>1. w > opener[o].current
      BY <1>3, <2>2, VersionsAreNumbers
    <3>2. w = v
      BY <1>4, <3>1
    <3> QED
      BY <1>2, <3>2
  <2> QED
    BY <2>1, <2>2
<1>7. tables
  BY <1>1, Zenon DEF MigrationIInv, OpenerOK
<1> HIDE DEF rest, v
<1>8. rest \in Seq(Versions)
  BY <1>5 DEF Plan
<1>9. /\ next \in Openings /\ next.at = "script" /\ next.current = v
      /\ next.half = 0 /\ next.todo = rest
  BY <1>4, <1>8, HalvesType DEF Openings
<1> HIDE DEF next
<1>10. opener'[o] = next /\ \A p \in Openers : p # o => opener'[p] = opener[p]
  BY <1>1, MigrationTypeDef, MigrationIInvType
<1>11. \A w \in Versions : applied'[w] >= applied[w] /\ applied'[w] \in 0..Halves
  BY <1>1, HalvesType, MigrationTypeDef, MigrationIInvType
<1>12. OpenerOK(o)'
  <2>1. /\ opener'[o].at = "script" /\ opener'[o].half = 0
        /\ opener'[o].todo = rest /\ opener'[o].current = v
    BY <1>9, <1>10
  <2>2. tables'
    BY <1>1, <1>7
  <2>3. \A w \in Versions : w <= opener'[o].current => applied'[w] = Halves
    BY <1>1, <1>6, <2>1 DEF UpTo
  <2>4. Plan(opener'[o].todo, opener'[o].current)
    BY <1>5, <2>1
  <2>5. opener'[o].todo # <<>> => Head(opener'[o].todo) \in Versions
    BY <1>8, <2>1
  <2>6. opener'[o].todo # <<>> => /\ opener'[o].half < Halves
                                  /\ applied'[Head(opener'[o].todo)] >= opener'[o].half
    BY <1>11, <2>1, <2>5, HalvesType
  <2> QED
    BY <2>1, <2>2, <2>3, <2>4, <2>6 DEF OpenerOK, UpTo
<1>13. \A p \in Openers : OpenerOK(p)'
  BY <1>1, <1>10, <1>11, <1>12, OpenerKept, MigrationIInvType DEF MigrationIInv
<1>14. MigrationTypeOK'
  <2>1. opener' \in [Openers -> Openings]
    BY <1>1, <1>9, MigrationTypeDef, MigrationIInvType
  <2> QED
    BY <1>1, <1>4, <2>1, MigrationTypeDef, MigrationIInvType DEF MigrationTypeOK, Openings
<1>15. UpTo(version)'
  BY <1>1, <1>6 DEF UpTo
<1> QED
  BY <1>1, <1>7, <1>13, <1>14, <1>15 DEF MigrationIInv

LEMMA MigrationStep == MigrationIInv /\ [MigrationNext]_migrationVars => MigrationIInv'
<1> SUFFICES ASSUME MigrationIInv, [MigrationNext]_migrationVars
             PROVE  MigrationIInv'
  OBVIOUS
<1>1. CASE UNCHANGED migrationVars
  <2>1. \A o \in Openers : OpenerOK(o)'
    BY <1>1 DEF migrationVars, MigrationIInv, OpenerOK, UpTo
  <2>2. MigrationTypeOK' /\ UpTo(version)'
    BY <1>1 DEF migrationVars, MigrationIInv, MigrationTypeOK, UpTo
  <2> QED
    BY <1>1, <2>1, <2>2 DEF migrationVars, MigrationIInv
<1>2. CASE MigrationNext
  <2>1. PICK o \in Openers :
            \/ OpenStore(o) \/ InitTables(o) \/ ReadVersion(o) \/ RunStatement(o)
            \/ SetVersion(o) \/ OpeningFails(o) \/ Opened(o) \/ CloseStore(o)
    BY <1>2, Zenon DEF MigrationNext
  <2> QED
    BY <2>1, OpenStoreStep, InitTablesStep, ReadVersionStep, RunStatementStep,
       SetVersionStep, OpeningFailsStep, OpenedStep, CloseStoreStep
<1> QED
  BY <1>1, <1>2

\* The invariant is one of every behaviour.
LEMMA MigrationsHold == MigrationSpec => []MigrationIInv
<1> QED
  BY MigrationInitially, MigrationStep, PTL DEF MigrationSpec

\* The version that is written down is never ahead of the scripts, whichever
\* openings run at the same time, set the row back or die between two statements.
THEOREM VersionsAreApplied == MigrationSpec => []VersionMeansApplied
<1>1. MigrationIInv => VersionMeansApplied
  <2> SUFFICES ASSUME MigrationIInv, NEW v \in Versions, v <= version
               PROVE  tables /\ applied[v] = Halves
    BY DEF VersionMeansApplied
  <2>1. version # 0
    <3>1. version \in Nat
      BY VersionsAreNumbers, MigrationIInvType, MigrationTypeDef
    <3> QED
      BY <3>1, VersionsAreNumbers
  <2>2. tables
    BY <2>1, Zenon DEF MigrationIInv
  <2>3. applied[v] = Halves
    BY DEF MigrationIInv, UpTo
  <2> QED
    BY <2>2, <2>3
<1> QED
  BY <1>1, MigrationsHold, PTL

\* Who gets a store gets one whose tables are there and whose scripts have all
\* run, however the store lists its migrations.
THEOREM OpenStoresAreComplete == MigrationSpec => []OpenMeansComplete
<1>1. MigrationIInv => OpenMeansComplete
  <2> SUFFICES ASSUME MigrationIInv, NEW o \in Openers, opener[o].at = "open"
               PROVE  tables /\ \A v \in Versions : applied[v] = Halves
    BY Zenon DEF OpenMeansComplete
  <2>1. OpenerOK(o)
    BY Zenon DEF MigrationIInv
  <2>2. tables
    BY <2>1, Zenon DEF OpenerOK
  <2>3. \A v \in Versions : applied[v] = Halves
    BY <2>1 DEF OpenerOK
  <2> QED
    BY <2>2, <2>3
<1> QED
  BY <1>1, MigrationsHold, PTL

\* The state of the stores keeps its type.
THEOREM MigrationsWellTyped == MigrationSpec => []MigrationTypeOK
<1> QED
  BY MigrationIInvType, MigrationsHold, PTL

===============================================================================

-------------------------------- MODULE Lifespan --------------------------------
(***************************************************************************)
(* The life of the process: the lifespan of main.py, which starts the      *)
(* background tasks of the settings, serves, and cleans up.  The cron      *)
(* scheduler it starts and stops is Scheduler.tla.                         *)
(*                                                                         *)
(* Nothing is awaited during start-up, so no background task runs before   *)
(* the server serves; the clean-up of MCP and of the event bus is awaited. *)
(***************************************************************************)
EXTENDS Scheduler, Sequences

CONSTANT AutoBackup     \* the task the lifespan registers itself

ASSUME LifespanAssumption == AutoBackup \in TaskNames

VARIABLES
    settings,   \* the switches of config/settings.py
    phase,      \* what the lifespan does next
    imported,   \* the local name _asyncio of lifespan is bound
    background, \* the tasks created so far, apart from the scheduler's
    plugins,    \* PluginLoader: "none", "loaded", "unloaded"
    cleanups,   \* the cleanups tried, in order
    faulted     \* observer: something outside the process failed

lifeVars == <<settings, phase, imported, background, plugins, cleanups, faulted>>

allLifeVars == <<lifeVars, cronVars>>

-------------------------------------------------------------------------------
(* State *)

Switches == [cron : BOOLEAN, cleaner : BOOLEAN, hotReload : BOOLEAN,
             backup : BOOLEAN, plugins : BOOLEAN, redis : BOOLEAN]

Cleanups == <<"mcp", "events", "sqlite", "scheduler", "plugins">>

Phases == {"prepare", "cron", "cleaner", "retry", "hot reload", "backup", "redis",
           "serving", "stopped", "failed", "exited"}
            \union {Cleanups[i] : i \in DOMAIN Cleanups}

\* A switch of the settings is off: go on with the next step.
Skip(next) ==
    /\ phase' = next
    /\ UNCHANGED <<settings, imported, background, plugins, cleanups, faulted>>
    /\ UNCHANGED cronVars

\* Start-up raises: the server does not start.
StartupRaises ==
    /\ phase' = "failed"
    /\ UNCHANGED <<settings, imported, background, plugins, cleanups>>
    /\ UNCHANGED cronVars

LifeInit ==
    /\ settings \in Switches
    /\ phase = "prepare"
    /\ imported = FALSE
    /\ background = {}
    /\ plugins = "none"
    /\ cleanups = <<>>
    /\ faulted = FALSE
    /\ CronInit

-------------------------------------------------------------------------------
(* Start-up *)

\* Directories, validation, providers, routers, tools and plugins.  Directories
\* that cannot be made or listed and databases that cannot be opened end it; a
\* provider or a plugin that cannot be loaded is left out.
Prepare ==
    /\ phase = "prepare"
    /\ \/ /\ phase' = "cron"
          /\ plugins' = IF settings.plugins THEN "loaded" ELSE "none"
          /\ UNCHANGED <<settings, imported, background, cleanups, faulted>>
          /\ UNCHANGED cronVars
       \/ StartupRaises /\ faulted' = TRUE

\* The import that binds _asyncio is inside the `if': a local name of lifespan
\* in all of it, bound by this branch only.
StartScheduler ==
    /\ phase = "cron"
    /\ IF settings.cron
       THEN /\ phase' = "cleaner"
            /\ imported' = TRUE
            /\ CreateLoop
            /\ UNCHANGED <<settings, background, plugins, cleanups, faulted>>
       ELSE Skip("cleaner")

\* Mutant: a name that is not bound is passed over.
CreateTask_Skips(name, next) ==
    /\ phase' = next
    /\ background' = IF imported THEN background \union {name} ELSE background
    /\ UNCHANGED <<settings, imported, plugins, cleanups, faulted>>
    /\ UNCHANGED cronVars

\* _asyncio.create_task: an UnboundLocalError when the name is not bound.
CreateTask(name, next) ==
    IF imported
    THEN /\ phase' = next
         /\ background' = background \union {name}
         /\ UNCHANGED <<settings, imported, plugins, cleanups, faulted>>
         /\ UNCHANGED cronVars
    ELSE StartupRaises /\ UNCHANGED faulted

StartCleaner ==
    /\ phase = "cleaner"
    /\ IF settings.cleaner THEN CreateTask("cleaner", "retry") ELSE Skip("retry")

\* RetryQueue opens its database first.
StartRetryLoop ==
    /\ phase = "retry"
    /\ \/ CreateTask("retry", "hot reload")
       \/ StartupRaises /\ faulted' = TRUE

StartHotReload ==
    /\ phase = "hot reload"
    /\ IF settings.hotReload THEN CreateTask("hot reload", "backup") ELSE Skip("backup")

ScheduleBackup ==
    /\ phase = "backup"
    /\ IF settings.backup /\ settings.cron
       THEN /\ phase' = "redis"
            /\ AddTask(AutoBackup)
            /\ UNCHANGED <<settings, imported, background, plugins, cleanups, faulted>>
       ELSE Skip("redis")

\* bus.start creates the listener's task; what it raises is logged.
StartListener ==
    /\ phase = "redis"
    /\ \/ Skip("serving")
       \/ /\ settings.redis
          /\ phase' = "serving"
          /\ background' = background \union {"listener"}
          /\ UNCHANGED <<settings, imported, plugins, cleanups, faulted>>
          /\ UNCHANGED cronVars

-------------------------------------------------------------------------------
(* Serving and shutdown *)

\* The loop runs whenever lifespan is suspended or over, requests while it serves.
Suspended == phase \in {"serving", "mcp", "events", "stopped"}

LoopRuns ==
    /\ Suspended
    /\ LoopStep
    /\ UNCHANGED lifeVars

CronRequest ==
    /\ phase = "serving"
    /\ settings.cron        \* without it the router is not there
    /\ Request
    /\ UNCHANGED lifeVars

\* The event loop is first come, first served: the scheduler's coroutine has
\* started when a signal is handled.
Stop ==
    /\ phase = "serving"
    /\ loop # "unstarted"
    /\ Skip(Cleanups[1])

\* Mutant: the clean-up of the event bus is left out.
AfterCleanup_NoEvents(i) ==
    IF i = Len(Cleanups) THEN "stopped" ELSE Cleanups[IF i = 1 THEN 3 ELSE i + 1]

AfterCleanup(i) == IF i = Len(Cleanups) THEN "stopped" ELSE Cleanups[i + 1]

\* Mutant: a cleanup that raises ends the shutdown.
AfterFailed_Raises(i) == "stopped"

\* _safe_cleanup logs what a cleanup raises and returns.
AfterFailed(i) == AfterCleanup(i)

\* unload_all: each is deactivated, what that raises is swallowed, and all of
\* them are dropped.
Unloaded == IF plugins = "loaded" THEN "unloaded" ELSE plugins

\* What the cleanups do to the tasks and plugins of this module: the scheduler
\* is stopped, the plugins are unloaded, and the Redis listener is cancelled.
CleanedUp(name) ==
    /\ IF name = "scheduler" /\ running THEN StopLoop ELSE UNCHANGED cronVars
    /\ plugins' = IF name = "plugins" THEN Unloaded ELSE plugins
    /\ background' = IF name = "events" THEN background \ {"listener"} ELSE background

\* The clean-ups of MCP, events and SQLite may raise; those of the scheduler
\* and the plugins have nothing that could.
Cleanup(i) ==
    /\ phase = Cleanups[i]
    /\ cleanups' = Append(cleanups, Cleanups[i])
    /\ \/ /\ phase' = AfterCleanup(i)
          /\ CleanedUp(Cleanups[i])
       \/ /\ Cleanups[i] \in {"mcp", "events", "sqlite"}
          /\ phase' = AfterFailed(i)
          /\ UNCHANGED <<background, plugins>>
          /\ UNCHANGED cronVars
    /\ UNCHANGED <<settings, imported, faulted>>

\* The event loop is closed: it cancels the tasks that are left.
Exit ==
    /\ phase \in {"stopped", "failed"}
    /\ phase' = "exited"
    /\ background' = {}
    /\ loop' = IF loop \in {"absent", "dead"} THEN loop ELSE "ended"
    /\ UNCHANGED <<settings, imported, plugins, cleanups, faulted, tasks, running, tick, changed>>

LifeNext ==
    \/ Prepare
    \/ StartScheduler
    \/ StartCleaner
    \/ StartRetryLoop
    \/ StartHotReload
    \/ ScheduleBackup
    \/ StartListener
    \/ LoopRuns
    \/ CronRequest
    \/ Stop
    \/ \E i \in DOMAIN Cleanups : Cleanup(i)
    \/ Exit

\* The cleanups end, and the loop goes on whenever it may.
LifeFairness ==
    /\ WF_allLifeVars(LoopRuns)
    /\ WF_allLifeVars(\E i \in DOMAIN Cleanups : Cleanup(i))

LifeSpec == LifeInit /\ [][LifeNext]_allLifeVars /\ LifeFairness

-------------------------------------------------------------------------------
(* Properties *)

LifeTypeOK ==
    /\ CronTypeOK
    /\ settings \in Switches
    /\ phase \in Phases
    /\ imported \in BOOLEAN
    /\ background \subseteq {"cleaner", "retry", "hot reload", "listener"}
    /\ plugins \in {"none", "loaded", "unloaded"}
    /\ \A i \in DOMAIN cleanups : cleanups[i] = Cleanups[i]
    /\ faulted \in BOOLEAN

\* However many cleanups raise, a shutdown tries them all: the scheduler's
\* loop is told to stop and no plugin stays loaded.
ShutdownIsComplete ==
    phase = "stopped" => cleanups = Cleanups /\ ~running /\ plugins # "loaded"

\* A server starts to serve with every task it creates for its settings itself:
\* a start-up that could not create one of them has failed instead.  The Redis
\* listener alone may be missing: what bus.start raises is logged.
ServesWithItsTasks ==
    [][phase # "serving" /\ phase' = "serving" =>
        /\ "retry" \in background'
        /\ settings.cleaner => "cleaner" \in background'
        /\ settings.hotReload => "hot reload" \in background'
        /\ settings.cron => loop' # "absent"
        /\ settings.cron /\ settings.backup => AutoBackup \in tasks']_allLifeVars

\* Start-up fails only when something outside the process does.
StartupSucceeds == phase = "failed" => faulted

===============================================================================

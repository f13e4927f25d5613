-------------------------------- MODULE Scheduler --------------------------------
(***************************************************************************)
(* The cron scheduler (shared/scheduler.py), the requests that register    *)
(* and remove tasks (shared/scheduler_router.py).  Lifespan.tla is the     *)
(* process that starts and stops its loop.                                 *)
(***************************************************************************)
EXTENDS Naturals, FiniteSets

CONSTANT TaskNames      \* the names tasks are registered under

ASSUME SchedulerAssumption == IsFiniteSet(TaskNames)

VARIABLES
    tasks,      \* the names in CronScheduler._tasks
    running,    \* CronScheduler._running
    loop,       \* the coroutine start(): where it is
    tick,       \* the iteration over _tasks under way
    changed     \* _tasks was changed in size while tick was under way

cronVars == <<tasks, running, loop, tick, changed>>

-------------------------------------------------------------------------------
(* State.  "between" is a step of the loop itself, "action" waits for a      *)
(* task's action, "asleep" for asyncio.sleep.  Of the iterator over the      *)
(* dictionary: `size' is what it was made for, `left' what it expects to     *)
(* return yet, `seen' what it has returned.                                  *)

LoopStates == {"absent", "unstarted", "between", "action", "asleep", "ended", "dead"}

NoTick == [size |-> 0, left |-> 0, seen |-> {}]

NewTick == [size |-> Cardinality(tasks), left |-> Cardinality(tasks), seen |-> {}]

CronInit ==
    /\ tasks = {}
    /\ running = FALSE
    /\ loop = "absent"
    /\ tick = NoTick
    /\ changed = FALSE

-------------------------------------------------------------------------------
(* Requests.  The cron expression is stored and read by nothing.             *)

\* An iterator over _tasks is open.
InTick == loop \in {"between", "action"}

Resized == Cardinality(tasks') # Cardinality(tasks)

Noted == changed' = (changed \/ (InTick /\ Resized))

\* add_task: a name that is known is replaced, which leaves the size alone.
AddTask(n) ==
    /\ tasks' = tasks \union {n}
    /\ Noted
    /\ UNCHANGED <<running, loop, tick>>

RemoveTask(n) ==
    /\ n \in tasks
    /\ tasks' = tasks \ {n}
    /\ Noted
    /\ UNCHANGED <<running, loop, tick>>

-------------------------------------------------------------------------------
(* The loop *)

\* create_task(get_scheduler().start()): a coroutine that has not run yet.
CreateLoop ==
    /\ loop = "absent"
    /\ loop' = "unstarted"
    /\ UNCHANGED <<tasks, running, tick, changed>>

\* start: the first tick follows at once.
StartLoop ==
    /\ loop = "unstarted"
    /\ running' = TRUE
    /\ loop' = "between"
    /\ tick' = NewTick
    /\ UNCHANGED <<tasks, changed>>

\* stop, at shutdown: the loop ends after the tick and the sleep it is in.
StopLoop ==
    /\ running
    /\ running' = FALSE
    /\ UNCHANGED <<tasks, loop, tick, changed>>

\* The iterator finds another size than it was made for, or one more element
\* than it expected, and raises outside the try: the loop's task is dead, and
\* running is still TRUE.
TickRaises ==
    /\ loop = "between"
    /\ Cardinality(tasks) # tick.size \/ (changed /\ tick.left = 0)
    /\ loop' = "dead"
    /\ UNCHANGED <<tasks, running, tick, changed>>

\* The next task, whatever its cron expression and the time: its action is
\* awaited.  One that was removed and added again may come up twice.
FireTask(n) ==
    /\ loop = "between"
    /\ Cardinality(tasks) = tick.size
    /\ tick.left > 0
    /\ n \in tasks
    /\ n \notin tick.seen \/ changed
    /\ loop' = "action"
    /\ tick' = [tick EXCEPT !.left = @ - 1, !.seen = @ \union {n}]
    /\ UNCHANGED <<tasks, running, changed>>

\* Mutant: an action that fails ends the loop.
AfterAction_Raises == {"between", "dead"}

\* What an action raises is swallowed: the tick goes on either way.
AfterAction == {"between"}

ActionEnds ==
    /\ loop = "action"
    /\ loop' \in AfterAction
    /\ UNCHANGED <<tasks, running, tick, changed>>

\* Every task has been returned.  When tasks were removed and others added so
\* that the size is the same, the iterator may miss the new ones.
TickOver == tick.left = 0 \/ changed

EndTick ==
    /\ loop = "between"
    /\ Cardinality(tasks) = tick.size
    /\ TickOver
    /\ loop' = "asleep"
    /\ tick' = NoTick
    /\ changed' = FALSE
    /\ UNCHANGED <<tasks, running>>

\* The minute is over.
Awake ==
    /\ loop = "asleep"
    /\ IF running
       THEN /\ loop' = "between"
            /\ tick' = NewTick
       ELSE /\ loop' = "ended"
            /\ UNCHANGED tick
    /\ UNCHANGED <<tasks, running, changed>>

LoopStep ==
    \/ StartLoop
    \/ TickRaises
    \/ \E n \in TaskNames : FireTask(n)
    \/ ActionEnds
    \/ EndTick
    \/ Awake

Request == \E n \in TaskNames : AddTask(n) \/ RemoveTask(n)

CronNext == Request \/ CreateLoop \/ StopLoop \/ LoopStep

-------------------------------------------------------------------------------
(* Properties *)

CronTypeOK ==
    /\ tasks \subseteq TaskNames
    /\ running \in BOOLEAN
    /\ loop \in LoopStates
    /\ tick \in [size : 0..Cardinality(TaskNames), left : 0..Cardinality(TaskNames),
                seen : SUBSET TaskNames]
    /\ changed \in BOOLEAN

\* A registered task fires again and again, unless it is removed, the loop is
\* stopped, or a registration during a tick has killed it.
TasksFire ==
    \A n \in TaskNames :
        (n \in tasks /\ loop = "asleep" /\ running)
            ~> (n \in tick.seen \/ n \notin tasks \/ ~running \/ changed)

===============================================================================

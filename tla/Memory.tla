--------------------------------- MODULE Memory ---------------------------------
(***************************************************************************)
(* Long-term memories: SQLiteStore (memory/store.py), the Curator          *)
(* (memory/curator.py), the REST handlers of memory/router.py, and what    *)
(* the chat endpoints do to memories once a turn is answered               *)
(* (agent/router.py, shared/session_router.py).                            *)
(*                                                                         *)
(* A coroutine is suspended only while it waits for a model: at the        *)
(* synthesis of a memory, at the extraction of a skill and at the          *)
(* consolidation of memories.  What lies between is one action.            *)
(***************************************************************************)
EXTENDS Naturals, FiniteSets

CONSTANTS
    Mems,           \* memory ids; uuid4, so an id is never used twice
    Turns,          \* slots for concurrent requests; a slot is used again
    Enabled,        \* curator_enabled
    Interval,       \* curator_interval_messages
    StaleAfter,     \* 30 days, in the unit of Pass
    ArchiveAfter,   \* 90 days
    MemoryTTL,      \* data_ttl_days
    MaxRecorded     \* bound: messages recorded between two starts

ASSUME MemoryAssumption ==
    /\ Enabled \in BOOLEAN
    /\ Interval \in Nat \ {0}
    /\ StaleAfter \in Nat \ {0}
    /\ ArchiveAfter \in Nat /\ StaleAfter <= ArchiveAfter
    /\ MemoryTTL \in Nat \ {0}
    /\ MaxRecorded \in Nat

VARIABLES
    memory,         \* memory[m]: the row of table memories
    messageCount,   \* Curator._global_message_count
    postTurn,       \* postTurn[t]: where the handler in slot t waits
    recorded,       \* observer: messages recorded since the process started
    autoRuns,       \* observer: curations the count has triggered since then
    halfAdded       \* observer: ids whose add_memory died before reading back

memVars == <<memory, messageCount, postTurn, recorded, autoRuns, halfAdded>>

-------------------------------------------------------------------------------
(* State *)

Oldest == IF MemoryTTL > ArchiveAfter THEN MemoryTTL ELSE ArchiveAfter

Never == Oldest + 1

\* "active" is given by clients alone, "general" is the default.
Scopes == {"general", "active", "stale", "archived"}

\* `reads' is access_count up to 2, `age' the time since updated_at, `seen'
\* the time since last_accessed_at.  The text and the tags are left out.
Stored == [scope : Scopes, importance : 1..3, summary : {"none", "client", "curator"},
           reads : 0..2, age : 0..Oldest, seen : (0..Oldest) \union {Never}]

Unborn == [scope |-> "unborn"]
Deleted == [scope |-> "deleted"]

Exists(m) == memory[m].scope \in Scopes

Places == {"quiet", "synthesize", "skill", "consolidate"}

MemInit ==
    /\ memory = [m \in Mems |-> Unborn]
    /\ messageCount = 0
    /\ postTurn = [t \in Turns |-> "quiet"]
    /\ recorded = 0
    /\ autoRuns = 0
    /\ halfAdded = {}

-------------------------------------------------------------------------------
(* The store *)

Inserted(scope, importance, summary) ==
    [scope |-> scope, importance |-> importance, summary |-> summary,
     reads |-> 0, age |-> 0, seen |-> Never]

\* get_memory counts the access after reading the row.
Accessed(row) == [row EXCEPT !.reads = IF @ = 2 THEN 2 ELSE @ + 1, !.seen = 0]

\* Mutant: add_memory returns what it wrote instead of reading it back.
Added_NotRead(scope, importance, summary) == Inserted(scope, importance, summary)

\* add_memory inserts, commits and reads the memory back through get_memory.
Added(scope, importance, summary) == Accessed(Inserted(scope, importance, summary))

\* update_memory with a field to set: it touches updated_at, then reads back.
Updated(row) == Accessed([row EXCEPT !.age = 0])

\* The WHERE clause of archive_stale_memories.
Outdated(row) ==
    /\ row.scope \in Scopes \ {"archived"}
    /\ \/ row.age >= ArchiveAfter /\ row.importance <= 2
       \/ row.age >= StaleAfter /\ row.importance <= 1

\* archive_stale_memories, for one row.
Archived(row) ==
    IF Outdated(row) THEN [row EXCEPT !.scope = "archived", !.age = 0] ELSE row

\* A last_accessed_at that is NULL counts as old.
UnseenFor(row, limit) == row.seen = Never \/ row.seen >= limit

NeverRead(row) ==
    /\ row.scope \in Scopes \ {"archived", "stale"}
    /\ row.reads = 0
    /\ UnseenFor(row, ArchiveAfter)

HardlyRead(row) ==
    /\ row.scope = "active"
    /\ row.reads <= 1
    /\ UnseenFor(row, StaleAfter)

\* apply_grading, for one row: both statements, in order.
Graded(row) ==
    IF NeverRead(row) THEN [row EXCEPT !.scope = "archived", !.age = 0]
    ELSE IF HardlyRead(row) THEN [row EXCEPT !.scope = "stale", !.age = 0]
    ELSE row

-------------------------------------------------------------------------------
(* One pass of Curator.run *)

\* Only memories without a summary that are not archived are given to the
\* model; the batch of 25 holds every id of the instance.
Candidates(rows) ==
    {m \in Mems : rows[m].scope \in Scopes \ {"archived"} /\ rows[m].summary = "none"}

\* Mutant: INSERT OR REPLACE in the place of the UPDATE.
Described_Replaced(rows, summarised, tagged) ==
    [m \in Mems |-> IF m \in summarised \union tagged
                    THEN Added("general", 1, "curator")
                    ELSE rows[m]]

\* update_memory for the ids the model named, with a summary or with tags
\* alone; an UPDATE of an id that is gone changes nothing.  An id that is named
\* twice is read back twice, which is left out.
Described(rows, summarised, tagged) ==
    [m \in Mems |->
        IF rows[m].scope \notin Scopes \/ m \notin summarised \union tagged THEN rows[m]
        ELSE IF m \in summarised THEN [Updated(rows[m]) EXCEPT !.summary = "curator"]
        ELSE Updated(rows[m])]

\* _grade_memories, the last phase.
GradeAll(rows) == [m \in Mems |-> IF rows[m].scope \in Scopes THEN Graded(rows[m]) ELSE rows[m]]

\* _archive_stale_memories, the first phase.
ArchiveAll(rows) == [m \in Mems |-> IF rows[m].scope \in Scopes THEN Archived(rows[m]) ELSE rows[m]]

\* run, up to the wait for the model: without use_llm, without a provider and
\* without candidates there is no wait and the pass ends at once.
RunFrom(t, rows, useLlm) ==
    LET kept == ArchiveAll(rows)
    IN  \/ /\ memory' = GradeAll(kept)
           /\ postTurn' = [postTurn EXCEPT ![t] = "quiet"]
        \/ /\ useLlm
           /\ Candidates(kept) # {}
           /\ memory' = kept
           /\ postTurn' = [postTurn EXCEPT ![t] = "consolidate"]

\* Mutant: the interval must be passed, not reached.
ShouldRun_Late(count) == Enabled /\ count > Interval

ShouldRun(count) == Enabled /\ count >= Interval

\* Mutant: the count keeps what it has.
CountAfter_Kept(count) == count

\* run resets the shared counter before it does anything else.
CountAfter(count) == 0

\* should_run, then run: nothing is awaited between the test and the reset.
AutoCurate(t, rows, count, useLlm) ==
    \/ /\ ShouldRun(count)
       /\ messageCount' = CountAfter(count)
       /\ autoRuns' = autoRuns + 1
       /\ RunFrom(t, rows, useLlm)
    \/ /\ ~ShouldRun(count)
       /\ messageCount' = count
       /\ memory' = rows
       /\ postTurn' = [postTurn EXCEPT ![t] = "quiet"]
       /\ UNCHANGED autoRuns

\* POST /api/memories/curator/run resets the count too, whatever it is.
RunCurator(t, useLlm) ==
    /\ postTurn[t] = "quiet"
    /\ messageCount' = 0
    /\ RunFrom(t, memory, useLlm)
    /\ UNCHANGED <<recorded, autoRuns, halfAdded>>

\* The answer arrives.  It names ids as it likes, also those it was not asked
\* about: archived by now, or described before; an error ends the loop early.
\* The memories are graded in any case.
Consolidate(t, summarised, tagged) ==
    /\ postTurn[t] = "consolidate"
    /\ memory' = GradeAll(Described(memory, summarised, tagged))
    /\ postTurn' = [postTurn EXCEPT ![t] = "quiet"]
    /\ UNCHANGED <<messageCount, recorded, autoRuns, halfAdded>>

-------------------------------------------------------------------------------
(* After a turn *)

Record ==
    /\ recorded < MaxRecorded
    /\ recorded' = recorded + 1

\* chat of agent/router.py: record_message, then _maybe_create_memory up to
\* its model call.
AgentAnswered(t) ==
    /\ postTurn[t] = "quiet"
    /\ Record
    /\ messageCount' = messageCount + 1
    /\ postTurn' = [postTurn EXCEPT ![t] = "synthesize"]
    /\ UNCHANGED <<memory, autoRuns, halfAdded>>

\* synthesize_memory gave no sentence, or gave one and a memory is added;
\* then _maybe_create_skill, up to its model call.
Synthesized(t) ==
    /\ postTurn[t] = "synthesize"
    /\ postTurn' = [postTurn EXCEPT ![t] = "skill"]
    /\ \/ UNCHANGED memory
       \/ \E m \in Mems :
            /\ memory[m] = Unborn
            /\ memory' = [memory EXCEPT ![m] = Added("general", 1, "none")]
    /\ UNCHANGED <<messageCount, recorded, autoRuns, halfAdded>>

\* The skill is made or not (Skills.tla), patches are applied, and
\* _maybe_auto_curate follows.
AgentCurates(t) ==
    /\ postTurn[t] = "skill"
    /\ AutoCurate(t, memory, messageCount, TRUE)
    /\ UNCHANGED <<recorded, halfAdded>>

\* chat_stream of agent/router.py records and curates before it streams;
\* session_chat records and curates, without the model, after its turn.
RecordAndCurate(t, useLlm) ==
    /\ postTurn[t] = "quiet"
    /\ Record
    /\ AutoCurate(t, memory, messageCount + 1, useLlm)
    /\ UNCHANGED halfAdded

\* session_chat_stream records and never curates.
SessionStream ==
    /\ Record
    /\ messageCount' = messageCount + 1
    /\ UNCHANGED <<memory, postTurn, autoRuns, halfAdded>>

-------------------------------------------------------------------------------
(* Clients, the cleaner, time and crashes *)

CreateMemory(m, scope, importance, summary) ==
    /\ memory[m] = Unborn
    /\ memory' = [memory EXCEPT ![m] = Added(scope, importance, summary)]
    /\ UNCHANGED <<messageCount, postTurn, recorded, autoRuns, halfAdded>>

GetMemory(m) ==
    /\ Exists(m)
    /\ memory' = [memory EXCEPT ![m] = Accessed(@)]
    /\ UNCHANGED <<messageCount, postTurn, recorded, autoRuns, halfAdded>>

\* PUT: a client sets a summary, a scope or an importance.
UpdateMemory(m) ==
    /\ Exists(m)
    /\ \E row \in {[memory[m] EXCEPT !.summary = "client"]}
            \union {[memory[m] EXCEPT !.scope = scope] : scope \in Scopes}
            \union {[memory[m] EXCEPT !.importance = i] : i \in 1..3} :
         memory' = [memory EXCEPT ![m] = Updated(row)]
    /\ UNCHANGED <<messageCount, postTurn, recorded, autoRuns, halfAdded>>

DeleteMemory(m) ==
    /\ Exists(m)
    /\ memory' = [memory EXCEPT ![m] = Deleted]
    /\ UNCHANGED <<messageCount, postTurn, recorded, autoRuns, halfAdded>>

\* DataCleaner._clean: every memory not updated for MemoryTTL goes, whatever
\* its scope and importance.
CleanMemories ==
    /\ \E m \in Mems : Exists(m) /\ memory[m].age >= MemoryTTL
    /\ memory' = [m \in Mems |-> IF Exists(m) /\ memory[m].age >= MemoryTTL
                                 THEN Deleted ELSE memory[m]]
    /\ UNCHANGED <<messageCount, postTurn, recorded, autoRuns, halfAdded>>

Older(time, limit) == IF time < limit THEN time + 1 ELSE time

PassTime ==
    /\ \E m \in Mems : Exists(m)
    /\ memory' = [m \in Mems |->
           IF ~Exists(m) THEN memory[m]
           ELSE [memory[m] EXCEPT !.age = Older(@, Oldest),
                                  !.seen = IF @ = Never THEN Never ELSE Older(@, Oldest)]]
    /\ UNCHANGED <<messageCount, postTurn, recorded, autoRuns, halfAdded>>

\* The process dies and starts again: coroutines and the count are lost.
Restart ==
    /\ messageCount' = 0
    /\ postTurn' = [t \in Turns |-> "quiet"]
    /\ recorded' = 0
    /\ autoRuns' = 0

\* The crash may fall between the INSERT of add_memory and its read-back, for
\* a client or for a turn.
Crash ==
    /\ Restart
    /\ \/ UNCHANGED <<memory, halfAdded>>
       \/ \E m \in Mems, scope \in Scopes, importance \in 1..3, summary \in {"none", "client"} :
            /\ memory[m] = Unborn
            /\ memory' = [memory EXCEPT ![m] = Inserted(scope, importance, summary)]
            /\ halfAdded' = halfAdded \union {m}

Curates(t) ==
    \/ Synthesized(t)
    \/ AgentCurates(t)
    \/ \E summarised, tagged \in SUBSET Mems : Consolidate(t, summarised, tagged)

MemNext ==
    \/ \E t \in Turns :
        \/ AgentAnswered(t)
        \/ Curates(t)
        \/ \E useLlm \in BOOLEAN : RecordAndCurate(t, useLlm) \/ RunCurator(t, useLlm)
    \/ SessionStream
    \/ \E m \in Mems :
        \/ GetMemory(m)
        \/ DeleteMemory(m)
        \/ UpdateMemory(m)
        \/ \E scope \in Scopes, importance \in 1..3, summary \in {"none", "client"} :
            CreateMemory(m, scope, importance, summary)
    \/ CleanMemories
    \/ PassTime
    \/ Crash

\* Calls of a provider end (its client has a timeout) and asyncio resumes a
\* coroutine that is ready: a handler that has started runs to its end.
MemFairness == \A t \in Turns : WF_memVars(Curates(t))

MemSpec == MemInit /\ [][MemNext]_memVars /\ MemFairness

-------------------------------------------------------------------------------
(* Properties *)

MemTypeOK ==
    /\ memory \in [Mems -> Stored \union {Unborn, Deleted}]
    /\ messageCount \in 0..MaxRecorded
    /\ postTurn \in [Turns -> Places]
    /\ recorded \in 0..MaxRecorded
    /\ autoRuns \in 0..MaxRecorded
    /\ halfAdded \subseteq Mems

\* Concurrent turns share one counter: each automatic curation has used up
\* Interval recorded messages of its own.
CurationsEarned == autoRuns * Interval + messageCount <= recorded

\* Whatever a client or the cleaner does while the model consolidates, its
\* answer brings back no memory and takes none out of the archive.
ConsolidationKeepsTheArchive ==
    [][\A t \in Turns, m \in Mems :
        /\ postTurn[t] = "consolidate"
        /\ Curates(t)
        /\ ~Exists(m) \/ memory[m].scope = "archived"
        => memory'[m].scope = memory[m].scope]_memVars

\* The curator archives no memory of importance 3 or more, however long it
\* was left alone: the grading that asks only for "never read" finds none but
\* those whose add died between its INSERT and its read-back.
ImportantStayOut ==
    [][\A m \in Mems :
        /\ Exists(m)
        /\ memory[m].importance = 3
        /\ memory[m].scope # "archived"
        /\ memory'[m].scope = "archived"
        => m \in halfAdded \/ UpdateMemory(m)]_memVars

\* While the curator is on, a message count that has reached the interval is
\* used up once any turn that curates is under way: a curation is not forgotten.
CountedAreCurated ==
    (Enabled /\ messageCount >= Interval /\ \E t \in Turns : postTurn[t] \in {"synthesize", "skill"})
        ~> messageCount < Interval

===============================================================================

-------------------------------- MODULE Migrations --------------------------------
(***************************************************************************)
(* Opening a store: its tables (_init_db of conversation/store.py and      *)
(* memory/store.py) and its migrations (shared/migrations.py).             *)
(*                                                                         *)
(* Each request builds its stores anew in a worker thread, so several      *)
(* openings of one database run at the same time, each over a connection   *)
(* of its own.  A step is a statement, or a script up to one of its        *)
(* statements: executescript commits by itself.                            *)
(***************************************************************************)
EXTENDS Naturals, Sequences, FiniteSets, Selection

CONSTANTS
    Openers,    \* slots for concurrent openings; a slot is used again
    Versions,   \* the versions of the store's migrations
    Halves      \* statements of a script

ASSUME MigrationAssumption ==
    /\ Versions \subseteq Nat \ {0} /\ IsFiniteSet(Versions)
    /\ Halves \in Nat \ {0}

VARIABLES
    given,      \* the migrations in the order the store lists them
    tables,     \* _init_db has been committed
    version,    \* the store's row in _schema_version, 0 without one
    applied,    \* applied[v]: the most statements of script v executed in a row
    opener      \* opener[o]: an opening under way

migrationVars == <<given, tables, version, applied, opener>>

-------------------------------------------------------------------------------
(* State *)

\* `at': what is done next.  `current' is what _current_version returned, or
\* the version set last; `todo' the migrations the loop has still to come to.
Closed == [at |-> "closed", current |-> 0, todo |-> <<>>, half |-> 0]

MigrationInit ==
    /\ given \in Orders(Versions)
    /\ tables = FALSE
    /\ version = 0
    /\ applied = [v \in Versions |-> 0]
    /\ opener = [o \in Openers |-> Closed]

Goes(o, at) == opener' = [opener EXCEPT ![o].at = at]

-------------------------------------------------------------------------------
(* Opening *)

\* A worker thread starts on the store.
OpenStore(o) ==
    /\ opener[o] = Closed
    /\ Goes(o, "tables")
    /\ UNCHANGED <<given, tables, version, applied>>

\* CREATE TABLE IF NOT EXISTS, and commit.
InitTables(o) ==
    /\ opener[o].at = "tables"
    /\ tables' = TRUE
    /\ Goes(o, "version")
    /\ UNCHANGED <<given, version, applied>>

\* The last version of the store, 0 when it has no migrations.
Latest == CHOOSE v \in Versions \union {0} : \A w \in Versions : w <= v

\* Mutant: the migrations are taken as the store lists them.
Sorted_Not(list) == list

\* sorted by version: the versions from the first to the last that the list holds.
Sorted(list) == Select([v \in 1..Latest |-> v], Elements(list))

\* The loop passes over what is not newer than the current version.
Remaining(list, current) == Select(list, {v \in Versions : v > current})

\* The version table is made and the row read.  Nothing locks it for what
\* follows.
ReadVersion(o) ==
    /\ opener[o].at = "version"
    /\ opener' = [opener EXCEPT ![o] =
            [at |-> "script", current |-> version, half |-> 0,
             todo |-> Remaining(Sorted(given), version)]]
    /\ UNCHANGED <<given, tables, version, applied>>

-------------------------------------------------------------------------------
(* The loop of MigrationRunner.apply *)

\* One statement of the script is executed and committed.
RunStatement(o) ==
    LET v == Head(opener[o].todo)
        half == opener[o].half + 1
    IN  /\ opener[o].at = "script"
        /\ opener[o].todo # <<>>
        /\ applied' = [applied EXCEPT ![v] = IF half > @ THEN half ELSE @]
        /\ opener' = [opener EXCEPT ![o].half = half,
                                    ![o].at = IF half = Halves THEN "set" ELSE "script"]
        /\ UNCHANGED <<given, tables, version>>

\* INSERT OR REPLACE and commit: whatever the row says meanwhile.
SetVersion(o) ==
    LET v == Head(opener[o].todo)
    IN  /\ opener[o].at = "set"
        /\ version' = v
        /\ opener' = [opener EXCEPT ![o] =
                [at |-> "script", current |-> v, half |-> 0, todo |-> Remaining(Tail(@.todo), v)]]
        /\ UNCHANGED <<given, tables, applied>>

\* Mutant: an error closes the connection and counts the script as applied.
VersionAfterError_Counts(o) ==
    IF opener[o].at = "script" /\ opener[o].todo # <<>> THEN Head(opener[o].todo) ELSE version

\* finally: the connection is closed and what was not committed is gone.
VersionAfterError(o) == version

\* A statement raises (the database is locked, or the script cannot be run
\* twice), or the process dies.
OpeningFails(o) ==
    /\ opener[o] # Closed
    /\ opener' = [opener EXCEPT ![o] = Closed]
    /\ version' = VersionAfterError(o)
    /\ UNCHANGED <<given, tables, applied>>

\* Every migration is applied: the request goes on with its store.
Opened(o) ==
    /\ opener[o].at = "script"
    /\ opener[o].todo = <<>>
    /\ opener' = [opener EXCEPT ![o] = [Closed EXCEPT !.at = "open"]]
    /\ UNCHANGED <<given, tables, version, applied>>

CloseStore(o) ==
    /\ opener[o].at = "open"
    /\ opener' = [opener EXCEPT ![o] = Closed]
    /\ UNCHANGED <<given, tables, version, applied>>

MigrationNext ==
    \E o \in Openers :
        \/ OpenStore(o)
        \/ InitTables(o)
        \/ ReadVersion(o)
        \/ RunStatement(o)
        \/ SetVersion(o)
        \/ OpeningFails(o)
        \/ Opened(o)
        \/ CloseStore(o)

MigrationSpec == MigrationInit /\ [][MigrationNext]_migrationVars

-------------------------------------------------------------------------------
(* Properties *)

MigrationTypeOK ==
    /\ given \in Seq(Versions)
    /\ tables \in BOOLEAN
    /\ version \in Versions \union {0}
    /\ applied \in [Versions -> 0..Halves]
    /\ opener \in [Openers -> [at : {"closed", "tables", "version", "script", "set", "open"},
                               current : Versions \union {0}, todo : Seq(Versions),
                               half : 0..Halves]]

\* Whatever crashes, fails or runs at the same time, the version written down
\* is never ahead of the scripts: all of them up to it have run to their end.
VersionMeansApplied ==
    \A v \in Versions : v <= version => tables /\ applied[v] = Halves

\* A request gets a store whose schema is complete, in whatever order the store
\* lists its migrations, and even when another opening has set the version back
\* meanwhile.
OpenMeansComplete ==
    \A o \in Openers : opener[o].at = "open" => tables /\ \A v \in Versions : applied[v] = Halves

===============================================================================

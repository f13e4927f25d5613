--------------------------- MODULE Knowledge_proofs ---------------------------
(***************************************************************************)
(* Proofs about memories, skills and the context of a turn, for any        *)
(* memories, turns, names and bounds.                                      *)
(*                                                                         *)
(* Memory: every statement of the curator is a KeptRow, which leaves the   *)
(* archive alone and archives an important memory only if nobody has ever  *)
(* read it; and whoever adds a memory reads it, unless the process dies    *)
(* (ReadOnce).  What a curation adds to the one side of CurationsEarned    *)
(* the reset of the count takes from it.                                   *)
(*                                                                         *)
(* Skills: what the API makes is called by a slug, and a slug is left as   *)
(* it is by the creator and by the patcher.                                *)
(*                                                                         *)
(* Context: whatever is compressed, the last KeepLast messages and a       *)
(* system message of the client stay; the own prompt comes first when the  *)
(* client sent none, with the whole context.                               *)
(***************************************************************************)
EXTENDS MCKnowledge, Selection_proofs, SequenceTheorems, TLAPS

-------------------------------------------------------------------------------
(* Memories *)

Rows == Stored \union {Unborn, Deleted}

RowsTypeOK ==
    /\ memory \in [Mems -> Rows]
    /\ halfAdded \subseteq Mems

CountsTypeOK ==
    /\ messageCount \in Nat
    /\ recorded \in Nat
    /\ autoRuns \in Nat

\* A memory has been read, unless its add died before reading it back.
ReadOnce == \A m \in Mems : Exists(m) => memory[m].reads >= 1 \/ m \in halfAdded

-------------------------------------------------------------------------------
(* Memories: single rows *)

\* What the statements of a pass may do to a row.
KeptRow(x, y) ==
    \/ y = x
    \/ /\ x \in Stored /\ y \in Stored
       /\ x.reads >= 1 => y.reads >= 1
       /\ y.importance = x.importance
       /\ x.scope = "archived" => y.scope = "archived"
       /\ x.importance = 3 /\ x.scope # "archived" /\ y.scope = "archived" => x.reads = 0

\* The statements of a pass follow each other.
LEMMA KeptRowTransitive ==
    ASSUME NEW x \in Rows, NEW y \in Rows, NEW z \in Rows, KeptRow(x, y), KeptRow(y, z)
    PROVE  KeptRow(x, z)
<1>1. \A r \in Stored : r.reads \in 0..2
  BY DEF Stored
<1> QED
  BY <1>1, SMTT(20) DEF KeptRow

\* The rows that exist are the stored ones.
LEMMA RowKinds ==
    /\ \A x \in Rows : x \in Stored <=> x.scope \in Scopes
    /\ Unborn \notin Stored /\ Deleted \notin Stored
    /\ Unborn.scope = "unborn" /\ Deleted.scope = "deleted"
BY DEF Rows, Stored, Unborn, Deleted, Scopes

LEMMA AgesAreNumbers == Oldest \in Nat /\ Never = Oldest + 1
BY MemoryAssumption DEF Oldest, Never

\* A stored row, field by field.
LEMMA RowFields ==
    ASSUME NEW x \in Stored
    PROVE  /\ x.scope \in Scopes /\ x.importance \in 1..3
           /\ x.summary \in {"none", "client", "curator"}
           /\ x.reads \in 0..2 /\ x.age \in 0..Oldest
           /\ x.seen \in (0..Oldest) \union {Never}
BY DEF Stored

\* Setting fields of a record, whatever the sets of its fields are.
LEMMA SetFields ==
    ASSUME NEW A, NEW B, NEW C, NEW D, NEW E, NEW F,
           NEW x \in [scope : A, importance : B, summary : C, reads : D, age : E, seen : F],
           NEW a \in A, NEW b \in B, NEW c \in C, NEW d \in D, NEW e \in E, NEW f \in F
    PROVE  LET Rec == [scope : A, importance : B, summary : C, reads : D, age : E, seen : F]
               moved == [x EXCEPT !.scope = a, !.age = e]
               accessed == [x EXCEPT !.reads = d, !.seen = f]
           IN  /\ moved \in Rec
               /\ moved.scope = a
               /\ moved.reads = x.reads
               /\ moved.importance = x.importance
               /\ accessed \in Rec
               /\ accessed.reads = d
               /\ accessed.scope = x.scope
               /\ accessed.importance = x.importance
               /\ [x EXCEPT !.scope = a] \in Rec
               /\ [x EXCEPT !.importance = b] \in Rec
               /\ [x EXCEPT !.summary = c] \in Rec
OBVIOUS

\* The two times of a row.
LEMMA OlderRow ==
    ASSUME NEW x \in Stored, NEW e \in 0..Oldest, NEW f \in (0..Oldest) \union {Never}
    PROVE  /\ [x EXCEPT !.age = e, !.seen = f] \in Stored
           /\ [x EXCEPT !.age = e, !.seen = f].scope = x.scope
           /\ [x EXCEPT !.age = e, !.seen = f].reads = x.reads
<1> DEFINE Ages == 0..Oldest
           Seens == (0..Oldest) \union {Never}
<1>1. Stored = [scope : Scopes, importance : 1..3, summary : {"none", "client", "curator"},
                reads : 0..2, age : Ages, seen : Seens]
  BY DEF Stored
<1>2. e \in Ages /\ f \in Seens
  OBVIOUS
<1> HIDE DEF Ages, Seens
<1> QED
  BY <1>1, <1>2

\* A row that was read back has been read.
LEMMA AccessedRow ==
    ASSUME NEW x \in Stored
    PROVE  /\ Accessed(x) \in Stored
           /\ Accessed(x).reads >= 1
           /\ Accessed(x).scope = x.scope
           /\ Accessed(x).importance = x.importance
<1> DEFINE reads == IF x.reads = 2 THEN 2 ELSE x.reads + 1
<1>1. /\ reads \in 0..2 /\ reads >= 1
      /\ 0 \in (0..Oldest) \union {Never}
  BY AgesAreNumbers, RowFields
<1>2. Accessed(x) = [x EXCEPT !.reads = reads, !.seen = 0]
  BY DEF Accessed
<1> HIDE DEF reads
<1>3. /\ [x EXCEPT !.reads = reads, !.seen = 0] \in Stored
      /\ [x EXCEPT !.reads = reads, !.seen = 0].reads = reads
      /\ [x EXCEPT !.reads = reads, !.seen = 0].scope = x.scope
      /\ [x EXCEPT !.reads = reads, !.seen = 0].importance = x.importance
  BY <1>1, RowFields, SetFields DEF Stored
<1> QED
  BY <1>1, <1>2, <1>3

LEMMA InsertedRow ==
    ASSUME NEW scope \in Scopes, NEW importance \in 1..3, NEW summary \in {"none", "client"}
    PROVE  Inserted(scope, importance, summary) \in Stored
BY AgesAreNumbers DEF Inserted, Stored

LEMMA UpdatedRow ==
    ASSUME NEW x \in Stored
    PROVE  /\ Updated(x) \in Stored
           /\ Updated(x).reads >= 1
           /\ Updated(x).scope = x.scope
           /\ Updated(x).importance = x.importance
<1>1. [x EXCEPT !.age = 0] \in Stored
  BY AgesAreNumbers DEF Stored
<1>2. /\ [x EXCEPT !.age = 0].scope = x.scope
      /\ [x EXCEPT !.age = 0].importance = x.importance
  BY DEF Stored
<1> QED
  BY <1>1, <1>2, AccessedRow DEF Updated

\* Moving a row to another scope touches nothing else but its age.
Moved(x, scope) == [x EXCEPT !.scope = scope, !.age = 0]

LEMMA MovedRow ==
    ASSUME NEW x \in Stored, NEW scope \in Scopes
    PROVE  /\ Moved(x, scope) \in Stored
           /\ Moved(x, scope).scope = scope
           /\ Moved(x, scope).reads = x.reads
           /\ Moved(x, scope).importance = x.importance
<1>1. 0 \in 0..Oldest
  BY AgesAreNumbers
<1> QED
  BY <1>1, RowFields, SetFields DEF Moved, Stored

\* A move to another scope than the archive, and one of a row that is not
\* important or was never read to any.
LEMMA MovedRowKept ==
    ASSUME NEW x \in Stored, NEW scope \in Scopes,
           x.scope = "archived" => scope = "archived",
           scope = "archived" => x.importance # 3 \/ x.reads = 0
    PROVE  Moved(x, scope) \in Stored /\ KeptRow(x, Moved(x, scope))
<1> DEFINE y == Moved(x, scope)
<1>1. y \in Stored /\ y.scope = scope /\ y.reads = x.reads /\ y.importance = x.importance
  BY MovedRow
<1> HIDE DEF y
<1>2. KeptRow(x, y)
  BY <1>1 DEF KeptRow
<1> QED
  BY <1>1, <1>2 DEF y

LEMMA ArchivedRow ==
    ASSUME NEW x \in Stored
    PROVE  Archived(x) \in Stored /\ KeptRow(x, Archived(x))
<1>1. CASE Outdated(x)
  <2>1. x.importance # 3 /\ "archived" \in Scopes
    BY <1>1, RowFields DEF Outdated, Scopes
  <2>2. Archived(x) = Moved(x, "archived")
    BY <1>1 DEF Archived, Moved
  <2> QED
    BY <2>1, <2>2, MovedRowKept
<1>2. CASE ~Outdated(x)
  BY <1>2 DEF Archived, KeptRow
<1> QED
  BY <1>1, <1>2

LEMMA GradedRow ==
    ASSUME NEW x \in Stored
    PROVE  Graded(x) \in Stored /\ KeptRow(x, Graded(x))
<1>1. CASE NeverRead(x)
  <2>1. x.reads = 0 /\ "archived" \in Scopes
    BY <1>1 DEF NeverRead, Scopes
  <2>2. Graded(x) = Moved(x, "archived")
    BY <1>1 DEF Graded, NeverRead, HardlyRead, Moved
  <2> QED
    BY <2>1, <2>2, MovedRowKept
<1>2. CASE ~NeverRead(x) /\ HardlyRead(x)
  <2>1. x.scope = "active" /\ "stale" \in Scopes
    BY <1>2 DEF HardlyRead, Scopes
  <2>2. Graded(x) = Moved(x, "stale")
    BY <1>2 DEF Graded, Moved
  <2> QED
    BY <2>1, <2>2, MovedRowKept
<1>3. CASE ~NeverRead(x) /\ ~HardlyRead(x)
  BY <1>3 DEF Graded, KeptRow
<1> QED
  BY <1>1, <1>2, <1>3

\* An update by the curator sets the summary.
LEMMA DescribedRow ==
    ASSUME NEW x \in Stored
    PROVE  LET y == [Updated(x) EXCEPT !.summary = "curator"]
           IN  y \in Stored /\ KeptRow(x, y)
<1> DEFINE y == [Updated(x) EXCEPT !.summary = "curator"]
<1>1. Updated(x) \in Stored /\ Updated(x).reads >= 1
      /\ Updated(x).scope = x.scope /\ Updated(x).importance = x.importance
  BY UpdatedRow
<1>2. /\ y \in Stored
      /\ y.reads = Updated(x).reads
      /\ y.scope = Updated(x).scope
      /\ y.importance = Updated(x).importance
  BY <1>1 DEF Stored
<1>3. KeptRow(x, y)
  BY <1>1, <1>2 DEF KeptRow
<1> QED
  BY <1>2, <1>3

-------------------------------------------------------------------------------
(* Memories: all rows *)

\* The two ends of a part of a pass.
Kept(before, after) ==
    /\ after \in [Mems -> Rows]
    /\ \A m \in Mems : KeptRow(before[m], after[m])

LEMMA KeptTransitive ==
    ASSUME NEW a \in [Mems -> Rows], NEW b, NEW c, Kept(a, b), Kept(b, c)
    PROVE  Kept(a, c)
BY KeptRowTransitive DEF Kept

LEMMA GradeAllKeeps ==
    ASSUME NEW rows \in [Mems -> Rows]
    PROVE  Kept(rows, GradeAll(rows))
<1> SUFFICES ASSUME NEW m \in Mems
             PROVE  GradeAll(rows)[m] \in Rows /\ KeptRow(rows[m], GradeAll(rows)[m])
  BY DEF Kept, GradeAll
<1>1. GradeAll(rows)[m] = IF rows[m].scope \in Scopes THEN Graded(rows[m]) ELSE rows[m]
  BY DEF GradeAll
<1> QED
  BY <1>1, GradedRow, RowKinds DEF Rows, KeptRow

LEMMA ArchiveAllKeeps ==
    ASSUME NEW rows \in [Mems -> Rows]
    PROVE  Kept(rows, ArchiveAll(rows))
<1> SUFFICES ASSUME NEW m \in Mems
             PROVE  ArchiveAll(rows)[m] \in Rows /\ KeptRow(rows[m], ArchiveAll(rows)[m])
  BY DEF Kept, ArchiveAll
<1>1. ArchiveAll(rows)[m] = IF rows[m].scope \in Scopes THEN Archived(rows[m]) ELSE rows[m]
  BY DEF ArchiveAll
<1> QED
  BY <1>1, ArchivedRow, RowKinds DEF Rows, KeptRow

LEMMA DescribedKeeps ==
    ASSUME NEW rows \in [Mems -> Rows], NEW summarised, NEW tagged
    PROVE  Kept(rows, Described(rows, summarised, tagged))
<1> SUFFICES ASSUME NEW m \in Mems
             PROVE  /\ Described(rows, summarised, tagged)[m] \in Rows
                    /\ KeptRow(rows[m], Described(rows, summarised, tagged)[m])
  BY DEF Kept, Described
<1>1. Described(rows, summarised, tagged)[m] =
        IF rows[m].scope \notin Scopes \/ m \notin summarised \union tagged THEN rows[m]
        ELSE IF m \in summarised THEN [Updated(rows[m]) EXCEPT !.summary = "curator"]
        ELSE Updated(rows[m])
  BY DEF Described
<1>2. \A x \in Stored : Updated(x) \in Stored /\ KeptRow(x, Updated(x))
  BY UpdatedRow DEF KeptRow
<1>3. \A x \in Stored : LET y == [Updated(x) EXCEPT !.summary = "curator"]
                        IN  y \in Stored /\ KeptRow(x, y)
  BY DescribedRow
<1>4. rows[m] \in Rows /\ KeptRow(rows[m], rows[m])
  BY DEF KeptRow
<1>5. rows[m].scope \in Scopes => rows[m] \in Stored
  BY <1>4, RowKinds
<1>6. CASE rows[m].scope \notin Scopes \/ m \notin summarised \union tagged
  BY <1>1, <1>4, <1>6
<1>7. CASE rows[m].scope \in Scopes /\ m \in summarised
  BY <1>1, <1>3, <1>5, <1>7 DEF Rows
<1>8. CASE rows[m].scope \in Scopes /\ m \in tagged \ summarised
  BY <1>1, <1>2, <1>5, <1>8 DEF Rows
<1> QED
  BY <1>6, <1>7, <1>8

\* A pass, up to the model or to its end.
LEMMA RunKeeps ==
    ASSUME memory \in [Mems -> Rows], NEW t, NEW useLlm, RunFrom(t, memory, useLlm)
    PROVE  Kept(memory, memory')
<1> DEFINE kept == ArchiveAll(memory)
<1>1. Kept(memory, kept) /\ kept \in [Mems -> Rows]
  BY ArchiveAllKeeps DEF Kept
<1>2. Kept(memory, GradeAll(kept))
  BY <1>1, GradeAllKeeps, KeptTransitive
<1>3. memory' = kept \/ memory' = GradeAll(kept)
  BY DEF RunFrom
<1> QED
  BY <1>1, <1>2, <1>3

\* The end of a pass, when the model has answered.
LEMMA ConsolidateKeeps ==
    ASSUME memory \in [Mems -> Rows], NEW t, NEW summarised, NEW tagged, Consolidate(t, summarised, tagged)
    PROVE  Kept(memory, memory')
<1>1. Kept(memory, Described(memory, summarised, tagged))
      /\ Described(memory, summarised, tagged) \in [Mems -> Rows]
  BY DescribedKeeps DEF Kept
<1>2. Kept(memory, GradeAll(Described(memory, summarised, tagged)))
  BY <1>1, GradeAllKeeps, KeptTransitive
<1> QED
  BY <1>2 DEF Consolidate

-------------------------------------------------------------------------------
(* Memories: the rows: types, ReadOnce and the archive *)

RowsOK == RowsTypeOK /\ ReadOnce

\* What ImportantStayOut says of a step.
ImportantStep ==
    \A m \in Mems :
        /\ Exists(m)
        /\ memory[m].importance = 3
        /\ memory[m].scope # "archived"
        /\ memory'[m].scope = "archived"
        => m \in halfAdded \/ UpdateMemory(m)

\* The curator archives what was never read, and that is only what a dying
\* process has added.
LEMMA KeptStep ==
    ASSUME RowsOK, Kept(memory, memory'), halfAdded' = halfAdded
    PROVE  RowsOK' /\ ImportantStep
<1>1. memory' \in [Mems -> Rows] /\ \A m \in Mems : KeptRow(memory[m], memory'[m])
  BY DEF Kept
<1>2. \A x \in Stored : x.reads \in 0..2
  BY RowFields
<1>3. ReadOnce'
  <2> SUFFICES ASSUME NEW m \in Mems, Exists(m)'
               PROVE  memory'[m].reads >= 1 \/ m \in halfAdded
    BY DEF ReadOnce
  <2>1. CASE memory'[m] = memory[m]
    BY <2>1 DEF RowsOK, ReadOnce, Exists
  <2>2. CASE memory'[m] # memory[m]
    <3>1. memory[m] \in Stored /\ (memory[m].reads >= 1 => memory'[m].reads >= 1)
      BY <1>1, <2>2 DEF KeptRow
    <3>2. Exists(m)
      BY <3>1, RowFields DEF Exists
    <3> QED
      BY <3>1, <3>2 DEF RowsOK, ReadOnce
  <2> QED
    BY <2>1, <2>2
<1>4. ImportantStep
  <2> SUFFICES ASSUME NEW m \in Mems, Exists(m), memory[m].importance = 3,
                      memory[m].scope # "archived", memory'[m].scope = "archived"
               PROVE  m \in halfAdded
    BY DEF ImportantStep
  <2>1. memory[m].reads = 0
    BY <1>1 DEF KeptRow
  <2> QED
    BY <2>1 DEF RowsOK, ReadOnce
<1> QED
  BY <1>1, <1>3, <1>4 DEF RowsOK, RowsTypeOK

\* A statement about one row, which it leaves read or removed.
LEMMA OneRowStep ==
    ASSUME RowsOK, halfAdded' = halfAdded, NEW m \in Mems, NEW y \in Rows,
           memory' = [memory EXCEPT ![m] = y],
           y \in Stored => y.reads >= 1,
           Exists(m) => y.scope # "archived" \/ memory[m].scope = y.scope \/ UpdateMemory(m)
    PROVE  RowsOK' /\ ImportantStep
<1>1. /\ memory' \in [Mems -> Rows]
      /\ memory'[m] = y
      /\ \A n \in Mems \ {m} : memory'[n] = memory[n]
  BY DEF RowsOK, RowsTypeOK
<1>2. ReadOnce'
  <2> SUFFICES ASSUME NEW n \in Mems, Exists(n)'
               PROVE  memory'[n].reads >= 1 \/ n \in halfAdded
    BY DEF ReadOnce
  <2>1. CASE n = m
    BY <1>1, <2>1, RowKinds DEF Exists
  <2>2. CASE n # m
    BY <1>1, <2>2 DEF RowsOK, ReadOnce, Exists
  <2> QED
    BY <2>1, <2>2
<1>3. ImportantStep
  BY <1>1 DEF ImportantStep
<1> QED
  BY <1>1, <1>2, <1>3 DEF RowsOK, RowsTypeOK

LEMMA AddedRow ==
    ASSUME NEW scope \in Scopes, NEW importance \in 1..3, NEW summary \in {"none", "client"}
    PROVE  Added(scope, importance, summary) \in Stored /\ Added(scope, importance, summary).reads >= 1
BY InsertedRow, AccessedRow DEF Added

LEMMA AddStep ==
    ASSUME RowsOK, halfAdded' = halfAdded, NEW m \in Mems, memory[m] = Unborn,
           NEW scope \in Scopes, NEW importance \in 1..3, NEW summary \in {"none", "client"},
           memory' = [memory EXCEPT ![m] = Added(scope, importance, summary)]
    PROVE  RowsOK' /\ ImportantStep
<1>1. ~Exists(m)
  BY DEF Exists, Scopes, Unborn
<1>2. Added(scope, importance, summary) \in Rows
      /\ Added(scope, importance, summary).reads >= 1
  BY AddedRow DEF Rows
<1> QED
  BY <1>1, <1>2, OneRowStep

LEMMA ExistingRow ==
    ASSUME RowsOK, NEW m \in Mems
    PROVE  Exists(m) <=> memory[m] \in Stored
BY RowKinds DEF RowsOK, RowsTypeOK, Exists

LEMMA UpdateStep ==
    ASSUME RowsOK, NEW m \in Mems, UpdateMemory(m)
    PROVE  RowsOK' /\ ImportantStep
<1>1. memory[m] \in Stored
  BY ExistingRow DEF UpdateMemory
<1>2. PICK row \in {[memory[m] EXCEPT !.summary = "client"]}
                     \union {[memory[m] EXCEPT !.scope = scope] : scope \in Scopes}
                     \union {[memory[m] EXCEPT !.importance = i] : i \in 1..3} :
         memory' = [memory EXCEPT ![m] = Updated(row)]
  BY DEF UpdateMemory
<1>3. row \in Stored
  <2>1. [memory[m] EXCEPT !.summary = "client"] \in Stored
    BY <1>1, RowFields, SetFields DEF Stored
  <2>2. \A scope \in Scopes : [memory[m] EXCEPT !.scope = scope] \in Stored
    BY <1>1, RowFields, SetFields DEF Stored
  <2>3. \A i \in 1..3 : [memory[m] EXCEPT !.importance = i] \in Stored
    BY <1>1, RowFields, SetFields DEF Stored
  <2> QED
    BY <1>2, <2>1, <2>2, <2>3
<1>4. Updated(row) \in Rows /\ Updated(row).reads >= 1
  BY <1>3, UpdatedRow DEF Rows
<1>5. halfAdded' = halfAdded
  BY DEF UpdateMemory
<1> QED
  BY <1>2, <1>4, <1>5, OneRowStep

LEMMA PassTimeStep ==
    ASSUME RowsOK, PassTime
    PROVE  RowsOK' /\ ImportantStep
<1>1. ASSUME NEW m \in Mems, Exists(m)
      PROVE  /\ memory'[m] \in Stored
             /\ memory'[m].scope = memory[m].scope
             /\ memory'[m].reads = memory[m].reads
  <2> DEFINE age == Older(memory[m].age, Oldest)
             seen == IF memory[m].seen = Never THEN Never ELSE Older(memory[m].seen, Oldest)
  <2>1. memory[m] \in Stored
    BY <1>1, ExistingRow
  <2>2. age \in 0..Oldest /\ seen \in (0..Oldest) \union {Never}
    BY <2>1, RowFields, AgesAreNumbers DEF Older
  <2>3. memory'[m] = [memory[m] EXCEPT !.age = age, !.seen = seen]
    BY <1>1 DEF PassTime
  <2> HIDE DEF age, seen
  <2>4. /\ [memory[m] EXCEPT !.age = age, !.seen = seen] \in Stored
        /\ [memory[m] EXCEPT !.age = age, !.seen = seen].scope = memory[m].scope
        /\ [memory[m] EXCEPT !.age = age, !.seen = seen].reads = memory[m].reads
    BY <2>1, <2>2, OlderRow
  <2> QED
    BY <2>3, <2>4
<1>2. ASSUME NEW m \in Mems, ~Exists(m)
      PROVE  memory'[m] = memory[m]
  BY <1>2 DEF PassTime
<1>3. memory' \in [Mems -> Rows] /\ halfAdded' = halfAdded
  <2>1. memory' = [m \in Mems |-> memory'[m]] /\ halfAdded' = halfAdded
    BY DEF PassTime
  <2>2. \A m \in Mems : memory'[m] \in Rows
    BY <1>1, <1>2 DEF RowsOK, RowsTypeOK, Rows
  <2> QED
    BY <2>1, <2>2
<1>4. ReadOnce'
  <2> SUFFICES ASSUME NEW m \in Mems, Exists(m)'
               PROVE  memory'[m].reads >= 1 \/ m \in halfAdded
    BY <1>3 DEF ReadOnce
  <2>1. Exists(m)
    BY <1>2 DEF Exists
  <2> QED
    BY <1>1, <2>1 DEF RowsOK, ReadOnce
<1>5. ImportantStep
  BY <1>1 DEF ImportantStep
<1> QED
  BY <1>3, <1>4, <1>5 DEF RowsOK, RowsTypeOK

LEMMA CleanStep ==
    ASSUME RowsOK, CleanMemories
    PROVE  RowsOK' /\ ImportantStep
<1>1. /\ memory' \in [Mems -> Rows]
      /\ \A m \in Mems : memory'[m] \in {memory[m], Deleted}
      /\ halfAdded' = halfAdded
  BY DEF CleanMemories, RowsOK, RowsTypeOK, Rows
<1>2. ReadOnce'
  <2> SUFFICES ASSUME NEW m \in Mems, Exists(m)'
               PROVE  memory'[m].reads >= 1 \/ m \in halfAdded
    BY <1>1 DEF ReadOnce
  <2>1. memory'[m] = memory[m]
    BY <1>1, RowKinds DEF Exists, Rows, Scopes
  <2> QED
    BY <2>1 DEF RowsOK, ReadOnce, Exists
<1>3. ImportantStep
  BY <1>1, RowKinds DEF ImportantStep
<1> QED
  BY <1>1, <1>2, <1>3 DEF RowsOK, RowsTypeOK

\* A crash may leave a memory that was never read, and names it.
LEMMA CrashStep ==
    ASSUME RowsOK, Crash
    PROVE  RowsOK' /\ ImportantStep
<1>1. CASE UNCHANGED <<memory, halfAdded>>
  BY <1>1 DEF RowsOK, RowsTypeOK, ReadOnce, ImportantStep, Exists
<1>2. ASSUME NEW m \in Mems, memory[m] = Unborn,
             NEW scope \in Scopes, NEW importance \in 1..3, NEW summary \in {"none", "client"},
             memory' = [memory EXCEPT ![m] = Inserted(scope, importance, summary)],
             halfAdded' = halfAdded \union {m}
      PROVE  RowsOK' /\ ImportantStep
  <2>1. Inserted(scope, importance, summary) \in Rows
    BY InsertedRow DEF Rows
  <2>2. /\ memory' \in [Mems -> Rows]
        /\ halfAdded' \subseteq Mems
        /\ \A n \in Mems \ {m} : memory'[n] = memory[n]
    BY <1>2, <2>1 DEF RowsOK, RowsTypeOK
  <2>3. ReadOnce'
    BY <1>2, <2>2 DEF RowsOK, ReadOnce, Exists
  <2>4. ~Exists(m)
    BY <1>2 DEF Exists, Unborn, Scopes
  <2>5. ImportantStep
    BY <2>2, <2>4 DEF ImportantStep
  <2> QED
    BY <2>2, <2>3, <2>5 DEF RowsOK, RowsTypeOK
<1> QED
  BY <1>1, <1>2 DEF Crash

-------------------------------------------------------------------------------
(* Memories: the count *)

Counts == CountsTypeOK /\ CurationsEarned

\* A curation takes at least Interval messages out of the count.
LEMMA AutoCurateCounts ==
    ASSUME Counts, NEW t, NEW rows, NEW count \in Nat, NEW useLlm,
           recorded' \in Nat, autoRuns * Interval + count <= recorded',
           AutoCurate(t, rows, count, useLlm)
    PROVE  Counts'
<1>1. Interval \in Nat /\ autoRuns \in Nat
  BY MemoryAssumption DEF Counts, CountsTypeOK
<1> DEFINE used == autoRuns * Interval
<1>2. used \in Nat /\ (autoRuns + 1) * Interval = used + Interval
  BY <1>1
<1>3. CASE ShouldRun(count) /\ messageCount' = 0 /\ autoRuns' = autoRuns + 1
  <2>1. used + Interval <= recorded'
    <3> HIDE DEF used
    <3>1. used + count <= recorded' /\ count >= Interval
      BY <1>3 DEF used, ShouldRun
    <3> QED
      BY <1>1, <1>2, <3>1
  <2>2. autoRuns' * Interval + messageCount' <= recorded'
    BY <1>1, <1>2, <1>3, <2>1
  <2> QED
    BY <1>1, <1>3, <2>2 DEF Counts, CountsTypeOK, CurationsEarned
<1>4. CASE messageCount' = count /\ autoRuns' = autoRuns
  BY <1>1, <1>4 DEF Counts, CountsTypeOK, CurationsEarned
<1> QED
  BY <1>3, <1>4 DEF AutoCurate, CountAfter

LEMMA CountsStep ==
    ASSUME Counts, [MemNext]_memVars
    PROVE  Counts'
<1> DEFINE used == autoRuns * Interval
<1>0. /\ messageCount \in Nat /\ recorded \in Nat /\ autoRuns \in Nat /\ Interval \in Nat
      /\ used \in Nat /\ used + messageCount <= recorded
  BY MemoryAssumption DEF Counts, CountsTypeOK, CurationsEarned
<1>1. CASE UNCHANGED <<messageCount, recorded, autoRuns>>
  BY <1>1 DEF Counts, CountsTypeOK, CurationsEarned
<1>2. CASE recorded' = recorded + 1 /\ messageCount' = messageCount + 1 /\ autoRuns' = autoRuns
  <2>1. autoRuns' * Interval = used
    BY <1>2
  <2> HIDE DEF used
  <2>2. autoRuns' * Interval + messageCount' <= recorded'
    BY <1>0, <1>2, <2>1
  <2> QED
    BY <1>0, <1>2, <2>2 DEF Counts, CountsTypeOK, CurationsEarned
<1>3. CASE messageCount' = 0 /\ recorded' = recorded /\ autoRuns' = autoRuns
  <2>1. autoRuns' * Interval = used
    BY <1>3
  <2> HIDE DEF used
  <2>2. autoRuns' * Interval + messageCount' <= recorded'
    BY <1>0, <1>3, <2>1
  <2> QED
    BY <1>0, <1>3, <2>2 DEF Counts, CountsTypeOK, CurationsEarned
<1>4. CASE messageCount' = 0 /\ recorded' = 0 /\ autoRuns' = 0
  BY <1>0, <1>4 DEF Counts, CountsTypeOK, CurationsEarned
<1>5. ASSUME NEW t \in Turns, AgentCurates(t)
      PROVE  Counts'
  BY <1>0, <1>5, AutoCurateCounts DEF AgentCurates
<1>6. ASSUME NEW t \in Turns, NEW useLlm \in BOOLEAN, RecordAndCurate(t, useLlm)
      PROVE  Counts'
  <2>1. messageCount + 1 \in Nat /\ recorded' \in Nat /\ used + (messageCount + 1) <= recorded'
    <3> HIDE DEF used
    <3> QED
      BY <1>0, <1>6 DEF RecordAndCurate, Record
  <2> QED
    BY <1>6, <2>1, AutoCurateCounts DEF RecordAndCurate
<1>7. ASSUME NEW t \in Turns, AgentAnswered(t)
      PROVE  Counts'
  BY <1>2, <1>7 DEF AgentAnswered, Record
<1>8. ASSUME NEW t \in Turns, NEW useLlm \in BOOLEAN, RunCurator(t, useLlm)
      PROVE  Counts'
  BY <1>3, <1>8 DEF RunCurator
<1>9. CASE SessionStream
  BY <1>2, <1>9 DEF SessionStream, Record
<1>10. CASE Crash
  BY <1>4, <1>10 DEF Crash, Restart
<1>11. ASSUME NEW t \in Turns, Synthesized(t)
       PROVE  Counts'
  BY <1>1, <1>11 DEF Synthesized
<1>12. ASSUME NEW t \in Turns, NEW summarised, NEW tagged, Consolidate(t, summarised, tagged)
       PROVE  Counts'
  BY <1>1, <1>12 DEF Consolidate
<1>13. ASSUME NEW m \in Mems,
              \/ GetMemory(m) \/ DeleteMemory(m) \/ UpdateMemory(m)
              \/ \E scope \in Scopes, importance \in 1..3, summary \in {"none", "client"} :
                   CreateMemory(m, scope, importance, summary)
       PROVE  Counts'
  BY <1>1, <1>13 DEF GetMemory, DeleteMemory, UpdateMemory, CreateMemory
<1>14. CASE CleanMemories \/ PassTime \/ UNCHANGED memVars
  BY <1>1, <1>14 DEF CleanMemories, PassTime, memVars
<1> QED
  BY <1>5, <1>6, <1>7, <1>8, <1>9, <1>10, <1>11, <1>12, <1>13, <1>14 DEF MemNext, Curates

-------------------------------------------------------------------------------
(* Memories: every step *)

\* A handler that curates leaves the rows as they were or as a pass leaves
\* them.
LEMMA AutoCurateKeeps ==
    ASSUME memory \in [Mems -> Rows], NEW t, NEW count, NEW useLlm,
           AutoCurate(t, memory, count, useLlm)
    PROVE  Kept(memory, memory')
<1>1. CASE RunFrom(t, memory, useLlm)
  BY <1>1, RunKeeps
<1>2. CASE memory' = memory
  BY <1>2 DEF Kept, KeptRow
<1> QED
  BY <1>1, <1>2 DEF AutoCurate

LEMMA RowsStep ==
    ASSUME RowsOK, [MemNext]_memVars
    PROVE  RowsOK' /\ ImportantStep
<1>0. memory \in [Mems -> Rows]
  BY DEF RowsOK, RowsTypeOK
<1>1. CASE UNCHANGED <<memory, halfAdded>>
  BY <1>0, <1>1, KeptStep DEF Kept, KeptRow
<1>2. ASSUME NEW t \in Turns, Synthesized(t)
      PROVE  RowsOK' /\ ImportantStep
  <2>1. CASE memory' = memory
    BY <1>1, <1>2, <2>1 DEF Synthesized
  <2>2. ASSUME NEW m \in Mems, memory[m] = Unborn,
               memory' = [memory EXCEPT ![m] = Added("general", 1, "none")]
        PROVE  RowsOK' /\ ImportantStep
    <3>1. "general" \in Scopes /\ 1 \in 1..3 /\ halfAdded' = halfAdded
      BY <1>2 DEF Scopes, Synthesized
    <3> QED
      BY <2>2, <3>1, AddStep
  <2> QED
    BY <1>2, <2>1, <2>2 DEF Synthesized
<1>3. ASSUME NEW t \in Turns, AgentCurates(t)
      PROVE  RowsOK' /\ ImportantStep
  BY <1>0, <1>3, AutoCurateKeeps, KeptStep DEF AgentCurates
<1>4. ASSUME NEW t \in Turns, NEW useLlm \in BOOLEAN, RecordAndCurate(t, useLlm)
      PROVE  RowsOK' /\ ImportantStep
  BY <1>0, <1>4, AutoCurateKeeps, KeptStep DEF RecordAndCurate
<1>5. ASSUME NEW t \in Turns, NEW useLlm \in BOOLEAN, RunCurator(t, useLlm)
      PROVE  RowsOK' /\ ImportantStep
  BY <1>0, <1>5, RunKeeps, KeptStep DEF RunCurator
<1>6. ASSUME NEW t \in Turns, NEW summarised, NEW tagged, Consolidate(t, summarised, tagged)
      PROVE  RowsOK' /\ ImportantStep
  <2>1. halfAdded' = halfAdded
    BY <1>6 DEF Consolidate
  <2> QED
    BY <1>0, <1>6, <2>1, ConsolidateKeeps, KeptStep
<1>7. ASSUME NEW t \in Turns, AgentAnswered(t)
      PROVE  RowsOK' /\ ImportantStep
  BY <1>1, <1>7 DEF AgentAnswered
<1>8. ASSUME NEW m \in Mems, GetMemory(m)
      PROVE  RowsOK' /\ ImportantStep
  <2>1. memory[m] \in Stored
    BY <1>8, ExistingRow DEF GetMemory
  <2>2. Accessed(memory[m]) \in Rows /\ Accessed(memory[m]).reads >= 1
        /\ Accessed(memory[m]).scope = memory[m].scope
    BY <2>1, AccessedRow DEF Rows
  <2>3. memory' = [memory EXCEPT ![m] = Accessed(memory[m])] /\ halfAdded' = halfAdded
    BY <1>8 DEF GetMemory
  <2> QED
    BY <2>2, <2>3, OneRowStep
<1>9. ASSUME NEW m \in Mems, DeleteMemory(m)
      PROVE  RowsOK' /\ ImportantStep
  <2>1. Deleted \in Rows /\ Deleted \notin Stored /\ Deleted.scope # "archived"
    BY RowKinds DEF Rows
  <2>2. memory' = [memory EXCEPT ![m] = Deleted] /\ halfAdded' = halfAdded
    BY <1>9 DEF DeleteMemory
  <2> QED
    BY <2>1, <2>2, OneRowStep
<1>10. ASSUME NEW m \in Mems, NEW scope \in Scopes, NEW importance \in 1..3,
              NEW summary \in {"none", "client"}, CreateMemory(m, scope, importance, summary)
       PROVE  RowsOK' /\ ImportantStep
  BY <1>10, AddStep DEF CreateMemory
<1> QED
  BY <1>1, <1>2, <1>3, <1>4, <1>5, <1>6, <1>7, <1>8, <1>9, <1>10,
     UpdateStep, PassTimeStep, CleanStep, CrashStep
  DEF MemNext, Curates, SessionStream, memVars

\* A turn that waits for a consolidation goes on with Consolidate alone, and
\* that is a pass.
LEMMA ConsolidationStep ==
    ASSUME RowsOK, NEW t \in Turns, NEW m \in Mems,
           postTurn[t] = "consolidate", Curates(t),
           ~Exists(m) \/ memory[m].scope = "archived"
    PROVE  memory'[m].scope = memory[m].scope
<1>1. PICK summarised, tagged \in SUBSET Mems : Consolidate(t, summarised, tagged)
  BY DEF Curates, Synthesized, AgentCurates
<1>2. KeptRow(memory[m], memory'[m])
  BY <1>1, ConsolidateKeeps DEF RowsOK, RowsTypeOK, Kept
<1>3. CASE ~Exists(m)
  BY <1>2, <1>3, ExistingRow DEF KeptRow
<1>4. CASE memory[m].scope = "archived"
  BY <1>2, <1>4 DEF KeptRow
<1> QED
  BY <1>3, <1>4

LEMMA MemInitially ==
    ASSUME MemInit
    PROVE  RowsOK /\ Counts
<1>1. RowsOK
  BY RowKinds DEF MemInit, RowsOK, RowsTypeOK, ReadOnce, Rows, Exists, Scopes, Unborn
<1>2. Counts
  BY MemoryAssumption DEF MemInit, Counts, CountsTypeOK, CurationsEarned
<1> QED
  BY <1>1, <1>2

-------------------------------------------------------------------------------
(* Memories: theorems *)

LEMMA RowsInvariant == MemSpec => []RowsOK
<1>1. MemInit => RowsOK
  BY MemInitially
<1>2. RowsOK /\ [MemNext]_memVars => RowsOK'
  BY RowsStep
<1> QED
  BY <1>1, <1>2, PTL DEF MemSpec

\* Whatever turns run at once: every automatic curation of Curator.run has
\* used up Interval recorded messages of its own.
THEOREM CurationsAreEarned == MemSpec => []CurationsEarned
<1>1. MemInit => Counts
  BY MemInitially
<1>2. Counts /\ [MemNext]_memVars => Counts'
  BY CountsStep
<1>3. Counts => CurationsEarned
  BY DEF Counts
<1> QED
  BY <1>1, <1>2, <1>3, PTL DEF MemSpec

\* Neither archive_stale_memories nor apply_grading ever archives a memory of
\* importance 3 that was read back when it was added.
THEOREM ImportantMemoriesStayOut == MemSpec => ImportantStayOut
<1>1. RowsOK /\ [MemNext]_memVars => [ImportantStep]_memVars
  BY RowsStep
<1> QED
  BY <1>1, RowsInvariant, PTL DEF MemSpec, ImportantStayOut, ImportantStep

\* The answer of a consolidation, however late, neither brings a memory back
\* nor takes one out of the archive.
THEOREM ArchiveIsKept == MemSpec => ConsolidationKeepsTheArchive
<1> DEFINE Step ==
        \A t \in Turns, m \in Mems :
            /\ postTurn[t] = "consolidate"
            /\ Curates(t)
            /\ ~Exists(m) \/ memory[m].scope = "archived"
            => memory'[m].scope = memory[m].scope
<1>1. RowsOK => [Step]_memVars
  BY ConsolidationStep
<1> QED
  BY <1>1, RowsInvariant, PTL DEF ConsolidationKeepsTheArchive

-------------------------------------------------------------------------------
(* Memories: the types *)

\* The handlers wait where they can, and no more is recorded than the bound.
TurnsOK ==
    /\ postTurn \in [Turns -> Places]
    /\ recorded <= MaxRecorded

MemIInv == RowsOK /\ Counts /\ TurnsOK

LEMMA RunTurns ==
    ASSUME TurnsOK, NEW t \in Turns, NEW rows, NEW useLlm, RunFrom(t, rows, useLlm)
    PROVE  postTurn' \in [Turns -> Places]
<1>1. \/ postTurn' = [postTurn EXCEPT ![t] = "quiet"]
      \/ postTurn' = [postTurn EXCEPT ![t] = "consolidate"]
  BY DEF RunFrom
<1> QED
  BY <1>1 DEF TurnsOK, Places

LEMMA AutoCurateTurns ==
    ASSUME TurnsOK, NEW t \in Turns, NEW rows, NEW count, NEW useLlm,
           AutoCurate(t, rows, count, useLlm)
    PROVE  postTurn' \in [Turns -> Places]
<1>1. CASE RunFrom(t, rows, useLlm)
  BY <1>1, RunTurns
<1>2. CASE postTurn' = [postTurn EXCEPT ![t] = "quiet"]
  BY <1>2 DEF TurnsOK, Places
<1> QED
  BY <1>1, <1>2 DEF AutoCurate

LEMMA TurnsStep ==
    ASSUME TurnsOK, CountsTypeOK, [MemNext]_memVars
    PROVE  TurnsOK'
<1>0. /\ postTurn \in [Turns -> Places] /\ recorded \in Nat /\ recorded <= MaxRecorded
      /\ MaxRecorded \in Nat
  BY MemoryAssumption DEF TurnsOK, CountsTypeOK
<1>1. Record => recorded' <= MaxRecorded
  BY <1>0 DEF Record
<1>2. ASSUME postTurn' \in [Turns -> Places], Record \/ recorded' = recorded \/ recorded' = 0
      PROVE  TurnsOK'
  BY <1>0, <1>1, <1>2 DEF TurnsOK
<1>3. ASSUME NEW t \in Turns, NEW at \in Places, postTurn' = [postTurn EXCEPT ![t] = at]
      PROVE  postTurn' \in [Turns -> Places]
  BY <1>0, <1>3
<1>4. ASSUME NEW t \in Turns, AgentAnswered(t) PROVE TurnsOK'
  <2>1. postTurn' = [postTurn EXCEPT ![t] = "synthesize"] /\ Record
    BY <1>4 DEF AgentAnswered
  <2> QED
    BY <1>2, <1>3, <2>1 DEF Places
<1>5. ASSUME NEW t \in Turns, Synthesized(t) PROVE TurnsOK'
  <2>1. postTurn' = [postTurn EXCEPT ![t] = "skill"] /\ recorded' = recorded
    BY <1>5 DEF Synthesized
  <2> QED
    BY <1>2, <1>3, <2>1 DEF Places
<1>6. ASSUME NEW t \in Turns, AgentCurates(t) PROVE TurnsOK'
  BY <1>2, <1>6, AutoCurateTurns DEF AgentCurates
<1>7. ASSUME NEW t \in Turns, NEW summarised, NEW tagged, Consolidate(t, summarised, tagged) PROVE TurnsOK'
  <2>1. postTurn' = [postTurn EXCEPT ![t] = "quiet"] /\ recorded' = recorded
    BY <1>7 DEF Consolidate
  <2> QED
    BY <1>2, <1>3, <2>1 DEF Places
<1>8. ASSUME NEW t \in Turns, NEW useLlm \in BOOLEAN, RecordAndCurate(t, useLlm) PROVE TurnsOK'
  BY <1>2, <1>8, AutoCurateTurns DEF RecordAndCurate
<1>9. ASSUME NEW t \in Turns, NEW useLlm \in BOOLEAN, RunCurator(t, useLlm) PROVE TurnsOK'
  BY <1>2, <1>9, RunTurns DEF RunCurator
<1>10. CASE UNCHANGED postTurn /\ (Record \/ recorded' = recorded)
  BY <1>0, <1>2, <1>10
<1>11. CASE Crash
  BY <1>2, <1>11 DEF Crash, Restart, Places
<1>12. ASSUME NEW m \in Mems,
              \/ GetMemory(m) \/ DeleteMemory(m) \/ UpdateMemory(m)
              \/ \E scope \in Scopes, importance \in 1..3, summary \in {"none", "client"} :
                   CreateMemory(m, scope, importance, summary)
       PROVE  TurnsOK'
  BY <1>10, <1>12 DEF GetMemory, DeleteMemory, UpdateMemory, CreateMemory
<1>13. CASE CleanMemories \/ PassTime \/ SessionStream \/ UNCHANGED memVars
  BY <1>10, <1>13 DEF CleanMemories, PassTime, SessionStream, memVars
<1> QED
  BY <1>4, <1>5, <1>6, <1>7, <1>8, <1>9, <1>11, <1>12, <1>13 DEF MemNext, Curates

\* No count passes the bound, because each curation has its messages.
LEMMA CountsAreBounded ==
    ASSUME Counts, recorded <= MaxRecorded
    PROVE  /\ messageCount \in 0..MaxRecorded /\ recorded \in 0..MaxRecorded
           /\ autoRuns \in 0..MaxRecorded
<1>1. /\ messageCount \in Nat /\ recorded \in Nat /\ autoRuns \in Nat
      /\ Interval \in Nat /\ Interval >= 1 /\ MaxRecorded \in Nat
  BY MemoryAssumption DEF Counts, CountsTypeOK
<1> DEFINE used == autoRuns * Interval
<1>2. used \in Nat /\ used + messageCount <= recorded
  BY <1>1 DEF Counts, CurationsEarned
<1>3. used >= autoRuns
  <2>1. autoRuns * (Interval - 1) \in Nat
    BY <1>1
  <2>2. used = autoRuns * (Interval - 1) + autoRuns
    BY <1>1
  <2> DEFINE rest == autoRuns * (Interval - 1)
  <2> HIDE DEF used, rest
  <2>3. rest \in Nat /\ used = rest + autoRuns
    BY <2>1, <2>2 DEF rest
  <2> QED
    BY <1>1, <2>3
<1> HIDE DEF used
<1> QED
  BY <1>1, <1>2, <1>3

LEMMA MemHolds == MemSpec => []MemIInv
<1>1. MemInit => MemIInv
  BY MemInitially, MemoryAssumption DEF MemIInv, TurnsOK, MemInit, Places
<1>2. MemIInv /\ [MemNext]_memVars => MemIInv'
  BY RowsStep, CountsStep, TurnsStep DEF MemIInv, Counts
<1> QED
  BY <1>1, <1>2, PTL DEF MemSpec

\* The variables of Memory stay in their types, and its counts in their bound.
THEOREM MemoriesWellTyped == MemSpec => []MemTypeOK
<1>1. MemIInv => MemTypeOK
  BY CountsAreBounded DEF MemIInv, RowsOK, RowsTypeOK, Rows, TurnsOK, MemTypeOK
<1> QED
  BY <1>1, MemHolds, PTL

-------------------------------------------------------------------------------
(* Skills: the slug *)

Alphabet == {"a", "A", "u", " ", "_", "-"}

\* What the creator makes of a name: lower-case letters and dashes, no dash at
\* either end and no two in a row.
GoodSlug(s) ==
    /\ s \in Seq({"a", "u", "-"})
    /\ s # <<>>
    /\ s[Len(s)] # "-"
    /\ \A k \in DOMAIN s : s[k] = "-" => k > 1 /\ s[k - 1] # "-"

LEMMA LowerCaseType ==
    ASSUME NEW c, Alphanumeric(c)
    PROVE  LowerCase(c) \in {"a", "u"}
BY DEF Alphanumeric, LowerCase

LEMMA SlugIsGood ==
    ASSUME NEW name \in Seq(Alphabet)
    PROVE  GoodSlug(Slug(name))
<1> DEFINE n == Len(name)
           kept == {i \in DOMAIN name :
                    \/ Alphanumeric(name[i])
                    \/ /\ i > 1 /\ Alphanumeric(name[i - 1])
                       /\ \E j \in i..Len(name) : Alphanumeric(name[j])}
           places == Select([i \in DOMAIN name |-> i], kept)
           m == Len(places)
           slug == [k \in DOMAIN places |->
                    IF Alphanumeric(name[places[k]]) THEN LowerCase(name[places[k]]) ELSE "-"]
<1>1. Slug(name) = IF slug = <<>> THEN Untitled ELSE slug
  BY DEF Slug
<1>2. n \in Nat /\ DOMAIN name = 1..n
  OBVIOUS
<1>3. \A i \in 1..n :
        i \in kept <=> \/ Alphanumeric(name[i])
                       \/ /\ i > 1 /\ Alphanumeric(name[i - 1])
                          /\ \E j \in i..n : Alphanumeric(name[j])
  BY <1>2
<1>4. kept \subseteq 1..n
  BY <1>2
<1> HIDE DEF kept
<1>5. places \in Seq(1..n) /\ Elements(places) = kept /\ Ordered(places, Less)
  <2> DEFINE numbers == [i \in 1..n |-> i]
  <2>1. numbers \in Seq(1..n) /\ Elements(numbers) = 1..n /\ Ordered(numbers, Less)
    BY <1>2, CountingUp
  <2>2. places = Select(numbers, kept)
    BY <1>2
  <2> HIDE DEF numbers, places
  <2>3. places \in Seq(1..n)
    BY <2>1, <2>2, SelectType
  <2>4. Elements(places) = (1..n) \intersect kept
    BY <2>1, <2>2, SelectElements
  <2>5. Ordered(places, Less)
    BY <2>1, <2>2, SelectOrdered
  <2> QED
    BY <1>4, <2>3, <2>4, <2>5
<1> HIDE DEF places
<1>6. m \in Nat /\ DOMAIN places = 1..m /\ \A k \in 1..m : places[k] \in 1..n /\ places[k] \in kept
  BY <1>5 DEF Elements
<1>7. \A x \in kept : \E k \in 1..m : places[k] = x
  BY <1>5, <1>6 DEF Elements
<1>8. \A k, l \in 1..m : k < l => places[k] < places[l]
  BY <1>5, <1>6 DEF Ordered, Less
<1> DEFINE Letter(k) == Alphanumeric(name[places[k]])
<1>9. ASSUME NEW k \in 1..m
      PROVE  /\ slug[k] \in {"a", "u", "-"}
             /\ slug[k] = "-" <=> ~Letter(k)
  <2>1. slug[k] = IF Letter(k) THEN LowerCase(name[places[k]]) ELSE "-"
    BY <1>6
  <2>2. CASE Letter(k)
    BY <2>1, <2>2, LowerCaseType
  <2>3. CASE ~Letter(k)
    BY <2>1, <2>3
  <2> QED
    BY <2>2, <2>3
<1>10. slug \in Seq({"a", "u", "-"}) /\ Len(slug) = m /\ DOMAIN slug = 1..m
  <2>1. slug \in [1..m -> {"a", "u", "-"}]
    BY <1>6, <1>9
  <2> HIDE DEF slug
  <2> QED
    BY <1>6, <2>1
<1> HIDE DEF slug
<1>11. ASSUME NEW k \in 1..m, ~Letter(k)
       PROVE  /\ k > 1 /\ Letter(k - 1)
              /\ k # m
  <2> DEFINE i == places[k]
  <2>1. i \in 1..n /\ i > 1 /\ Alphanumeric(name[i - 1]) /\ \E j \in i..n : Alphanumeric(name[j])
    BY <1>3, <1>6, <1>11
  <2>2. k > 1 /\ Letter(k - 1)
    <3>1. i - 1 \in 1..n /\ i - 1 \in kept
      BY <1>2, <1>3, <2>1
    <3>2. PICK l \in 1..m : places[l] = i - 1
      BY <1>7, <3>1
    <3>3. l < k
      <4>1. ~(k < l) /\ l # k
        BY <1>6, <1>8, <2>1, <3>2
      <4> QED
        BY <1>6, <4>1
    <3>4. k > 1 /\ k - 1 \in 1..m /\ (l = k - 1 \/ l < k - 1) /\ k - 1 < k
      BY <1>6, <3>3
    <3>5. places[k - 1] = i - 1
      <4>1. places[k - 1] < i /\ (l < k - 1 => i - 1 < places[k - 1]) /\ places[k - 1] \in Nat /\ i \in Nat
        BY <1>6, <1>8, <2>1, <3>2, <3>4
      <4> QED
        BY <3>2, <3>4, <4>1
    <3> QED
      BY <2>1, <3>4, <3>5
  <2>3. k # m
    <3> SUFFICES ASSUME k = m PROVE FALSE
      OBVIOUS
    <3>1. PICK j \in i..n : Alphanumeric(name[j])
      BY <2>1
    <3>2. j \in 1..n /\ j \in kept /\ j # i
      BY <1>2, <1>3, <1>11, <2>1, <3>1
    <3>3. j > i
      BY <1>2, <2>1, <3>1, <3>2
    <3>4. PICK l \in 1..m : places[l] = j
      BY <1>7, <3>2
    <3>5. l = m \/ l < m
      BY <1>6
    <3>6. j = i \/ j < i
      BY <1>8, <3>4, <3>5
    <3> QED
      BY <1>2, <2>1, <3>2, <3>3, <3>6
  <2> QED
    BY <2>2, <2>3
<1>12. CASE slug = <<>>
  <2>1. Slug(name) = Untitled
    BY <1>1, <1>12
  <2>2. Untitled \in Seq({"a", "u", "-"}) /\ Len(Untitled) = 1 /\ Untitled[1] = "u" /\ DOMAIN Untitled = 1..1
        /\ Untitled # <<>>
    BY DEF Untitled
  <2> HIDE DEF Untitled
  <2>3. GoodSlug(Untitled)
    BY <2>2 DEF GoodSlug
  <2> QED
    BY <2>1, <2>3
<1>13. CASE slug # <<>>
  <2>1. Slug(name) = slug
    BY <1>1, <1>13
  <2>2. m \in 1..m
    BY <1>6, <1>10, <1>13
  <2>3. Letter(m) /\ slug[m] # "-"
    BY <1>9, <1>11, <2>2
  <2>4. ASSUME NEW k \in 1..m, slug[k] = "-"
        PROVE  k > 1 /\ slug[k - 1] # "-"
    <3>1. ~Letter(k)
      BY <1>9, <2>4
    <3>2. k > 1 /\ Letter(k - 1)
      BY <1>11, <3>1
    <3>3. k - 1 \in 1..m
      BY <1>6, <3>2
    <3> QED
      BY <1>9, <3>2, <3>3
  <2>5. GoodSlug(slug)
    BY <1>10, <1>13, <2>3, <2>4 DEF GoodSlug
  <2> QED
    BY <2>1, <2>5
<1> QED
  BY <1>12, <1>13

\* Such a name is its own slug, and the patcher looks for it as it is.
LEMMA GoodSlugStays ==
    ASSUME NEW s, GoodSlug(s)
    PROVE  Slug(s) = s /\ PatchStem(s) = s
<1> DEFINE n == Len(s)
           kept == {i \in DOMAIN s :
                    \/ Alphanumeric(s[i])
                    \/ /\ i > 1 /\ Alphanumeric(s[i - 1])
                       /\ \E j \in i..Len(s) : Alphanumeric(s[j])}
           places == Select([i \in DOMAIN s |-> i], kept)
           slug == [k \in DOMAIN places |->
                    IF Alphanumeric(s[places[k]]) THEN LowerCase(s[places[k]]) ELSE "-"]
<1>1. /\ s \in Seq({"a", "u", "-"}) /\ s # <<>> /\ s[n] # "-"
      /\ \A k \in DOMAIN s : s[k] = "-" => k > 1 /\ s[k - 1] # "-"
  BY DEF GoodSlug
<1>2. n \in Nat /\ DOMAIN s = 1..n /\ n >= 1 /\ \A i \in 1..n : s[i] \in {"a", "u", "-"}
  BY <1>1
<1>10. s = [i \in 1..n |-> s[i]]
  <2>1. s \in [1..n -> {"a", "u", "-"}]
    BY <1>1, <1>2
  <2> QED
    BY <2>1
<1>3. \A i \in 1..n : s[i] # "-" => Alphanumeric(s[i]) /\ LowerCase(s[i]) = s[i]
  BY <1>2 DEF Alphanumeric, LowerCase
<1>4. ~Alphanumeric("-")
  BY DEF Alphanumeric
<1>5. ASSUME NEW i \in 1..n
      PROVE  i \in kept
  <2>1. CASE s[i] # "-"
    BY <1>2, <1>3, <2>1
  <2>2. CASE s[i] = "-"
    <3>1. i > 1 /\ s[i - 1] # "-"
      BY <1>1, <1>2, <1>5, <2>2
    <3>3. i - 1 \in 1..n
      BY <1>2, <1>5, <3>1
    <3>2. n \in i..n /\ Alphanumeric(s[n])
      BY <1>1, <1>2, <1>3
    <3>4. Alphanumeric(s[i - 1])
      BY <1>3, <3>1, <3>3
    <3> QED
      BY <1>2, <3>1, <3>2, <3>4
  <2> QED
    BY <2>1, <2>2
<1> HIDE DEF kept
<1>6. places = [i \in 1..n |-> i]
  <2> DEFINE numbers == [i \in 1..n |-> i]
  <2>1. numbers \in Seq(1..n) /\ Elements(numbers) = 1..n
    BY <1>2, CountingUp
  <2>2. places = Select(numbers, kept)
    BY <1>2
  <2> HIDE DEF numbers, places
  <2>3. Elements(numbers) \subseteq kept
    BY <1>5, <2>1
  <2>4. Select(numbers, kept) = numbers
    BY <2>1, <2>3, SelectAll
  <2> QED
    BY <2>2, <2>4 DEF numbers
<1> HIDE DEF places
<1>7. slug = s
  <2>1. DOMAIN slug = 1..n
    BY <1>2, <1>6
  <2>2. ASSUME NEW k \in 1..n
        PROVE  slug[k] = s[k]
    <3>1. places[k] = k /\ k \in DOMAIN places
      BY <1>6
    <3>2. slug[k] = IF Alphanumeric(s[k]) THEN LowerCase(s[k]) ELSE "-"
      BY <3>1
    <3>3. CASE s[k] # "-"
      BY <1>3, <3>2, <3>3
    <3>4. CASE s[k] = "-"
      BY <1>4, <3>2, <3>4
    <3> QED
      BY <3>3, <3>4
  <2>3. slug = [k \in 1..n |-> slug[k]]
    BY <2>1
  <2> HIDE DEF slug
  <2> QED
    BY <1>10, <2>2, <2>3
<1>8. Slug(s) = s
  <2>1. Slug(s) = IF slug = <<>> THEN Untitled ELSE slug
    BY DEF Slug, kept, places
  <2> HIDE DEF slug
  <2> QED
    BY <1>1, <1>7, <2>1
<1>9. PatchStem(s) = s
  <2>1. PatchStem(s) = [i \in 1..n |-> s[i]]
    BY <1>2 DEF PatchStem
  <2>2. s = [i \in 1..n |-> s[i]]
    BY <1>10
  <2> QED
    BY <2>1, <2>2
<1> QED
  BY <1>8, <1>9

-------------------------------------------------------------------------------
(* Skills: the files the API makes *)

\* What the API makes is called by a slug.
SkillDisk(disk) ==
    /\ disk \in [Stems -> File \union {NoFile}]
    /\ \A s \in Stems : disk[s].by = "api" => GoodSlug(s)

LEMMA SlugsOfNames ==
    ASSUME NEW name \in SkillNames
    PROVE  Slug(name) \in Stems /\ PatchStem(name) \in Stems /\ GoodSlug(Slug(name))
<1>1. name \in Seq(Alphabet)
  BY SkillAssumption DEF Alphabet
<1>2. Slug(name) \in Stems /\ PatchStem(name) \in Stems
  BY DEF Stems
<1> QED
  BY <1>1, <1>2, SlugIsGood

LEMMA CreatedDisk ==
    ASSUME NEW disk, SkillDisk(disk), NEW name \in SkillNames, NEW found \in 0..2
    PROVE  SkillDisk(Created(disk, name, found))
<1> DEFINE stem == Slug(name)
           next == Written(found)
           after == [disk EXCEPT ![stem] = next]
<1>1. stem \in Stems /\ GoodSlug(stem)
  BY SlugsOfNames
<1>2. next \in File
  BY DEF Written, File
<1>3. Created(disk, name, found) = after
  BY DEF Created, CreateStem
<1> HIDE DEF stem, next
<1>4. after \in [Stems -> File \union {NoFile}]
  BY <1>1, <1>2 DEF SkillDisk
<1>5. ASSUME NEW s \in Stems, after[s].by = "api"
      PROVE  GoodSlug(s)
  BY <1>1, <1>5 DEF SkillDisk
<1> HIDE DEF after
<1> QED
  BY <1>3, <1>4, <1>5 DEF SkillDisk

LEMMA PatchedDisk ==
    ASSUME NEW disk, SkillDisk(disk), NEW name \in SkillNames, NEW all,
           PatchAllowed(disk, name)
    PROVE  SkillDisk(PatchedFile(disk, name, all))
<1> DEFINE stem == PatchStem(name)
           left == IF all THEN 0 ELSE disk[stem].found - 1
           next == [disk[stem] EXCEPT !.found = left]
           after == [disk EXCEPT ![stem] = next]
<1>1. stem \in Stems /\ disk[stem] # NoFile /\ disk[stem].found > 0
  BY DEF PatchAllowed
<1>2. disk[stem] \in File
  BY <1>1 DEF SkillDisk
<1>3. disk[stem].found \in 1..2 /\ disk[stem].by \in {"api", "operator"}
  BY <1>1, <1>2 DEF File
<1>4. left \in 0..2
  BY <1>3
<1>5. PatchedFile(disk, name, all) = after
  <2>1. PatchedFile(disk, name, all)
          = [disk EXCEPT ![stem] = [disk[stem] EXCEPT !.found = IF all THEN 0 ELSE @ - 1]]
    BY <1>1 DEF PatchedFile
  <2> QED
    BY <1>2, <2>1 DEF File
<1> HIDE DEF left
<1>6. next \in File /\ next.by = disk[stem].by
  BY <1>2, <1>4 DEF File
<1> HIDE DEF stem, next
<1>7. after \in [Stems -> File \union {NoFile}]
  BY <1>1, <1>6 DEF SkillDisk
<1>8. ASSUME NEW s \in Stems, after[s].by = "api"
      PROVE  GoodSlug(s)
  <2>1. disk[s].by = "api"
    BY <1>1, <1>6, <1>8 DEF SkillDisk
  <2> QED
    BY <2>1 DEF SkillDisk
<1> HIDE DEF after
<1> QED
  BY <1>5, <1>7, <1>8 DEF SkillDisk

LEMMA SuggestedDisk ==
    ASSUME NEW disk, SkillDisk(disk), NEW after \in Suggested(disk)
    PROVE  SkillDisk(after)
BY PatchedDisk DEF Suggested

\* The state holds such files, and turns that were given what is on disk.
SkillInv == SkillDisk(files) /\ SkillTypeOK

\* A turn sees nothing of an empty cache, and misses what is on disk.
LEMMA SearchType ==
    ASSUME NEW query
    PROVE  SkillSearch(NewCache, query) \in SUBSET Stems /\ Matched(query) \in SUBSET Stems
BY DEF SkillSearch, NewCache, Matched, Loaded, OnDisk

ChatTurns == [at : {"idle", "turn", "extract"}, context : SUBSET Stems, missed : SUBSET Stems]

LEMMA SkillInvInit == SkillInit => SkillInv
<1> SUFFICES ASSUME SkillInit PROVE SkillInv
  OBVIOUS
<1>1. files \in [Stems -> {NoFile} \union [by : {"operator"}, found : 0..1]]
  BY DEF SkillInit
<1>2. [by : {"operator"}, found : 0..1] \subseteq File
  BY DEF File
<1>3. \A s \in Stems : files[s].by # "api"
  BY <1>1 DEF NoFile
<1>4. files \in [Stems -> File \union {NoFile}]
  BY <1>1, <1>2
<1>5. NoChat \in ChatTurns
  BY DEF NoChat, ChatTurns
<1>6. chat \in [Chats -> ChatTurns]
  BY <1>5 DEF SkillInit
<1> QED
  BY <1>3, <1>4, <1>6 DEF SkillInv, SkillDisk, SkillTypeOK, ChatTurns

\* Good files and a typed turn in one slot are the invariant again.
LEMMA SkillStep ==
    ASSUME SkillInv, SkillDisk(files'),
           \/ UNCHANGED chat
           \/ \E r \in Chats, next \in ChatTurns : chat' = [chat EXCEPT ![r] = next]
    PROVE  SkillInv'
<1>1. chat \in [Chats -> ChatTurns]
  BY DEF SkillInv, SkillTypeOK, ChatTurns
<1>2. chat' \in [Chats -> ChatTurns]
  BY <1>1
<1>3. files' \in [Stems -> File \union {NoFile}]
      /\ \A s \in Stems : files'[s].by = "api" => GoodSlug(s)
  BY DEF SkillDisk
<1> QED
  BY <1>2, <1>3 DEF SkillInv, SkillDisk, SkillTypeOK, ChatTurns

LEMMA SkillInvNext == SkillInv /\ [SkillNext]_skillVars => SkillInv'
<1> SUFFICES ASSUME SkillInv, [SkillNext]_skillVars PROVE SkillInv'
  OBVIOUS
<1>1. SkillDisk(files) /\ chat \in [Chats -> ChatTurns]
  BY DEF SkillInv, SkillTypeOK, ChatTurns
<1>2. ASSUME UNCHANGED files PROVE SkillDisk(files')
  BY <1>1, <1>2
<1>3. NoChat \in ChatTurns
  BY DEF NoChat, ChatTurns
<1>4. ASSUME NEW n \in SkillNames, NEW found \in 0..2, NEW overwrite \in BOOLEAN,
             CreateSkill(n, found, overwrite)
      PROVE  SkillInv'
  <2>1. SkillDisk(files') /\ UNCHANGED chat
    BY <1>1, <1>4, CreatedDisk DEF CreateSkill
  <2> QED
    BY <2>1, SkillStep
<1>5. ASSUME NEW n \in SkillNames, DeleteSkill(n)
      PROVE  SkillInv'
  <2>1. Slug(n) \in Stems /\ files' = [files EXCEPT ![Slug(n)] = NoFile] /\ UNCHANGED chat
    BY <1>5, SlugsOfNames DEF DeleteSkill
  <2>2. NoFile.by # "api"
    BY DEF NoFile
  <2>3. SkillDisk(files')
    <3>1. files' \in [Stems -> File \union {NoFile}]
      BY <1>1, <2>1 DEF SkillDisk
    <3>2. ASSUME NEW s \in Stems, files'[s].by = "api"
          PROVE  GoodSlug(s)
      BY <1>1, <2>1, <2>2, <3>2 DEF SkillDisk
    <3> QED
      BY <3>1, <3>2 DEF SkillDisk
  <2> QED
    BY <2>1, <2>3, SkillStep
<1>6. ASSUME NEW n \in SkillNames, NEW all \in BOOLEAN, PatchSkill(n, all)
      PROVE  SkillInv'
  <2>1. SkillDisk(files') /\ UNCHANGED chat
    BY <1>1, <1>6, PatchedDisk DEF PatchSkill
  <2> QED
    BY <2>1, SkillStep
<1>7. ASSUME NEW r \in Chats, NEW q \in Queries, StartChat(r, q)
      PROVE  SkillInv'
  <2> DEFINE inPrompt == SkillSearch(NewCache, q)
             missed == Matched(q) \ inPrompt
             next == [at |-> "turn", context |-> inPrompt, missed |-> missed]
  <2>1. inPrompt \in SUBSET Stems /\ missed \in SUBSET Stems
    BY SearchType
  <2>2. chat' = [chat EXCEPT ![r] = next] /\ UNCHANGED files
    BY <1>7 DEF StartChat
  <2> HIDE DEF inPrompt, missed
  <2>3. next \in ChatTurns
    BY <2>1 DEF ChatTurns
  <2> QED
    BY <1>2, <2>2, <2>3, SkillStep
<1>8. ASSUME NEW r \in Chats, ExtractSkill(r)
      PROVE  SkillInv'
  <2> DEFINE next == [chat[r] EXCEPT !.at = "extract"]
  <2>1. chat' = [chat EXCEPT ![r] = next] /\ UNCHANGED files
    BY <1>8 DEF ExtractSkill
  <2>2. next \in ChatTurns
    BY <1>1 DEF ChatTurns
  <2> QED
    BY <1>2, <2>1, <2>2, SkillStep
<1>9. ASSUME NEW r \in Chats, EndChat(r)
      PROVE  SkillInv'
  <2>1. SkillDisk(files') /\ chat' = [chat EXCEPT ![r] = NoChat]
    BY <1>1, <1>9, SuggestedDisk DEF EndChat
  <2> QED
    BY <1>3, <2>1, SkillStep
<1>10. ASSUME NEW r \in Chats, NEW n \in SkillNames, NEW found \in 0..2,
              SkillExtracted(r, n, found)
       PROVE  SkillInv'
  <2>1. chat' = [chat EXCEPT ![r] = NoChat]
    BY <1>10 DEF SkillExtracted
  <2>2. CASE files' \in Suggested(files)
    BY <1>1, <1>3, <2>1, <2>2, SuggestedDisk, SkillStep
  <2>3. CASE files' \in Suggested(Created(files, n, found))
    <3>1. SkillDisk(Created(files, n, found))
      BY <1>1, CreatedDisk
    <3> QED
      BY <1>3, <2>1, <2>3, <3>1, SuggestedDisk, SkillStep
  <2> QED
    BY <1>10, <2>2, <2>3 DEF SkillExtracted
<1>11. CASE UNCHANGED skillVars
  BY <1>2, <1>11, SkillStep DEF skillVars
<1> QED
  BY <1>4, <1>5, <1>6, <1>7, <1>8, <1>9, <1>10, <1>11 DEF SkillNext

LEMMA SkillInvHolds == SkillSpec => []SkillInv
<1>1. SkillInit => SkillInv
  BY SkillInvInit
<1>2. SkillInv /\ [SkillNext]_skillVars => SkillInv'
  BY SkillInvNext
<1> QED
  BY <1>1, <1>2, PTL DEF SkillSpec

\* Whatever names clients and models choose, a file the API or an agent made
\* has one name for the loader, the creator, the patcher and the handlers:
\* _sanitize_name leaves it alone, and so does the patcher's replacement.
THEOREM MadeSkillsHaveOneName == SkillSpec => []MadeSkillsAreReached
<1>1. SkillInv => MadeSkillsAreReached
  BY GoodSlugStays DEF SkillInv, SkillDisk, MadeSkillsAreReached
<1> QED
  BY <1>1, SkillInvHolds, PTL

\* The variables of Skills stay in their types.
THEOREM SkillsWellTyped == SkillSpec => []SkillTypeOK
<1>1. SkillInv => SkillTypeOK
  BY DEF SkillInv
<1> QED
  BY <1>1, SkillInvHolds, PTL

-------------------------------------------------------------------------------
(* The context of a turn: compression *)

LEMMA ContextNumbers ==
    KeepLast \in Nat /\ MaxMessages \in Nat
BY ContextAssumption

LEMMA MessageTypes ==
    /\ SummaryMessage \in Message /\ SummaryMessage.role = "user"
    /\ \A role \in Roles, place \in 0..MaxMessages :
         /\ Own(role, place) \in Message
         /\ Own(role, place).role = role /\ Own(role, place).place = place
    /\ \A sections \in SUBSET {"files", "past", "memories"} :
         /\ SystemPrompt(sections) \in Message
         /\ SystemPrompt(sections).role = "system"
         /\ SystemPrompt(sections).place = 0
         /\ SystemPrompt(sections).enriched = sections
BY ContextNumbers DEF SummaryMessage, SystemPrompt, Own, Message, Roles

\* What compression keeps of a list: no more messages than it had, the leading
\* system message at its head, the last KeepLast at its end, and nothing that
\* was not there but the summary.
LEMMA CompressedKeeps ==
    ASSUME NEW list \in Seq(Message), Compressible(list)
    PROVE  /\ Compressed(list) \in Seq(Message)
           /\ Len(Compressed(list)) <= Len(list)
           /\ Len(Compressed(list)) >= KeepLast
           /\ \A k \in 0..(KeepLast - 1) :
                Compressed(list)[Len(Compressed(list)) - k] = list[Len(list) - k]
           /\ Elements(Compressed(list)) \subseteq Elements(list) \union {SummaryMessage}
           /\ PrefixCount(list) = 1 => list[1] \in Elements(Compressed(list))
<1> DEFINE n == Len(list)
           p == PrefixCount(list)
           first == SubSeq(list, 1, p)
           middle == <<SummaryMessage>>
           recent == SubSeq(list, n - KeepLast + 1, n)
           start == first \o middle
           short == start \o recent
<1>1. /\ n \in Nat /\ p \in {0, 1} /\ n > KeepLast + 2 /\ KeepLast \in Nat
      /\ DOMAIN list = 1..n /\ \A i \in 1..n : list[i] \in Message
  BY ContextNumbers DEF PrefixCount, Compressible
<1>2. Compressed(list) = short
  BY DEF Compressed, MiddleEnd
<1> HIDE DEF n, p
<1>3. first \in Seq(Message) /\ Len(first) = p /\ \A i \in 1..p : first[i] = list[i]
  <2>1. \A i \in 1..p : list[i] \in Message /\ i \in 1..n
    BY <1>1
  <2>2. /\ first \in Seq(Message)
        /\ Len(first) = IF 1 <= p THEN p - 1 + 1 ELSE 0
        /\ \A i \in 1..(p - 1 + 1) : first[i] = list[1 + i - 1]
    BY <1>1, <2>1, SubSeqProperties
  <2> QED
    BY <1>1, <2>2
<1>4. middle \in Seq(Message) /\ Len(middle) = 1 /\ middle[1] = SummaryMessage
  BY MessageTypes
<1>5. /\ recent \in Seq(Message) /\ Len(recent) = KeepLast
      /\ \A i \in 1..KeepLast : recent[i] = list[n - KeepLast + i]
  <2>1. \A i \in (n - KeepLast + 1)..n : list[i] \in Message
    BY <1>1
  <2>2. /\ recent \in Seq(Message)
        /\ Len(recent) = IF n - KeepLast + 1 <= n THEN n - (n - KeepLast + 1) + 1 ELSE 0
        /\ \A i \in 1..(n - (n - KeepLast + 1) + 1) : recent[i] = list[(n - KeepLast + 1) + i - 1]
    BY <1>1, <2>1, SubSeqProperties
  <2>3. n - (n - KeepLast + 1) + 1 = KeepLast
    BY <1>1
  <2>4. \A i \in 1..KeepLast : (n - KeepLast + 1) + i - 1 = n - KeepLast + i
    BY <1>1
  <2>5. Len(recent) = KeepLast
    BY <1>1, <2>2, <2>3
  <2> QED
    BY <2>2, <2>3, <2>4, <2>5
<1> HIDE DEF first, middle, recent
<1>6. /\ start \in Seq(Message) /\ Len(start) = p + 1
      /\ \A i \in 1..(p + 1) : start[i] = IF i <= p THEN list[i] ELSE SummaryMessage
  <2>1. /\ start \in Seq(Message) /\ Len(start) = Len(first) + Len(middle)
        /\ \A i \in 1..(Len(first) + Len(middle)) :
             start[i] = IF i <= Len(first) THEN first[i] ELSE middle[i - Len(first)]
    BY <1>3, <1>4, ConcatProperties
  <2>2. \A i \in 1..(p + 1) : ~(i <= p) => i - p = 1
    BY <1>1
  <2> QED
    BY <1>1, <1>3, <1>4, <2>1, <2>2
<1> HIDE DEF start
<1>7. /\ short \in Seq(Message) /\ Len(short) = p + 1 + KeepLast
      /\ \A i \in 1..(p + 1 + KeepLast) :
           short[i] = IF i <= p + 1 THEN start[i] ELSE recent[i - (p + 1)]
  <2>1. /\ short \in Seq(Message) /\ Len(short) = Len(start) + Len(recent)
        /\ \A i \in 1..(Len(start) + Len(recent)) :
             short[i] = IF i <= Len(start) THEN start[i] ELSE recent[i - Len(start)]
    BY <1>5, <1>6, ConcatProperties
  <2> QED
    BY <1>5, <1>6, <2>1
<1> HIDE DEF short
<1>8. Len(short) <= n /\ Len(short) >= KeepLast
  BY <1>1, <1>7
<1>9. ASSUME NEW k \in 0..(KeepLast - 1)
      PROVE  short[Len(short) - k] = list[n - k]
  <2>1. /\ Len(short) - k \in 1..(p + 1 + KeepLast) /\ ~(Len(short) - k <= p + 1)
        /\ (Len(short) - k) - (p + 1) = KeepLast - k
    BY <1>1, <1>7
  <2>2. short[Len(short) - k] = recent[KeepLast - k]
    BY <1>7, <2>1
  <2>3. KeepLast - k \in 1..KeepLast /\ n - KeepLast + (KeepLast - k) = n - k
    BY <1>1
  <2> QED
    BY <1>5, <2>2, <2>3
<1>10. Elements(short) \subseteq Elements(list) \union {SummaryMessage}
  <2> SUFFICES ASSUME NEW i \in DOMAIN short
               PROVE  short[i] \in Elements(list) \union {SummaryMessage}
    BY DEF Elements
  <2>1. i \in 1..(p + 1 + KeepLast)
    BY <1>7
  <2>2. CASE i <= p
    <3>1. short[i] = list[i] /\ i \in DOMAIN list
      BY <1>1, <1>6, <1>7, <2>1, <2>2
    <3> QED
      BY <3>1 DEF Elements
  <2>3. CASE i = p + 1
    BY <1>1, <1>6, <1>7, <2>1, <2>3
  <2>4. CASE i > p + 1
    <3>1. short[i] = recent[i - (p + 1)] /\ i - (p + 1) \in 1..KeepLast
      BY <1>1, <1>7, <2>1, <2>4
    <3>2. n - KeepLast + (i - (p + 1)) \in DOMAIN list
      BY <1>1, <2>1, <2>4
    <3>3. short[i] = list[n - KeepLast + (i - (p + 1))]
      BY <1>5, <3>1
    <3> QED
      BY <3>2, <3>3 DEF Elements
  <2> QED
    BY <1>1, <2>1, <2>2, <2>3, <2>4
<1>11. p = 1 => list[1] \in Elements(short)
  <2>1. p = 1 => short[1] = list[1] /\ 1 \in DOMAIN short
    BY <1>1, <1>6, <1>7
  <2> QED
    BY <2>1 DEF Elements
<1> QED
  BY <1>2, <1>7, <1>8, <1>9, <1>10, <1>11 DEF n, p

-------------------------------------------------------------------------------
(* The context of a turn: the invariant *)

Recent(list) ==
    LET kept == IF Len(asked) < KeepLast THEN Len(asked) ELSE KeepLast
    IN  /\ Len(list) >= kept
        /\ \A k \in 0..(kept - 1) : list[Len(list) - k] = asked[Len(asked) - k]

SystemsIn(list) == {m \in Elements(list) : m.role = "system"}

\* The service's own prompt has all the context, and is there only when the
\* client brought no system message in the first place.
Instructs(m) ==
    m.place > 0 \/ (m.enriched = context /\ PrefixCount(asked) = 0)

MessagesOK ==
    /\ asked \in Seq(Message) /\ Len(asked) <= MaxMessages
    /\ context \subseteq {"files", "past", "memories"}
    /\ messages \in Seq(Message)
    /\ Len(messages) <= MaxMessages + 1
    /\ step \in {"idle", "compress", "prepare", "send", "sent"}
    /\ given \in [system : Seq(Message), rest : Seq(Message)]
    /\ Len(given.system) <= 1

ContextIInv ==
    /\ MessagesOK
    /\ \A m \in Elements(asked) : m.place > 0
    /\ step = "compress" => messages = asked
    /\ step \in {"compress", "prepare"} => Len(messages) <= MaxMessages
    /\ step \in {"prepare", "send"} => Recent(messages)
    /\ step = "prepare" => /\ \A m \in SystemsIn(messages) : m.place > 0
                           /\ PrefixCount(asked) = 1 => SystemsIn(messages) # {}
    /\ step = "send" => /\ SystemsIn(messages) # {}
                        /\ \A m \in SystemsIn(messages) : Instructs(m)
    /\ step = "sent" => given.system # <<>> /\ Instructs(given.system[1])
    /\ RecentSurvive

LEMMA MessagesAreTyped == MessagesOK => ContextTypeOK
BY DEF MessagesOK, ContextTypeOK

LEMMA SystemsThere ==
    ASSUME NEW list
    PROVE  HasSystem(list) <=> SystemsIn(list) # {}
BY DEF HasSystem, SystemsIn, Elements

LEMMA NothingGivenType ==
    /\ NothingGiven \in [system : Seq(Message), rest : Seq(Message)]
    /\ NothingGiven.system = <<>> /\ Len(NothingGiven.system) = 0
BY EmptySeq DEF NothingGiven

LEMMA ContextInitially == ContextInit => ContextIInv
<1> SUFFICES ASSUME ContextInit PROVE ContextIInv
  OBVIOUS
<1>1. /\ asked = <<>> /\ messages = <<>> /\ context = {} /\ given = NothingGiven /\ step = "idle"
  BY DEF ContextInit
<1>2. asked \in Seq(Message) /\ Len(asked) = 0 /\ Elements(asked) = {}
  BY <1>1, EmptySeq, ElementsEmpty
<1>3. MessagesOK
  BY <1>1, <1>2, ContextNumbers, NothingGivenType DEF MessagesOK
<1> QED
  BY <1>1, <1>2, <1>3 DEF ContextIInv, RecentSurvive

LEMMA StartTurnStep ==
    ASSUME ContextIInv, NEW n \in 0..MaxMessages, NEW roles \in [1..n -> Roles], StartTurn(roles)
    PROVE  ContextIInv'
<1>1. /\ asked' = [i \in 1..n |-> Own(roles[i], i)]
      /\ messages' = asked' /\ context' \in Sections(asked') /\ step' = "compress"
      /\ given' = given
  BY DEF StartTurn
<1>2. n \in Nat /\ n <= MaxMessages /\ MaxMessages \in Nat
  BY ContextNumbers
<1>3. \A i \in 1..n : Own(roles[i], i) \in Message /\ Own(roles[i], i).place > 0
  <2> TAKE i \in 1..n
  <2>1. roles[i] \in Roles /\ i \in 0..MaxMessages /\ i > 0
    BY <1>2
  <2> QED
    BY <2>1, MessageTypes
<1>4. asked' \in Seq(Message) /\ Len(asked') = n
  BY <1>1, <1>2, <1>3
<1>5. \A m \in Elements(asked') : m.place > 0
  BY <1>1, <1>3 DEF Elements
<1>6. context' \subseteq {"files", "past", "memories"}
  <2>1. context' \in SUBSET {"files", "past", "memories"} \/ context' \in SUBSET {"files"}
    BY <1>1 DEF Sections
  <2> QED
    BY <2>1
<1>7. given' \in [system : Seq(Message), rest : Seq(Message)] /\ Len(given'.system) <= 1
  BY <1>1 DEF ContextIInv, MessagesOK
<1>8. MessagesOK'
  <2>1. Len(messages') <= MaxMessages + 1
    BY <1>1, <1>2, <1>4
  <2> QED
    BY <1>1, <1>2, <1>4, <1>6, <1>7, <2>1 DEF MessagesOK
<1>9. Len(messages') <= MaxMessages
  BY <1>1, <1>2, <1>4
<1> QED
  BY <1>1, <1>5, <1>8, <1>9 DEF ContextIInv, RecentSurvive

\* The prefix is a system message of the request.
LEMMA PrefixIsSystem ==
    ASSUME NEW list \in Seq(Message), PrefixCount(list) = 1
    PROVE  list[1] \in SystemsIn(list) /\ list[1].role = "system"
<1>1. Len(list) > 0 /\ list[1].role = "system"
  BY DEF PrefixCount
<1>2. 1 \in DOMAIN list
  BY <1>1
<1> QED
  BY <1>1, <1>2 DEF SystemsIn, Elements

LEMMA CompressStep ==
    ASSUME ContextIInv, Compress
    PROVE  ContextIInv'
<1>1. /\ step = "compress" /\ step' = "prepare" /\ UNCHANGED <<asked, context, given>>
      /\ messages = asked /\ MessagesOK
      /\ \A m \in Elements(asked) : m.place > 0
      /\ Len(messages) <= MaxMessages
  BY DEF Compress, ContextIInv
<1>2. /\ asked \in Seq(Message) /\ Len(asked) \in Nat
      /\ KeepLast \in Nat /\ MaxMessages \in Nat
  BY <1>1, ContextNumbers DEF MessagesOK
<1>3. CASE messages' = messages
  <2>1. Recent(messages)
    BY <1>1, <1>2 DEF Recent
  <2>2. \A m \in SystemsIn(messages) : m.place > 0
    BY <1>1 DEF SystemsIn
  <2>3. PrefixCount(asked) = 1 => SystemsIn(messages) # {}
    BY <1>1, <1>2, PrefixIsSystem
  <2>4. MessagesOK'
    BY <1>1, <1>3 DEF MessagesOK
  <2>5. Recent(messages)' /\ SystemsIn(messages') = SystemsIn(messages)
    BY <1>1, <1>3, <2>1 DEF Recent
  <2> QED
    BY <1>1, <1>3, <2>2, <2>3, <2>4, <2>5 DEF ContextIInv, RecentSurvive
<1>4. CASE Compressible(messages) /\ messages' = Compressed(messages)
  <2> DEFINE short == Compressed(asked)
  <2>1. /\ short \in Seq(Message)
        /\ Len(short) <= Len(asked) /\ Len(short) >= KeepLast
        /\ \A k \in 0..(KeepLast - 1) : short[Len(short) - k] = asked[Len(asked) - k]
        /\ Elements(short) \subseteq Elements(asked) \union {SummaryMessage}
        /\ PrefixCount(asked) = 1 => asked[1] \in Elements(short)
    BY <1>1, <1>2, <1>4, CompressedKeeps
  <2>2. messages' = short /\ Len(asked) > KeepLast + 2
    BY <1>1, <1>4 DEF Compressible
  <2> HIDE DEF short
  <2>3. Recent(messages)'
    BY <1>1, <1>2, <2>1, <2>2 DEF Recent
  <2>4. \A m \in SystemsIn(messages') : m.place > 0
    BY <1>1, <2>1, <2>2, MessageTypes DEF SystemsIn
  <2>5. PrefixCount(asked) = 1 => SystemsIn(messages') # {}
    BY <1>2, <2>1, <2>2, PrefixIsSystem DEF SystemsIn
  <2>6. Len(messages') <= MaxMessages
    <3>1. Len(short) \in Nat
      BY <2>1
    <3> QED
      BY <1>1, <1>2, <2>1, <2>2, <3>1 DEF MessagesOK
  <2>7. MessagesOK'
    <3>1. Len(messages') \in Nat
      BY <2>1, <2>2
    <3>2. Len(messages') <= MaxMessages + 1
      BY <1>2, <2>6, <3>1
    <3> QED
      BY <1>1, <2>1, <2>2, <3>2 DEF MessagesOK
  <2> QED
    BY <1>1, <2>3, <2>4, <2>5, <2>6, <2>7 DEF ContextIInv, RecentSurvive
<1> QED
  BY <1>3, <1>4 DEF Compress

LEMMA PrepareStep ==
    ASSUME ContextIInv, Prepare
    PROVE  ContextIInv'
<1>1. /\ step = "prepare" /\ step' = "send" /\ UNCHANGED <<asked, context, given>>
      /\ MessagesOK /\ Recent(messages) /\ Len(messages) <= MaxMessages
      /\ \A m \in Elements(asked) : m.place > 0
      /\ \A m \in SystemsIn(messages) : m.place > 0
      /\ PrefixCount(asked) = 1 => SystemsIn(messages) # {}
  BY DEF Prepare, ContextIInv
<1>2. /\ messages \in Seq(Message) /\ Len(messages) \in Nat
      /\ asked \in Seq(Message) /\ Len(asked) \in Nat
      /\ KeepLast \in Nat /\ MaxMessages \in Nat
      /\ context \in SUBSET {"files", "past", "memories"}
  BY <1>1, ContextNumbers DEF MessagesOK
<1>3. CASE SystemsIn(messages) # {}
  <2>1. messages' = messages
    BY <1>3, SystemsThere DEF Prepare, WithoutSystem
  <2>2. MessagesOK' /\ Recent(messages)'
    BY <1>1, <2>1 DEF MessagesOK, Recent
  <2>3. SystemsIn(messages') # {} /\ \A m \in SystemsIn(messages') : Instructs(m)'
    BY <1>1, <1>3, <2>1 DEF Instructs
  <2> QED
    BY <1>1, <2>2, <2>3 DEF ContextIInv, RecentSurvive
<1>4. CASE SystemsIn(messages) = {}
  <2> DEFINE prompt == SystemPrompt(context)
             long == <<prompt>> \o messages
  <2>1. messages' = long
    BY <1>4, SystemsThere DEF Prepare, WithoutSystem
  <2>2. /\ prompt \in Message /\ prompt.role = "system" /\ prompt.place = 0
        /\ prompt.enriched = context
    BY <1>2, MessageTypes
  <2> HIDE DEF prompt
  <2>3. <<prompt>> \in Seq(Message) /\ Len(<<prompt>>) = 1 /\ <<prompt>>[1] = prompt
    BY <2>2
  <2>4. /\ long \in Seq(Message) /\ Len(long) = 1 + Len(messages)
        /\ \A i \in 1..(1 + Len(messages)) :
              long[i] = IF i <= 1 THEN <<prompt>>[i] ELSE messages[i - 1]
    BY <1>2, <2>3, ConcatProperties
  <2> HIDE DEF long
  <2>5. long[1] = prompt /\ \A i \in 2..(1 + Len(messages)) : long[i] = messages[i - 1]
    BY <1>2, <2>3, <2>4
  <2>6. MessagesOK'
    <3>1. Len(messages') <= MaxMessages + 1
      BY <1>1, <1>2, <2>1, <2>4
    <3> QED
      BY <1>1, <2>1, <2>4, <3>1 DEF MessagesOK
  <2>7. Recent(long)
    <3> DEFINE kept == IF Len(asked) < KeepLast THEN Len(asked) ELSE KeepLast
    <3>1. kept \in Nat /\ kept <= Len(messages)
      BY <1>1, <1>2 DEF Recent
    <3>2. ASSUME NEW k \in 0..(kept - 1)
          PROVE  long[Len(long) - k] = asked[Len(asked) - k]
      <4>1. messages[Len(messages) - k] = asked[Len(asked) - k]
        BY <1>1, <3>2 DEF Recent
      <4>2. Len(long) - k \in 2..(1 + Len(messages)) /\ (Len(long) - k) - 1 = Len(messages) - k
        BY <1>2, <2>4, <3>1
      <4> QED
        BY <2>5, <4>1, <4>2
    <3>3. Len(long) >= kept
      BY <1>2, <2>4, <3>1
    <3> QED
      BY <3>2, <3>3 DEF Recent
  <2>8. SystemsIn(long) = {prompt}
    <3>1. \A i \in DOMAIN long : long[i] = prompt \/ long[i] \in Elements(messages)
      <4> TAKE i \in DOMAIN long
      <4>1. i \in 1..(1 + Len(messages))
        BY <2>4
      <4>2. CASE i = 1
        BY <2>5, <4>2
      <4>3. CASE i # 1
        <5>1. i \in 2..(1 + Len(messages)) /\ i - 1 \in DOMAIN messages
          BY <1>2, <4>1, <4>3
        <5> QED
          BY <2>5, <5>1 DEF Elements
      <4> QED
        BY <4>2, <4>3
    <3>2. \A m \in Elements(long) : m = prompt \/ m \in Elements(messages)
      BY <3>1 DEF Elements
    <3>3. prompt \in Elements(long)
      <4>1. 1 \in DOMAIN long
        BY <1>2, <2>4
      <4> QED
        BY <2>5, <4>1 DEF Elements
    <3> QED
      BY <1>4, <2>2, <3>2, <3>3 DEF SystemsIn
  <2>9. PrefixCount(asked) = 0
    BY <1>1, <1>4 DEF PrefixCount
  <2>10. \A m \in SystemsIn(messages') : Instructs(m)'
    <3>1. prompt.enriched = context' /\ PrefixCount(asked') = 0
      BY <1>1, <2>2, <2>9
    <3>2. SystemsIn(messages') = {prompt}
      BY <2>1, <2>8
    <3> QED
      BY <3>1, <3>2 DEF Instructs
  <2>11. Recent(messages)'
    BY <1>1, <2>1, <2>7 DEF Recent
  <2> QED
    BY <1>1, <2>1, <2>6, <2>8, <2>10, <2>11 DEF ContextIInv, RecentSurvive
<1> QED
  BY <1>3, <1>4

LEMMA ConcatEnds ==
    ASSUME NEW S, NEW front \in Seq(S), NEW tail \in Seq(S)
    PROVE  EndsWith(front \o tail, tail)
<1> DEFINE list == front \o tail
<1>1. /\ list \in Seq(S) /\ Len(list) = Len(front) + Len(tail)
      /\ Len(front) \in Nat /\ Len(tail) \in Nat
      /\ \A i \in 1..(Len(front) + Len(tail)) :
           list[i] = IF i <= Len(front) THEN front[i] ELSE tail[i - Len(front)]
  BY ConcatProperties, LenProperties
<1> HIDE DEF list
<1>2. ASSUME NEW k \in 0..(Len(tail) - 1)
      PROVE  list[Len(list) - k] = tail[Len(tail) - k]
  <2>1. /\ Len(list) - k \in 1..(Len(front) + Len(tail)) /\ ~(Len(list) - k <= Len(front))
        /\ (Len(list) - k) - Len(front) = Len(tail) - k
    BY <1>1
  <2> QED
    BY <1>1, <2>1
<1>3. Len(tail) <= Len(list)
  BY <1>1
<1>4. EndsWith(list, tail)
  BY <1>2, <1>3 DEF EndsWith
<1> QED
  BY <1>4 DEF list

LEMMA EndsAreConcats ==
    ASSUME NEW S, NEW list \in Seq(S), NEW tail \in Seq(S), EndsWith(list, tail)
    PROVE  \E front \in Seq(S) : list = front \o tail
<1> DEFINE n == Len(list) - Len(tail)
           front == SubSeq(list, 1, n)
           joined == front \o tail
<1>1. /\ Len(list) \in Nat /\ Len(tail) \in Nat /\ n \in Nat /\ Len(list) = n + Len(tail)
      /\ \A i \in 1..Len(list) : list[i] \in S
      /\ \A k \in 0..(Len(tail) - 1) : list[Len(list) - k] = tail[Len(tail) - k]
  BY LenProperties DEF EndsWith
<1> HIDE DEF n
<1>2. front \in Seq(S) /\ Len(front) = n /\ \A i \in 1..n : front[i] = list[i]
  <2>1. \A i \in 1..n : list[i] \in S /\ i \in 1..Len(list)
    BY <1>1
  <2>2. /\ front \in Seq(S)
        /\ Len(front) = IF 1 <= n THEN n - 1 + 1 ELSE 0
        /\ \A i \in 1..(n - 1 + 1) : front[i] = list[1 + i - 1]
    BY <1>1, <2>1, SubSeqProperties
  <2> QED
    BY <1>1, <2>2
<1> HIDE DEF front
<1>3. /\ joined \in Seq(S) /\ Len(joined) = Len(list)
      /\ \A i \in 1..Len(list) : joined[i] = IF i <= n THEN front[i] ELSE tail[i - n]
  <2>1. /\ joined \in Seq(S) /\ Len(joined) = Len(front) + Len(tail)
        /\ \A i \in 1..(Len(front) + Len(tail)) :
             joined[i] = IF i <= Len(front) THEN front[i] ELSE tail[i - Len(front)]
    BY <1>2, ConcatProperties
  <2> QED
    BY <1>1, <1>2, <2>1
<1> HIDE DEF joined
<1>4. ASSUME NEW i \in 1..Len(list)
      PROVE  joined[i] = list[i]
  <2>1. CASE i <= n
    BY <1>1, <1>2, <1>3, <2>1
  <2>2. CASE ~(i <= n)
    <3>1. Len(list) - i \in 0..(Len(tail) - 1) /\ Len(tail) - (Len(list) - i) = i - n
          /\ Len(list) - (Len(list) - i) = i
      BY <1>1, <2>2
    <3>2. list[i] = tail[i - n]
      BY <1>1, <3>1
    <3> QED
      BY <1>3, <2>2, <3>2
  <2> QED
    BY <2>1, <2>2
<1>5. joined = list
  BY <1>3, <1>4, SeqEqual
<1> QED
  BY <1>2, <1>5 DEF joined

\* What is selected of a list ends with what is selected of its end.
LEMMA SelectEnds ==
    ASSUME NEW S, NEW list \in Seq(S), NEW tail \in Seq(S), NEW kept, EndsWith(list, tail)
    PROVE  EndsWith(Select(list, kept), Select(tail, kept))
<1>1. PICK front \in Seq(S) : list = front \o tail
  BY EndsAreConcats
<1>2. Select(list, kept) = Select(front, kept) \o Select(tail, kept)
  BY <1>1, SelectConcat
<1>3. Select(front, kept) \in Seq(S) /\ Select(tail, kept) \in Seq(S)
  BY SelectType
<1> QED
  BY <1>2, <1>3, ConcatEnds

\* The last messages of the request, and Recent in their terms.
LEMMA RecentEnds ==
    ASSUME asked \in Seq(Message), NEW list, Recent(list)
    PROVE  LastAsked \in Seq(Message) /\ EndsWith(list, LastAsked)
<1> DEFINE kept == IF Len(asked) < KeepLast THEN Len(asked) ELSE KeepLast
           tail == SubSeq(asked, Len(asked) - kept + 1, Len(asked))
<1>1. /\ kept \in Nat /\ Len(asked) \in Nat /\ kept <= Len(asked)
      /\ \A i \in 1..Len(asked) : asked[i] \in Message
  BY ContextNumbers
<1>2. /\ Len(list) >= kept
      /\ \A k \in 0..(kept - 1) : list[Len(list) - k] = asked[Len(asked) - k]
  BY DEF Recent
<1>3. LastAsked = tail
  BY DEF LastAsked
<1> HIDE DEF kept
<1>4. /\ tail \in Seq(Message) /\ Len(tail) = kept
      /\ \A i \in 1..kept : tail[i] = asked[Len(asked) - kept + i]
  <2>1. \A i \in (Len(asked) - kept + 1)..Len(asked) : asked[i] \in Message
    BY <1>1
  <2>2. /\ tail \in Seq(Message)
        /\ Len(tail) = IF Len(asked) - kept + 1 <= Len(asked)
                       THEN Len(asked) - (Len(asked) - kept + 1) + 1 ELSE 0
        /\ \A i \in 1..(Len(asked) - (Len(asked) - kept + 1) + 1) :
             tail[i] = asked[(Len(asked) - kept + 1) + i - 1]
    BY <1>1, <2>1, SubSeqProperties
  <2>3. Len(asked) - (Len(asked) - kept + 1) + 1 = kept
    BY <1>1
  <2>4. \A i \in 1..kept : (Len(asked) - kept + 1) + i - 1 = Len(asked) - kept + i
    BY <1>1
  <2>5. Len(tail) = kept
    BY <1>1, <2>2, <2>3
  <2> QED
    BY <2>2, <2>3, <2>4, <2>5
<1> HIDE DEF tail
<1>5. ASSUME NEW k \in 0..(Len(tail) - 1)
      PROVE  list[Len(list) - k] = tail[Len(tail) - k]
  <2>1. kept - k \in 1..kept /\ Len(asked) - kept + (kept - k) = Len(asked) - k /\ k \in 0..(kept - 1)
    BY <1>1, <1>4
  <2>2. tail[kept - k] = asked[Len(asked) - k]
    BY <1>4, <2>1
  <2> QED
    BY <1>2, <1>4, <2>1, <2>2
<1>6. Len(tail) <= Len(list)
  BY <1>2, <1>4
<1> QED
  BY <1>3, <1>4, <1>5, <1>6 DEF EndsWith

\* The last of the system messages is one of them, and the last of the recent
\* ones if there is one among these.
LEMMA SendStep ==
    ASSUME ContextIInv, Send
    PROVE  ContextIInv'
<1> DEFINE systems == Select(messages, SystemMessages)
           rest == Select(messages, Message \ SystemMessages)
           last == systems[Len(systems)]
<1>1. /\ step = "send" /\ step' = "sent" /\ UNCHANGED <<asked, context, messages>>
      /\ MessagesOK /\ SystemsIn(messages) # {}
      /\ \A m \in SystemsIn(messages) : Instructs(m)
      /\ \A m \in Elements(asked) : m.place > 0
      /\ given' = Split(messages)
      /\ asked \in Seq(Message) /\ Recent(messages)
  BY DEF Send, ContextIInv, MessagesOK
<1>2. messages \in Seq(Message) /\ Elements(messages) \subseteq Message
  BY <1>1, ElementsType DEF MessagesOK
<1>3. systems \in Seq(Message) /\ rest \in Seq(Message)
  BY <1>2, SelectType
<1>4. Elements(systems) = SystemsIn(messages)
  <2>1. Elements(systems) = Elements(messages) \intersect SystemMessages
    BY <1>2, SelectElements
  <2> QED
    BY <1>2, <2>1 DEF SystemsIn, SystemMessages
<1>5. given' = [system |-> IF systems = <<>> THEN <<>> ELSE <<last>>, rest |-> rest]
  BY <1>1 DEF Split
<1> HIDE DEF systems, rest
<1>6. systems # <<>>
  BY <1>1, <1>4, ElementsEmpty
<1>7. last \in Message /\ last \in SystemsIn(messages)
  <2>1. Len(systems) \in DOMAIN systems
    BY <1>3, <1>6
  <2> QED
    BY <1>2, <1>4, <2>1 DEF Elements, SystemsIn
<1> HIDE DEF last
<1>8. /\ given' = [system |-> <<last>>, rest |-> rest]
      /\ <<last>> \in Seq(Message) /\ Len(<<last>>) = 1 /\ <<last>> # <<>> /\ <<last>>[1] = last
  BY <1>5, <1>6, <1>7
<1>9. /\ given' \in [system : Seq(Message), rest : Seq(Message)]
      /\ Len(given'.system) <= 1 /\ given'.system # <<>> /\ given'.system[1] = last
  BY <1>3, <1>8
<1>10. MessagesOK'
  BY <1>1, <1>9 DEF MessagesOK
<1>11. Instructs(given.system[1])'
  <2>1. Instructs(last)
    BY <1>1, <1>7
  <2> QED
    BY <1>1, <1>9, <2>1 DEF Instructs
<1>12. RecentSurvive'
  <2> DEFINE latest == Select(LastAsked, SystemMessages)
  <2>1. LastAsked \in Seq(Message) /\ EndsWith(messages, LastAsked)
    BY <1>1, RecentEnds
  <2>2. EndsWith(rest, Select(LastAsked, Message \ SystemMessages))
    BY <1>2, <2>1, SelectEnds DEF rest
  <2>3. EndsWith(systems, latest) /\ latest \in Seq(Message)
    BY <1>2, <2>1, SelectEnds, SelectType DEF systems
  <2> HIDE DEF latest
  <2>4. latest # <<>> => last = latest[Len(latest)]
    <3>1. latest # <<>> => 0 \in 0..(Len(latest) - 1)
      BY <2>3, EmptySeq, LenProperties
    <3>2. \A k \in 0..(Len(latest) - 1) : systems[Len(systems) - k] = latest[Len(latest) - k]
      BY <2>3 DEF EndsWith
    <3>3. Len(systems) - 0 = Len(systems) /\ Len(latest) - 0 = Len(latest)
      BY <1>3, <2>3
    <3> QED
      BY <3>1, <3>2, <3>3 DEF last
  <2>5. given'.rest = rest /\ given'.system = <<last>>
    BY <1>8
  <2>6. LastAsked' = LastAsked /\ messages' = messages
    BY <1>1 DEF LastAsked
  <2> QED
    BY <2>1, <2>2, <2>4, <2>5, <2>6 DEF RecentSurvive, latest
<1> QED
  BY <1>1, <1>9, <1>10, <1>11, <1>12 DEF ContextIInv

LEMMA AnsweredStep ==
    ASSUME ContextIInv, Answered
    PROVE  ContextIInv'
<1>1. /\ asked' = <<>> /\ messages' = <<>> /\ context' = {} /\ given' = NothingGiven
      /\ step' = "idle"
  BY DEF Answered
<1>2. asked' \in Seq(Message) /\ Len(asked') = 0 /\ Elements(asked') = {}
  BY <1>1, EmptySeq, ElementsEmpty
<1>3. MessagesOK'
  BY <1>1, <1>2, ContextNumbers, NothingGivenType DEF MessagesOK
<1> QED
  BY <1>1, <1>2, <1>3 DEF ContextIInv, RecentSurvive

LEMMA ContextStep == ContextIInv /\ [ContextNext]_contextVars => ContextIInv'
<1> SUFFICES ASSUME ContextIInv, [ContextNext]_contextVars PROVE ContextIInv'
  OBVIOUS
<1>1. CASE UNCHANGED contextVars
  <2>1. UNCHANGED <<asked, context, messages, given, step>>
    BY <1>1 DEF contextVars
  <2>2. MessagesOK'
    BY <2>1 DEF ContextIInv, MessagesOK
  <2>3. Recent(messages)' <=> Recent(messages)
    BY <2>1 DEF Recent
  <2>4. \A m : Instructs(m)' <=> Instructs(m)
    BY <2>1 DEF Instructs
  <2>5. Instructs(given.system[1])' <=> Instructs(given.system[1])
    BY <2>1 DEF Instructs
  <2>6. RecentSurvive' <=> RecentSurvive
    BY <2>1 DEF RecentSurvive, LastAsked, EndsWith
  <2> QED
    BY <2>1, <2>2, <2>3, <2>4, <2>5, <2>6 DEF ContextIInv
<1>2. ASSUME NEW n \in 0..MaxMessages, NEW roles \in [1..n -> Roles], StartTurn(roles)
      PROVE  ContextIInv'
  BY <1>2, StartTurnStep
<1>3. CASE Compress \/ Prepare \/ Send \/ Answered
  BY <1>3, CompressStep, PrepareStep, SendStep, AnsweredStep
<1> QED
  BY <1>1, <1>2, <1>3, Zenon DEF ContextNext

LEMMA ContextHolds == ContextSpec => []ContextIInv
<1> QED
  BY ContextInitially, ContextStep, PTL DEF ContextSpec

\* Whatever is compressed and prepended, what is sent ends with the last
\* messages of the request, of which the split of system messages takes the
\* earlier system messages alone.
THEOREM RecentMessagesSurvive == ContextSpec => []RecentSurvive
<1>1. ContextIInv => RecentSurvive
  BY DEF ContextIInv
<1> QED
  BY <1>1, ContextHolds, PTL

\* The model always has its instructions: the client's, or the service's with
\* all that was found.
THEOREM InstructionsAlwaysSurvive == ContextSpec => []InstructionsSurvive
<1>1. ContextIInv => InstructionsSurvive
  BY DEF ContextIInv, InstructionsSurvive, Instructs
<1> QED
  BY <1>1, ContextHolds, PTL

\* The state of a turn's context keeps its type.
THEOREM ContextWellTyped == ContextSpec => []ContextTypeOK
<1>1. ContextIInv => ContextTypeOK
  BY MessagesAreTyped DEF ContextIInv
<1> QED
  BY <1>1, ContextHolds, PTL

-------------------------------------------------------------------------------
(* The three together *)

\* A behaviour of one of the three is a behaviour of each: the others stand
\* still.
LEMMA KnowledgeParts ==
    KnowledgeSpec => MemSpec /\ SkillSpec /\ ContextSpec
<1>1. MCInit => MemInit /\ SkillInit /\ ContextInit
  BY DEF MCInit
<1>2. [MCNext]_knowledgeVars => [MemNext]_memVars /\ [SkillNext]_skillVars /\ [ContextNext]_contextVars
  BY DEF MCNext, knowledgeVars
<1> QED
  BY <1>1, <1>2, PTL DEF KnowledgeSpec, MemSpec, SkillSpec, ContextSpec

\* Every variable of memories, skills and the context of a turn stays in its
\* type, whichever of them moves.
THEOREM KnowledgeWellTyped == KnowledgeSpec => []KnowledgeTypeOK
<1>1. KnowledgeTypeOK <=> MemTypeOK /\ SkillTypeOK /\ ContextTypeOK
  BY DEF KnowledgeTypeOK
<1> QED
  BY <1>1, KnowledgeParts, MemoriesWellTyped, SkillsWellTyped, ContextWellTyped, PTL

===============================================================================

--------------------------- MODULE MigrationProofs ---------------------------
(***************************************************************************)
(* Opening a database, for any number of processes, messages and crashes:  *)
(* what the rebuilds of the events table keep, and when an Open may fail.  *)
(***************************************************************************)
EXTENDS Migration, FiniteSetTheorems, TLAPS

\* From the CREATE to the RENAME of events_new.
Building == {"fill", "untrigger", "drop", "rename"}

\* After the test that found something to do, before it is done.
Working == {"copy", "droptrigger", "newtrigger"} \cup Rebuilding

\* After the test for the foreign key.
Rebuilt == {"trigger", "droptrigger", "newtrigger", "open"}

\* One process at a time rebuilds: events_new, which only its RENAME removes,
\* keeps the others out.
OneBuilder ==
  /\ \A p \in Processes : pc[p] \in Building => fresh # NoTable
  /\ \A p, q \in Processes : pc[p] \in Building /\ pc[q] \in Building => p = q

\* Columns, foreign key and trigger only ever change to the present version: what
\* a process has tested or done stays so, whatever the others do.
Forward ==
  \A p \in Processes :
    /\ pc[p] \notin {"closed", "columns", "alter"} => columns
    /\ pc[p] \in {"refs", "retrigger", "check"} \cup Rebuilt => ~HasShape("content")
    /\ pc[p] \in {"retrigger", "check"} \cup Rebuilt => ~HasShape("selfref")
    /\ pc[p] \in {"drop", "rename", "retrigger", "check", "newtrigger", "open"} =>
         trigger # "old"

\* When no two Opens overlapped, a process that found something to migrate is the
\* only one that has the file open at all: with the store in use before it, there
\* would have been nothing to find.
Alone ==
  ~overlap =>
    /\ \A p, q \in Processes : Migrating(p) /\ Migrating(q) => p = q
    /\ \A p, q \in Processes : pc[p] \in Working => q = p \/ pc[q] = "closed"

\* Without an accident the committed rows are in events, or, between DROP and
\* RENAME, in events_new; the table is missing only there and in an empty file.
RowsKept ==
  ~cut =>
    /\ events = NoTable =>
         \/ committed = {} /\ \A p \in Processes : pc[p] = "closed"
         \/ \E p \in Processes : pc[p] = "rename"
    /\ events # NoTable => events.rows = committed
    /\ \A p \in Processes :
         /\ pc[p] \in {"untrigger", "drop"} => events # NoTable /\ fresh.rows = committed
         /\ pc[p] = "rename" => events = NoTable /\ fresh.rows = committed

\* A V0 table may have part of its content copied; any other has all of it, and
\* nothing is rebuilt before the copy is complete.
PayloadsKept ==
  ~cut =>
    /\ payloads \subseteq WithContent(committed)
    /\ HasShape("content") \/ payloads = WithContent(committed)
    /\ \A p \in Processes :
         pc[p] \in {"create"} \cup Building => payloads = WithContent(committed)

\* The trigger is missing while a process replaces it, in a file nobody has open,
\* or after a death with another process past its test.
TriggerKept ==
  ~cut /\ trigger = "none" =>
    \/ \A p \in Processes : pc[p] = "closed"
    \/ \E p \in Processes : pc[p] \in {"drop", "rename", "retrigger", "newtrigger"}
    \/ overlap /\ crashes > 0

\* What a process relies on after a test, as long as nobody disturbed it.
Undisturbed ==
  ~overlap /\ crashes = 0 =>
    /\ ~cut
    /\ fresh # NoTable => \E p \in Processes : pc[p] \in Building
    /\ \A p \in Processes :
         /\ pc[p] = "alter" => ~columns
         /\ pc[p] = "copy" => HasShape("content")
         /\ pc[p] = "newtrigger" => trigger = "none"

Typed == TypeOK /\ OneBuilder

IInv ==
  /\ Typed /\ Forward /\ Alone
  /\ RowsKept /\ PayloadsKept /\ TriggerKept
  /\ Undisturbed

\* A row is a pair of an id and a flag: there are finitely many.
LEMMA RowsFinite == \A rows \in SUBSET Rows : IsFiniteSet(rows)
<1>1. IsFiniteSet((1..MaxMessages) \X BOOLEAN)
  <2>1. IsFiniteSet(BOOLEAN)
    <3>1. BOOLEAN = {} \cup {TRUE} \cup {FALSE}
      OBVIOUS
    <3>2. IsFiniteSet({} \cup {TRUE} \cup {FALSE})
      BY FS_EmptySet, FS_AddElement, Zenon
    <3> QED BY <3>1, <3>2
  <2>2. IsFiniteSet(1..MaxMessages)
    BY FS_Interval, OldAssumption
  <2> QED BY <2>1, <2>2, FS_Product
<1>2. IsFiniteSet(Rows)
  <2> DEFINE f == [x \in (1..MaxMessages) \X BOOLEAN |-> [id |-> x[1], content |-> x[2]]]
  <2>1. f \in Surjection((1..MaxMessages) \X BOOLEAN, Rows)
    <3>1. f \in [(1..MaxMessages) \X BOOLEAN -> Rows]
      BY DEF Rows
    <3>2. ASSUME NEW r \in Rows
          PROVE  \E x \in (1..MaxMessages) \X BOOLEAN : f[x] = r
      <4>1. <<r.id, r.content>> \in (1..MaxMessages) \X BOOLEAN
        BY DEF Rows
      <4>2. f[<<r.id, r.content>>] = r
        BY <4>1 DEF Rows
      <4> QED BY <4>1, <4>2
    <3> HIDE DEF f
    <3> QED BY <3>1, <3>2 DEF Surjection
  <2> HIDE DEF f
  <2> QED BY <1>1, <2>1, FS_Surjection
<1>3. ASSUME NEW rows \in SUBSET Rows PROVE IsFiniteSet(rows)
  BY <1>2, <1>3, FS_Subset
<1> QED BY <1>3

\* The empty table differs from none.
LEMMA NewTableThere == NewTable \in Tables /\ NewTable # NoTable
BY NoTableAssumption DEF NewTable, Tables

\* A post adds a payload for its own row only.
LEMMA ContentOfUnion ==
  ASSUME NEW A, NEW B
  PROVE  WithContent(A \cup B) = WithContent(A) \cup WithContent(B)
BY DEF WithContent

\* What a Schema step and a Post do, and the accident that each of them can be.
LEMMA SchemaEffect ==
  ASSUME NEW p \in Processes, Schema(p)
  PROVE  /\ Go(p, "closed", "columns")
         /\ events' = IF events = NoTable THEN NewTable ELSE events
         /\ trigger' = IF trigger = "none" THEN "gc" ELSE trigger
         /\ UNCHANGED <<fresh, payloads, columns, why, committed, crashes>>
         /\ ~overlap' => ~overlap /\ \A q \in Processes : ~Migrating(q)
         /\ ~cut' => ~cut /\ (events = NoTable => \A q \in Processes : pc[q] # "rename")
         /\ cut' => cut \/ \E q \in Processes : pc[q] = "rename"
BY Zenon DEF Schema

LEMMA PostAccidents ==
  ASSUME NEW p \in Processes, NEW content \in BOOLEAN, Post(p, content)
  PROVE  /\ ~cut' => ~cut /\ \A q \in Processes : pc[q] \notin {"untrigger", "drop"}
         /\ cut' => cut \/ \E q \in Processes : pc[q] \in {"untrigger", "drop"}
BY Zenon DEF Post

\* The row of a post has an id of its own type, whatever it counts.
LEMMA PostRow ==
  ASSUME TypeOK, NEW p \in Processes, NEW content \in BOOLEAN, Post(p, content)
  PROVE  \E row \in Rows :
           /\ events \in Tables /\ events # NoTable /\ events.shape = "current"
           /\ events' = WithRows(events, events.rows \cup {row})
           /\ events' \in Tables /\ events' # NoTable
           /\ events'.shape = "current" /\ events'.rows = events.rows \cup {row}
           /\ payloads' = payloads \cup WithContent({row})
           /\ WithContent({row}) \subseteq 1..MaxMessages
           /\ committed' = committed \cup {row}
<1> DEFINE id == Cardinality(events.rows) + 1
           row == [id |-> id, content |-> content]
<1>1. events \in Tables /\ events # NoTable /\ events.shape = "current"
  BY DEF Post, HasShape, TypeOK
<1>2. id \in 1..MaxMessages
  <2>1. events.rows \in SUBSET Rows
    BY <1>1 DEF Tables
  <2>2. Cardinality(events.rows) \in Nat
    BY <2>1, RowsFinite, FS_CardinalityType
  <2> QED BY <2>2, OldAssumption DEF Post
<1>3. /\ events' = WithRows(events, events.rows \cup {row})
      /\ payloads' = payloads \cup WithContent({row})
      /\ committed' = committed \cup {row}
  BY Zenon DEF Post
<1> HIDE DEF id
<1>4. row \in Rows
  BY <1>2 DEF Rows
<1>5. WithContent({row}) \subseteq 1..MaxMessages
  BY <1>2 DEF WithContent
<1> HIDE DEF row
<1>6. events' \in Tables /\ events'.shape = "current" /\ events'.rows = events.rows \cup {row}
  BY <1>1, <1>3, <1>4 DEF Tables, WithRows
<1> QED BY <1>1, <1>3, <1>4, <1>5, <1>6, NoTableAssumption

\* Types; FillNew relies on the exclusion, by which events_new is there.
LEMMA TypesNext == Typed /\ [Next]_vars => TypeOK'
<1> SUFFICES ASSUME Typed, [Next]_vars PROVE TypeOK'
  OBVIOUS
<1> USE DEF Typed, TypeOK, Go, Fail, tables, History
<1>1. ASSUME NEW p \in Processes, OpenStep(p) PROVE TypeOK'
  <2>1. pc' \in [Processes -> Steps]
    <3>1. \E from, to \in Steps : Go(p, from, to)
      BY <1>1
      DEF OpenStep, Steps, Rebuilding, Schema, TestColumns, AlterTable, TestContent,
          CopyContent, CreateNew, FillNew, DropTriggers, DropTable, RenameTable,
          CreateTriggers, CheckForeignKeys, TestReferences, TestTrigger, DropOldTrigger,
          CreateGCTrigger
    <3> QED BY <3>1
  <2> HIDE DEF Go
  <2>2. CASE Schema(p)
    <3>1. overlap' \in BOOLEAN /\ cut' \in BOOLEAN
      BY <2>2, Zenon DEF Schema
    <3> QED BY <2>1, <2>2, <3>1, NewTableThere DEF Schema
  <2>3. CASE TestColumns(p) \/ CheckForeignKeys(p) \/ TestTrigger(p)
    BY <2>1, <2>3 DEF TestColumns, CheckForeignKeys, TestTrigger
  <2>4. CASE TestContent(p) \/ TestReferences(p)
    BY <2>1, <2>4 DEF TestContent, TestReferences
  <2>5. CASE AlterTable(p)
    BY <2>1, <2>5 DEF AlterTable
  <2>6. CASE CopyContent(p)
    <3>1. HasShape("content") => WithContent(events.rows) \subseteq 1..MaxMessages
      BY DEF HasShape, WithContent, Tables, Rows
    <3> QED BY <2>1, <2>6, <3>1 DEF CopyContent
  <2>7. CASE CreateNew(p)
    <3>1. NewTable \in {t \in Tables : t.shape = "current"}
      BY NewTableThere DEF NewTable
    <3> QED BY <2>1, <2>7, <3>1 DEF CreateNew
  <2>8. CASE FillNew(p)
    <3>1. fresh \in Tables /\ fresh.shape = "current" /\ events \in Tables
      BY <2>8 DEF FillNew, OneBuilder, Building, Go
    <3>2. fresh' \in Tables /\ fresh'.shape = "current"
      BY <2>8, <3>1 DEF FillNew, WithRows, Tables
    <3> QED BY <2>1, <2>8, <3>2 DEF FillNew
  <2>9. CASE DropTriggers(p) \/ DropTable(p)
    BY <2>1, <2>9 DEF DropTriggers, DropTable
  <2>10. CASE RenameTable(p)
    BY <2>1, <2>10 DEF RenameTable
  <2>11. CASE CreateTriggers(p)
    BY <2>1, <2>11 DEF CreateTriggers
  <2>12. CASE DropOldTrigger(p) \/ CreateGCTrigger(p)
    BY <2>1, <2>12 DEF DropOldTrigger, CreateGCTrigger
  <2> QED
    BY <1>1, <2>2, <2>3, <2>4, <2>5, <2>6, <2>7, <2>8, <2>9, <2>10, <2>11, <2>12
    DEF OpenStep
<1>2. ASSUME NEW p \in Processes, NEW content \in BOOLEAN, Post(p, content) PROVE TypeOK'
  <2>1. cut' \in BOOLEAN
    BY <1>2, Zenon DEF Post
  <2> QED BY <1>2, <2>1, PostRow DEF Post
<1>3. ASSUME NEW p \in Processes, Close(p) PROVE TypeOK'
  BY <1>3 DEF Close, Steps
<1>4. ASSUME NEW p \in Processes, Crash(p) PROVE TypeOK'
  BY <1>4, OldAssumption DEF Crash, Steps
<1>5. CASE UNCHANGED vars
  BY <1>5 DEF vars
<1> QED BY <1>1, <1>2, <1>3, <1>4, <1>5 DEF Next

\* A process becomes the builder when there is no events_new, hence no builder,
\* and takes events_new away only by ceasing to be one.
LEMMA BuilderNext == Typed /\ [Next]_vars => OneBuilder'
<1> SUFFICES ASSUME Typed, [Next]_vars PROVE OneBuilder'
  OBVIOUS
<1> USE DEF Go, Fail, tables, OneBuilder, Building
<1>1. pc \in [Processes -> Steps] /\ OneBuilder
  BY DEF Typed, TypeOK
<1>2. ASSUME NEW p \in Processes, CreateNew(p) PROVE OneBuilder'
  BY <1>1, <1>2, NewTableThere DEF CreateNew
<1>3. ASSUME NEW p \in Processes, FillNew(p) PROVE OneBuilder'
  <2>1. fresh' # NoTable
    BY <1>3, TypesNext, NoTableAssumption DEF FillNew, WithRows, Typed, TypeOK, Tables
  <2> QED BY <1>1, <1>3, <2>1 DEF FillNew
<1>4. ASSUME NEW p \in Processes, RenameTable(p) PROVE OneBuilder'
  BY <1>1, <1>4 DEF RenameTable
<1>5. ASSUME NEW p \in Processes, DropTriggers(p) \/ DropTable(p) PROVE OneBuilder'
  BY <1>1, <1>5 DEF DropTriggers, DropTable
<1>6. ASSUME NEW p \in Processes, NEW to \in Steps \ Building,
             pc' = [pc EXCEPT ![p] = to], fresh' = fresh
      PROVE  OneBuilder'
  BY <1>1, <1>6
<1>7. CASE fresh' = fresh /\ pc' = pc
  BY <1>1, <1>7
<1> DEFINE Elsewhere(p) ==
      fresh' = fresh /\ \E to \in Steps \ Building : pc' = [pc EXCEPT ![p] = to]
<1>8. ASSUME NEW p \in Processes,
             \/ Schema(p) \/ TestColumns(p) \/ AlterTable(p) \/ TestContent(p) \/ CopyContent(p)
             \/ CreateTriggers(p) \/ CheckForeignKeys(p)
             \/ TestReferences(p) \/ TestTrigger(p) \/ DropOldTrigger(p) \/ CreateGCTrigger(p)
             \/ Close(p) \/ Crash(p)
      PROVE  Elsewhere(p)
  BY <1>8
  DEF Schema, TestColumns, AlterTable, TestContent, CopyContent, CreateTriggers,
      CheckForeignKeys, TestReferences, TestTrigger, DropOldTrigger, CreateGCTrigger, Close,
      Crash, Steps, Rebuilding
<1>9. ASSUME NEW p \in Processes, NEW content \in BOOLEAN, Post(p, content) PROVE OneBuilder'
  BY <1>7, <1>9 DEF Post
<1>10. CASE UNCHANGED vars
  BY <1>7, <1>10 DEF vars
<1> HIDE DEF OneBuilder
<1> HIDE DEF Building
<1> QED BY <1>2, <1>3, <1>4, <1>5, <1>6, <1>8, <1>9, <1>10 DEF Next, OpenStep

\* Only Schema and RENAME bring in a table, both of them a present one.
LEMMA ForwardNext == IInv /\ [Next]_vars => Forward'
<1> SUFFICES ASSUME IInv, [Next]_vars PROVE Forward'
  OBVIOUS
<1> USE DEF IInv, Typed, TypeOK, OneBuilder, Building, Forward, Rebuilt, HasShape, Tables,
        Go, Fail, tables, History, Steps, Rebuilding
<1>1. ASSUME NEW p \in Processes, OpenStep(p) PROVE Forward'
  <2>1. CASE TestColumns(p) \/ TestContent(p) \/ CheckForeignKeys(p) \/ TestReferences(p) \/
             TestTrigger(p)
    BY <2>1 DEF TestColumns, TestContent, CheckForeignKeys, TestReferences, TestTrigger
  <2>2. CASE Schema(p)
    BY <2>2, SchemaEffect DEF NewTable
  <2>3. CASE AlterTable(p)
    BY <2>3 DEF AlterTable
  <2>4. CASE CopyContent(p)
    BY <2>4 DEF CopyContent
  <2>5. CASE CreateNew(p) \/ FillNew(p)
    BY <2>5 DEF CreateNew, FillNew, NewTable, WithRows
  <2>6. CASE DropTriggers(p) \/ DropTable(p)
    BY <2>6 DEF DropTriggers, DropTable
  <2>7. CASE RenameTable(p)
    BY <2>7 DEF RenameTable
  <2>8. CASE CreateTriggers(p)
    BY <2>8 DEF CreateTriggers
  <2>9. CASE DropOldTrigger(p) \/ CreateGCTrigger(p)
    BY <2>9 DEF DropOldTrigger, CreateGCTrigger
  <2> QED BY <1>1, <2>1, <2>2, <2>3, <2>4, <2>5, <2>6, <2>7, <2>8, <2>9 DEF OpenStep
<1>2. ASSUME NEW p \in Processes, NEW content \in BOOLEAN, Post(p, content) PROVE Forward'
  BY <1>2 DEF Post, WithRows
<1>3. ASSUME NEW p \in Processes, Close(p) \/ Crash(p) PROVE Forward'
  BY <1>3 DEF Close, Crash
<1>4. CASE UNCHANGED vars
  BY <1>4 DEF vars
<1> QED BY <1>1, <1>2, <1>3, <1>4 DEF Next

\* By Forward, whoever has the store open left nothing to be found.
LEMMA AloneNext == IInv /\ [Next]_vars => Alone'
<1> SUFFICES ASSUME IInv, [Next]_vars PROVE Alone'
  OBVIOUS
<1> USE DEF IInv, Typed, TypeOK, Forward, Rebuilt, Alone, Working, Migrating, HasShape, Go,
        Fail, tables, History, Steps, Rebuilding
<1>1. ASSUME NEW p \in Processes, OpenStep(p) PROVE Alone'
  <2>1. CASE TestColumns(p) \/ TestContent(p) \/ CheckForeignKeys(p) \/ TestReferences(p) \/
             TestTrigger(p)
    BY <2>1 DEF TestColumns, TestContent, CheckForeignKeys, TestReferences, TestTrigger
  <2>2. CASE Schema(p)
    BY <2>2, SchemaEffect
  <2>3. CASE AlterTable(p)
    BY <2>3 DEF AlterTable
  <2>4. CASE CopyContent(p)
    BY <2>4 DEF CopyContent
  <2>5. CASE CreateNew(p) \/ FillNew(p)
    BY <2>5 DEF CreateNew, FillNew
  <2>6. CASE DropTriggers(p) \/ DropTable(p)
    BY <2>6 DEF DropTriggers, DropTable
  <2>7. CASE RenameTable(p)
    BY <2>7 DEF RenameTable
  <2>8. CASE CreateTriggers(p)
    BY <2>8 DEF CreateTriggers
  <2>9. CASE DropOldTrigger(p) \/ CreateGCTrigger(p)
    BY <2>9 DEF DropOldTrigger, CreateGCTrigger
  <2> QED BY <1>1, <2>1, <2>2, <2>3, <2>4, <2>5, <2>6, <2>7, <2>8, <2>9 DEF OpenStep
<1>2. ASSUME NEW p \in Processes, NEW content \in BOOLEAN, Post(p, content) PROVE Alone'
  BY <1>2 DEF Post
<1>3. ASSUME NEW p \in Processes, Close(p) \/ Crash(p) PROVE Alone'
  BY <1>3 DEF Close, Crash
<1>4. CASE UNCHANGED vars
  BY <1>4 DEF vars
<1> QED BY <1>1, <1>2, <1>3, <1>4 DEF Next

\* The builder alone empties and renames; a post to events is only missed by a
\* copy that was made before it.
LEMMA RowsKeptNext == IInv /\ [Next]_vars => RowsKept'
<1> SUFFICES ASSUME IInv, [Next]_vars PROVE RowsKept'
  OBVIOUS
<1> USE DEF IInv, Typed, TypeOK, OneBuilder, Building, RowsKept, Go, Fail, tables, History,
        Steps, Rebuilding
<1>1. ASSUME NEW p \in Processes, OpenStep(p) PROVE RowsKept'
  <2>1. CASE TestColumns(p) \/ TestContent(p) \/ CheckForeignKeys(p) \/ TestReferences(p) \/
             TestTrigger(p)
    BY <2>1 DEF TestColumns, TestContent, CheckForeignKeys, TestReferences, TestTrigger
  <2>2. CASE Schema(p)
    BY <2>2, SchemaEffect, NewTableThere DEF NewTable
  <2>3. CASE AlterTable(p)
    BY <2>3 DEF AlterTable
  <2>4. CASE CopyContent(p)
    BY <2>4 DEF CopyContent
  <2>5. CASE CreateNew(p) \/ FillNew(p)
    BY <2>5 DEF CreateNew, FillNew, NewTable, WithRows
  <2>6. CASE DropTriggers(p) \/ DropTable(p)
    BY <2>6 DEF DropTriggers, DropTable
  <2>7. CASE RenameTable(p)
    BY <2>7 DEF RenameTable
  <2>8. CASE CreateTriggers(p)
    BY <2>8 DEF CreateTriggers
  <2>9. CASE DropOldTrigger(p) \/ CreateGCTrigger(p)
    BY <2>9 DEF DropOldTrigger, CreateGCTrigger
  <2> QED BY <1>1, <2>1, <2>2, <2>3, <2>4, <2>5, <2>6, <2>7, <2>8, <2>9 DEF OpenStep
<1>2. ASSUME NEW p \in Processes, NEW content \in BOOLEAN, Post(p, content) PROVE RowsKept'
  BY <1>2, PostAccidents, PostRow DEF Post, WithRows, HasShape
<1>3. ASSUME NEW p \in Processes, Close(p) \/ Crash(p) PROVE RowsKept'
  BY <1>3 DEF Close, Crash
<1>4. CASE UNCHANGED vars
  BY <1>4 DEF vars
<1> QED BY <1>1, <1>2, <1>3, <1>4 DEF Next

\* The copy completes the payloads of a V0 table; nothing takes one away.
LEMMA PayloadsKeptNext == IInv /\ [Next]_vars => PayloadsKept'
<1> SUFFICES ASSUME IInv, [Next]_vars PROVE PayloadsKept'
  OBVIOUS
<1> USE DEF IInv, Typed, TypeOK, OneBuilder, Building, RowsKept, PayloadsKept, HasShape, Go,
        Fail, tables, History, Steps, Rebuilding
<1>1. ASSUME NEW p \in Processes, OpenStep(p) PROVE PayloadsKept'
  <2>1. CASE TestColumns(p) \/ TestContent(p) \/ CheckForeignKeys(p) \/ TestReferences(p) \/
             TestTrigger(p)
    BY <2>1 DEF TestColumns, TestContent, CheckForeignKeys, TestReferences, TestTrigger
  <2>2. CASE Schema(p)
    BY <2>2, SchemaEffect DEF NewTable
  <2>3. CASE AlterTable(p)
    BY <2>3 DEF AlterTable
  <2>4. CASE CopyContent(p)
    <3>1. CASE HasShape("content")
      <4>1. ~cut => payloads' = WithContent(committed)
        BY <2>4, <3>1 DEF CopyContent
      <4> QED BY <2>4, <3>1, <4>1 DEF CopyContent
    <3>2. CASE ~HasShape("content")
      BY <2>4, <3>2 DEF CopyContent
    <3> QED BY <3>1, <3>2
  <2>5. CASE CreateNew(p) \/ FillNew(p)
    BY <2>5 DEF CreateNew, FillNew, NewTable, WithRows
  <2>6. CASE DropTriggers(p) \/ DropTable(p)
    BY <2>6 DEF DropTriggers, DropTable
  <2>7. CASE RenameTable(p)
    BY <2>7 DEF RenameTable
  <2>8. CASE CreateTriggers(p)
    BY <2>8 DEF CreateTriggers
  <2>9. CASE DropOldTrigger(p) \/ CreateGCTrigger(p)
    BY <2>9 DEF DropOldTrigger, CreateGCTrigger
  <2> QED BY <1>1, <2>1, <2>2, <2>3, <2>4, <2>5, <2>6, <2>7, <2>8, <2>9 DEF OpenStep
<1>2. ASSUME NEW p \in Processes, NEW content \in BOOLEAN, Post(p, content) PROVE PayloadsKept'
  BY <1>2, PostAccidents, PostRow, ContentOfUnion DEF Post, WithRows
<1>3. ASSUME NEW p \in Processes, Close(p) \/ Crash(p) PROVE PayloadsKept'
  BY <1>3 DEF Close, Crash
<1>4. CASE UNCHANGED vars
  BY <1>4 DEF vars
<1> QED BY <1>1, <1>2, <1>3, <1>4 DEF Next

\* A process that dies while it replaces the trigger is alone, or it was overlapped.
LEMMA TriggerKeptNext == IInv /\ [Next]_vars => TriggerKept'
<1> SUFFICES ASSUME IInv, [Next]_vars PROVE TriggerKept'
  OBVIOUS
<1> USE DEF IInv, Typed, TypeOK, RowsKept, TriggerKept, Alone, Working, Go, Fail, tables,
        History, Steps, Rebuilding
<1>1. ASSUME NEW p \in Processes, OpenStep(p) PROVE TriggerKept'
  <2>1. CASE TestColumns(p) \/ TestContent(p) \/ CheckForeignKeys(p) \/ TestReferences(p) \/
             TestTrigger(p)
    BY <2>1 DEF TestColumns, TestContent, CheckForeignKeys, TestReferences, TestTrigger
  <2>2. CASE Schema(p)
    BY <2>2, SchemaEffect
  <2>3. CASE AlterTable(p)
    BY <2>3 DEF AlterTable
  <2>4. CASE CopyContent(p)
    BY <2>4 DEF CopyContent
  <2>5. CASE CreateNew(p) \/ FillNew(p)
    BY <2>5 DEF CreateNew, FillNew
  <2>6. CASE DropTriggers(p) \/ DropTable(p)
    BY <2>6 DEF DropTriggers, DropTable
  <2>7. CASE RenameTable(p)
    BY <2>7 DEF RenameTable, OneBuilder, Building
  <2>8. CASE CreateTriggers(p)
    BY <2>8 DEF CreateTriggers
  <2>9. CASE DropOldTrigger(p) \/ CreateGCTrigger(p)
    BY <2>9 DEF DropOldTrigger, CreateGCTrigger
  <2> QED BY <1>1, <2>1, <2>2, <2>3, <2>4, <2>5, <2>6, <2>7, <2>8, <2>9 DEF OpenStep
<1>2. ASSUME NEW p \in Processes, NEW content \in BOOLEAN, Post(p, content) PROVE TriggerKept'
  BY <1>2 DEF Post
<1>3. ASSUME NEW p \in Processes, Close(p) \/ Crash(p) PROVE TriggerKept'
  BY <1>3 DEF Close, Crash
<1>4. CASE UNCHANGED vars
  BY <1>4 DEF vars
<1> QED BY <1>1, <1>2, <1>3, <1>4 DEF Next

\* Only the process itself could have changed what it tested.
LEMMA UndisturbedNext == IInv /\ [Next]_vars => Undisturbed'
<1> SUFFICES ASSUME IInv, [Next]_vars PROVE Undisturbed'
  OBVIOUS
<1> USE DEF IInv, Typed, TypeOK, OneBuilder, Building, Undisturbed, Alone, Working,
        RowsKept, Migrating, HasShape, Go, Fail, tables, History, Steps, Rebuilding
<1>1. ASSUME NEW p \in Processes, OpenStep(p) PROVE Undisturbed'
  <2>1. CASE TestColumns(p) \/ TestContent(p) \/ CheckForeignKeys(p) \/ TestReferences(p) \/
             TestTrigger(p)
    BY <2>1 DEF TestColumns, TestContent, CheckForeignKeys, TestReferences, TestTrigger
  <2>2. CASE Schema(p)
    BY <2>2, SchemaEffect
  <2>3. CASE AlterTable(p)
    BY <2>3 DEF AlterTable
  <2>4. CASE CopyContent(p)
    BY <2>4 DEF CopyContent
  <2>5. CASE CreateNew(p) \/ FillNew(p)
    BY <2>5 DEF CreateNew, FillNew
  <2>6. CASE DropTriggers(p) \/ DropTable(p)
    BY <2>6 DEF DropTriggers, DropTable
  <2>7. CASE RenameTable(p)
    BY <2>7 DEF RenameTable
  <2>8. CASE CreateTriggers(p)
    BY <2>8 DEF CreateTriggers
  <2>9. CASE DropOldTrigger(p) \/ CreateGCTrigger(p)
    BY <2>9 DEF DropOldTrigger, CreateGCTrigger
  <2> QED BY <1>1, <2>1, <2>2, <2>3, <2>4, <2>5, <2>6, <2>7, <2>8, <2>9 DEF OpenStep
<1>2. ASSUME NEW p \in Processes, NEW content \in BOOLEAN, Post(p, content) PROVE Undisturbed'
  BY <1>2, PostAccidents DEF Post
<1>3. ASSUME NEW p \in Processes, Close(p) \/ Crash(p) PROVE Undisturbed'
  BY <1>3 DEF Close, Crash
<1>4. CASE UNCHANGED vars
  BY <1>4 DEF vars
<1> QED BY <1>1, <1>2, <1>3, <1>4 DEF Next

\* The bound on messages covers the old ones.
LEMMA OldRowsTyped == OldRows \subseteq Rows
<1>1. ASSUME NEW m \in 1..OldMessages PROVE [id |-> m, content |-> m \in OldNotes] \in Rows
  <2>1. m \in 1..MaxMessages
    BY OldAssumption
  <2>2. (m \in OldNotes) \in BOOLEAN
    OBVIOUS
  <2> QED BY <2>1, <2>2, Zenon DEF Rows
<1> QED BY <1>1 DEF OldRows

\* An empty file, or a file of any version, with no process in it.
LEMMA InitInv == Init => IInv
<1> SUFFICES ASSUME Init PROVE IInv
  OBVIOUS
<1>1. pc = [p \in Processes |-> "closed"] /\ \A p \in Processes : pc[p] = "closed"
  BY DEF Init
<1>2. Typed
  <2>1. WithContent(OldRows) \subseteq 1..MaxMessages
    BY OldRowsTyped DEF WithContent, Rows
  <2>2. /\ events \in Tables \cup {NoTable} /\ committed \subseteq Rows
        /\ trigger \in {"none", "old", "gc"} /\ columns \in BOOLEAN
    BY OldRowsTyped DEF Init, Tables
  <2>3. OneBuilder
    BY <1>1 DEF OneBuilder, Building
  <2>4. payloads \subseteq 1..MaxMessages
    BY <2>1 DEF Init
  <2>5. /\ fresh = NoTable /\ pc \in [Processes -> Steps]
        /\ why \in [Processes -> {"content", "selfref"}]
        /\ crashes \in 0..MaxCrashes
    BY OldAssumption DEF Init, Steps
  <2>6. {overlap, cut} \subseteq BOOLEAN
    BY Zenon DEF Init
  <2> QED BY <2>2, <2>3, <2>4, <2>5, <2>6 DEF Typed, TypeOK
<1>3. Forward /\ Alone /\ TriggerKept
  BY <1>1 DEF Forward, Rebuilt, Alone, Working, Rebuilding, Migrating, TriggerKept
<1>4. /\ fresh = NoTable /\ ~cut
      /\ events = NoTable => committed = {} /\ payloads = {}
      /\ events # NoTable => committed = events.rows
      /\ events # NoTable /\ events.shape # "content" => payloads = WithContent(committed)
      /\ events # NoTable /\ events.shape = "content" => payloads = {}
  <2>1. CASE events = NoTable
    <3>1. \A s \in {"content", "selfref", "current"} :
            [shape |-> s, rows |-> OldRows] # NoTable
      BY NoTableAssumption, OldRowsTyped DEF Tables
    <3> QED BY <2>1, <3>1 DEF Init
  <2>2. CASE events # NoTable
    BY <2>2 DEF Init
  <2> QED BY <2>1, <2>2
<1>5. RowsKept /\ Undisturbed
  BY <1>1, <1>4 DEF RowsKept, Undisturbed
<1>6. PayloadsKept
  <2>1. WithContent({}) = {}
    BY DEF WithContent
  <2> QED BY <1>1, <1>4, <2>1 DEF PayloadsKept, HasShape, Building
<1> QED BY <1>2, <1>3, <1>5, <1>6 DEF IInv

\* What holds between any two statements of any processes that have the file.
THEOREM MigrationInvariance == Spec => []IInv
<1>1. IInv /\ [Next]_vars => IInv'
  BY TypesNext, BuilderNext, ForwardNext, AloneNext, RowsKeptNext, PayloadsKeptNext,
     TriggerKeptNext, UndisturbedNext
  DEF IInv, Typed
<1> QED BY <1>1, InitInv, PTL DEF Spec

\* Whatever runs side by side or dies, the tables, the statements and the flags
\* have the values the schema knows; events_new is only ever of the present shape.
THEOREM MigrationTyped == Spec => []TypeOK
<1>1. IInv => TypeOK
  BY DEF IInv, Typed
<1> QED BY <1>1, MigrationInvariance, PTL

\* However many processes open the file and whenever they die, the committed
\* events are there when the store is in use, the three accidents apart: in
\* between they are in events, or in events_new when that is being renamed.
THEOREM RebuildKeepsEvents == Spec => []EventsSurviveUnlessCut
<1>1. ASSUME IInv PROVE EventsSurviveUnlessCut
  <2>1. ASSUME ~cut, InUse PROVE events # NoTable /\ committed \subseteq events.rows
    BY <1>1, <2>1 DEF IInv, RowsKept, InUse, Migrating
  <2> QED BY <2>1, Zenon DEF EventsSurviveUnlessCut, EventsSurvive
<1> QED BY <1>1, MigrationInvariance, PTL

\* Neither a rebuild nor its repetition drops or invents content: those accidents
\* apart, a store in use has a payload for every message with content, and no
\* other.
THEOREM RebuildKeepsContent == Spec => []ContentKept
<1>1. ASSUME IInv PROVE ContentKept
  BY <1>1 DEF IInv, RowsKept, PayloadsKept, Forward, Rebuilt, ContentKept, InUse, Migrating,
              HasShape
<1> QED BY <1>1, MigrationInvariance, PTL

\* No process gets past Open with an old schema, whoever else is migrating: columns
\* and foreign key are the present ones, and the trigger tests gc_state or is
\* missing after a death in an overlapped Open.
THEOREM RebuildCompletes == Spec => []MigratedWhenInUse
<1>1. ASSUME IInv PROVE MigratedWhenInUse
  <2>1. ASSUME InUse, ~cut PROVE HasShape("current") /\ columns
    BY <1>1, <2>1
    DEF IInv, Typed, TypeOK, Tables, RowsKept, Forward, Rebuilt, InUse, Migrating, HasShape
  <2>2. ASSUME InUse, ~cut
        PROVE  trigger = "gc" \/ (trigger = "none" /\ overlap /\ crashes > 0)
    BY <1>1, <2>2 DEF IInv, Typed, TypeOK, Forward, TriggerKept, InUse, Migrating
  <2> QED BY <2>1, <2>2, Zenon DEF MigratedWhenInUse
<1> QED BY <1>1, MigrationInvariance, PTL

\* An Open that nobody overlapped, in a file where nobody died, succeeds: what a
\* statement of migrate() found is still so when the next one acts on it, and the
\* foreign-key check finds no orphans.
THEOREM OpenSucceeds == Spec => FailsOnlyWhenDisturbed
<1> DEFINE Quiet == ~overlap' /\ ~(crashes' > 0)
<1>1. ASSUME IInv, Next, NEW p \in Processes, Migrating(p), pc'[p] = "closed", Quiet
      PROVE  FALSE
  <2> USE DEF Go, Fail, tables, History
  <2>1. OpenStep(p)
    <3>1. PICK q \in Processes :
            OpenStep(q) \/ (\E content \in BOOLEAN : Post(q, content)) \/ Close(q) \/ Crash(q)
      BY <1>1 DEF Next
    <3>2. pc[p] # "closed" /\ pc[p] # "open" /\ pc \in [Processes -> Steps]
          /\ crashes \in Nat
      BY <1>1, OldAssumption DEF Migrating, IInv, Typed, TypeOK
    <3>3. ~ \E content \in BOOLEAN : Post(q, content)
      BY <1>1, <3>2 DEF Post
    <3>4. ~Close(q) /\ ~Crash(q)
      BY <1>1, <3>2 DEF Close, Crash
    <3>5. \E from, to \in Steps : Go(q, from, to)
      BY <3>1, <3>3, <3>4
      DEF OpenStep, Steps, Rebuilding, Schema, TestColumns, AlterTable, TestContent,
          CopyContent, CreateNew, FillNew, DropTriggers, DropTable, RenameTable,
          CreateTriggers, CheckForeignKeys, TestReferences, TestTrigger, DropOldTrigger,
          CreateGCTrigger
    <3>6. q = p
      BY <1>1, <3>2, <3>5
    <3> QED BY <3>1, <3>3, <3>4, <3>6
  <2>2. ~Schema(p)
    BY <1>1 DEF Schema, Migrating
  <2>3. ~overlap /\ crashes = 0
    BY <1>1, <2>1, <2>2, OldAssumption
    DEF OpenStep, TestColumns, AlterTable, TestContent, CopyContent, CreateNew, FillNew,
        DropTriggers, DropTable, RenameTable, CreateTriggers, CheckForeignKeys,
        TestReferences, TestTrigger, DropOldTrigger, CreateGCTrigger, IInv, Typed, TypeOK
  <2>4. ~cut
    BY <1>1, <2>3 DEF IInv, Undisturbed
  <2>5. events = NoTable => pc[p] = "rename"
    BY <1>1, <2>3, <2>4 DEF IInv, RowsKept, Alone, Working, Rebuilding, Migrating
  <2>6. fresh # NoTable <=> pc[p] \in Building
    BY <1>1, <2>3 DEF IInv, Typed, OneBuilder, Undisturbed, Building, Alone, Migrating
  <2>7. pc[p] # "rename" => ~HasOrphans
    BY <1>1, <2>4, <2>5 DEF IInv, RowsKept, PayloadsKept, HasOrphans, WithContent
  <2>8. \A from, to : Go(p, from, to) => pc[p] = from /\ to = "closed"
    BY <1>1 DEF IInv, Typed, TypeOK
  <2> HIDE DEF Go
  <2>9. ~AlterTable(p) /\ ~CopyContent(p) /\ ~CreateGCTrigger(p)
    BY <1>1, <2>3, <2>5, <2>8 DEF IInv, Undisturbed, AlterTable, CopyContent, CreateGCTrigger
  <2>10. ~CreateNew(p) /\ ~CreateTriggers(p) /\ ~CheckForeignKeys(p)
    BY <2>5, <2>6, <2>7, <2>8 DEF CreateNew, CreateTriggers, CheckForeignKeys, Building
  <2>11. ~RenameTable(p)
    BY <1>1, <2>4, <2>6, <2>8 DEF IInv, RowsKept, RenameTable, Building
  <2> QED
    BY <2>1, <2>2, <2>9, <2>10, <2>11, <2>8
    DEF OpenStep, TestColumns, TestContent, FillNew, DropTriggers, DropTable,
        TestReferences, TestTrigger, DropOldTrigger
<1>2. ASSUME UNCHANGED vars, NEW p \in Processes, Migrating(p), pc'[p] = "closed"
      PROVE  FALSE
  BY <1>2 DEF vars, Migrating
<1>3. IInv /\ [Next]_vars =>
        [\A p \in Processes :
           Migrating(p) /\ pc'[p] = "closed" => overlap' \/ crashes' > 0]_vars
  BY <1>1, <1>2
<1> QED BY <1>3, MigrationInvariance, PTL DEF Spec, FailsOnlyWhenDisturbed
==============================================================================

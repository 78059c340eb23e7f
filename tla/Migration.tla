------------------------------ MODULE Migration ------------------------------
(***************************************************************************)
(* Opening a database (store.go, OpenWithClock and migrate).  Every        *)
(* command and the server open the file first, each in its own process,    *)
(* and bring old schemas up to date.  migrate() runs outside a             *)
(* transaction: every statement commits by itself, so a process can die    *)
(* and another one can run between any two of them.                        *)
(*                                                                         *)
(* A row is a message: its id, and whether it has content.  A V0 table     *)
(* keeps the content in the row ("content"), a later one has              *)
(* event_payloads but a foreign key from ref_id to events ("selfref");     *)
(* both are rebuilt through events_new.  The statements of schema and      *)
(* ownerTables are all IF NOT EXISTS: schema is one step, ownerTables none.*)
(***************************************************************************)
EXTENDS Naturals, FiniteSets

CONSTANTS
  Processes,    \* processes that open the file
  NoTable,      \* the table is not in sqlite_master
  OldMessages,  \* messages in the file before the first of them, 1..n
  OldNotes,     \* those of them that have content
  MaxMessages,  \* bound on messages, for checking
  MaxCrashes    \* bound on processes that die, for checking

ASSUME OldAssumption ==
  /\ {OldMessages, MaxMessages, MaxCrashes} \subseteq Nat
  /\ OldMessages <= MaxMessages
  /\ OldNotes \subseteq 1..OldMessages

VARIABLES
  events,     \* the table events
  fresh,      \* the table events_new
  payloads,   \* event_payloads: the ids of the messages that have one
  columns,    \* the columns that V0 lacks are there
  trigger,    \* events_no_delete: "none", "old", or "gc" with the gc_state test
  pc,         \* where each process is in Open, "closed" and "open" outside
  why,        \* which of the two rebuilds a process runs
  committed,  \* history: every message ever committed
  crashes,    \* history: processes that died
  overlap,    \* history: an Open began while another was under way
  cut         \* history: one of the three accidents that lose events

tables == <<events, fresh, payloads, columns, trigger>>
vars == <<tables, pc, why, committed, crashes, overlap, cut>>

Rows == [id : 1..MaxMessages, content : BOOLEAN]

Tables == [shape : {"content", "selfref", "current"}, rows : SUBSET Rows]

ASSUME NoTableAssumption == NoTable \notin Tables

NewTable == [shape |-> "current", rows |-> {}]

WithRows(table, rows) == [shape |-> table.shape, rows |-> rows]

Rebuilding == {"create", "fill", "untrigger", "drop", "rename", "retrigger", "check"}
Steps ==
  {"closed", "columns", "alter", "content", "copy", "refs", "trigger",
   "droptrigger", "newtrigger", "open"} \cup Rebuilding

WithContent(rows) == {r.id : r \in {x \in rows : x.content}}

OldRows == {[id |-> m, content |-> m \in OldNotes] : m \in 1..OldMessages}

TypeOK ==
  /\ events \in Tables \cup {NoTable}
  /\ fresh \in {t \in Tables : t.shape = "current"} \cup {NoTable}
  /\ payloads \subseteq 1..MaxMessages
  /\ columns \in BOOLEAN
  /\ trigger \in {"none", "old", "gc"}
  /\ pc \in [Processes -> Steps]
  /\ why \in [Processes -> {"content", "selfref"}]
  /\ committed \subseteq Rows
  /\ crashes \in 0..MaxCrashes
  /\ {overlap, cut} \subseteq BOOLEAN

\* No file yet, or one that some version of the program wrote.
Init ==
  /\ \/ /\ events = NoTable /\ trigger = "none" /\ committed = {}
     \/ \E s \in {"content", "selfref", "current"}, t \in {"old", "gc"} :
          /\ t = "gc" => s = "current"
          /\ events = [shape |-> s, rows |-> OldRows]
          /\ trigger = t
          /\ committed = OldRows
  /\ fresh = NoTable
  /\ payloads = IF events = NoTable \/ events.shape = "content"
                THEN {} ELSE WithContent(OldRows)
  /\ columns = (events = NoTable \/ events.shape # "content")
  /\ pc = [p \in Processes |-> "closed"]
  /\ why = [p \in Processes |-> "content"]
  /\ crashes = 0 /\ overlap = FALSE /\ cut = FALSE
------------------------------------------------------------------------------
Go(p, from, to) == pc[p] = from /\ pc' = [pc EXCEPT ![p] = to]

Migrating(p) == pc[p] \notin {"closed", "open"}

HasShape(s) == events # NoTable /\ events.shape = s

History == <<committed, crashes, overlap, cut>>

\* A statement fails: Open closes the file and returns the error.
Fail(p, from) == Go(p, from, "closed") /\ UNCHANGED <<tables, why, History>>

\* db.Exec(schema): what is missing is created, what is there is left alone.
Schema(p) ==
  /\ Go(p, "closed", "columns")
  /\ events' = IF events = NoTable THEN NewTable ELSE events
  /\ trigger' = IF trigger = "none" THEN "gc" ELSE trigger
  /\ overlap' = (overlap \/ \E q \in Processes : Migrating(q))
  /\ cut' = (cut \/ (events = NoTable /\ \E q \in Processes : pc[q] = "rename"))
  /\ UNCHANGED <<fresh, payloads, columns, why, committed, crashes>>

\* Bug: the columns are added without looking.
TestColumnsNever(p) ==
  Go(p, "columns", "alter") /\ UNCHANGED <<tables, why, History>>

\* hasCol, once for all the columns that ALTER TABLE adds; a table that is
\* not there has none.
TestColumns(p) ==
  /\ Go(p, "columns", IF columns /\ events # NoTable THEN "content" ELSE "alter")
  /\ UNCHANGED <<tables, why, History>>

\* "duplicate column name" when another process was faster.
AlterTable(p) ==
  \/ /\ ~columns /\ events # NoTable
     /\ Go(p, "alter", "content")
     /\ columns' = TRUE
     /\ UNCHANGED <<events, fresh, payloads, trigger, why, History>>
  \/ (columns \/ events = NoTable) /\ Fail(p, "alter")

\* Does events have a content column?
TestContent(p) ==
  /\ Go(p, "content", IF HasShape("content") THEN "copy" ELSE "refs")
  /\ why' = [why EXCEPT ![p] = "content"]
  /\ UNCHANGED <<tables, History>>

\* INSERT OR IGNORE INTO event_payloads: rows of an earlier try stay.
CopyContent(p) ==
  \/ /\ HasShape("content")
     /\ Go(p, "copy", "create")
     /\ payloads' = payloads \cup WithContent(events.rows)
     /\ UNCHANGED <<events, fresh, columns, trigger, why, History>>
  \/ ~HasShape("content") /\ Fail(p, "copy")
------------------------------------------------------------------------------
\* The rebuild scripts, with foreign_keys off on their connection.

\* Bug: the new table gets the foreign key again.
CreateNewSelfref(p) ==
  /\ fresh = NoTable
  /\ Go(p, "create", "fill")
  /\ fresh' = [NewTable EXCEPT !.shape = "selfref"]
  /\ UNCHANGED <<events, payloads, columns, trigger, why, History>>

CreateNew(p) ==
  \/ /\ fresh = NoTable
     /\ Go(p, "create", "fill")
     /\ fresh' = NewTable
     /\ UNCHANGED <<events, payloads, columns, trigger, why, History>>
  \/ fresh # NoTable /\ Fail(p, "create")

\* Bug: only messages with content are copied.
FillNotes(p) ==
  /\ events # NoTable
  /\ Go(p, "fill", "untrigger")
  /\ fresh' = WithRows(fresh, {r \in events.rows : r.content})
  /\ UNCHANGED <<events, payloads, columns, trigger, why, History>>

\* From its CREATE to its RENAME a process is the only one, as events_new is
\* there all the time: nobody else can drop events.
FillNew(p) ==
  /\ events # NoTable
  /\ Go(p, "fill", "untrigger")
  /\ fresh' = WithRows(fresh, events.rows)
  /\ UNCHANGED <<events, payloads, columns, trigger, why, History>>

DropTriggers(p) ==
  /\ Go(p, "untrigger", "drop")
  /\ trigger' = "none"
  /\ UNCHANGED <<events, fresh, payloads, columns, why, History>>

\* Bug: foreign_keys is left on, so the implicit DELETE cascades.
DropCascading(p) ==
  /\ events # NoTable
  /\ Go(p, "drop", "rename")
  /\ events' = NoTable /\ trigger' = "none" /\ payloads' = {}
  /\ UNCHANGED <<fresh, columns, why, History>>

\* The table's triggers go with it, its payloads stay.
DropTable(p) ==
  /\ events # NoTable
  /\ Go(p, "drop", "rename")
  /\ events' = NoTable /\ trigger' = "none"
  /\ UNCHANGED <<fresh, payloads, columns, why, History>>

\* Fails when another Open has created events again in the meantime.
RenameTable(p) ==
  \/ /\ events = NoTable /\ fresh # NoTable
     /\ Go(p, "rename", "retrigger")
     /\ events' = fresh /\ fresh' = NoTable
     /\ UNCHANGED <<payloads, columns, trigger, why, History>>
  \/ (events # NoTable \/ fresh = NoTable) /\ Fail(p, "rename")

CreateTriggers(p) ==
  \/ /\ events # NoTable
     /\ Go(p, "retrigger", "check")
     /\ trigger' = IF trigger = "none" THEN "gc" ELSE trigger
     /\ UNCHANGED <<events, fresh, payloads, columns, why, History>>
  \/ events = NoTable /\ Fail(p, "retrigger")

\* With no table events every payload is one.
HasOrphans ==
  LET rows == IF events = NoTable THEN {} ELSE events.rows
  IN  ~ payloads \subseteq {r.id : r \in rows}

\* PRAGMA foreign_key_check.  The rebuild is committed whatever it says.
CheckForeignKeys(p) ==
  \/ /\ ~HasOrphans
     /\ Go(p, "check", IF why[p] = "content" THEN "refs" ELSE "open")
     /\ UNCHANGED <<tables, why, History>>
  \/ HasOrphans /\ Fail(p, "check")
------------------------------------------------------------------------------
\* PRAGMA foreign_key_list('events'): empty for a table that is not there.
TestReferences(p) ==
  /\ Go(p, "refs", IF HasShape("selfref") THEN "create" ELSE "trigger")
  /\ why' = [why EXCEPT ![p] = "selfref"]
  /\ UNCHANGED <<tables, History>>

\* Bug: a trigger of whatever version will do.
TestTriggerNever(p) ==
  Go(p, "trigger", "open") /\ UNCHANGED <<tables, why, History>>

\* The trigger's text must test gc_state.
TestTrigger(p) ==
  /\ Go(p, "trigger", IF trigger = "old" THEN "droptrigger" ELSE "open")
  /\ UNCHANGED <<tables, why, History>>

DropOldTrigger(p) ==
  /\ Go(p, "droptrigger", "newtrigger")
  /\ trigger' = "none"
  /\ UNCHANGED <<events, fresh, payloads, columns, why, History>>

\* Without IF NOT EXISTS this time.
CreateGCTrigger(p) ==
  \/ /\ trigger = "none" /\ events # NoTable
     /\ Go(p, "newtrigger", "open")
     /\ trigger' = "gc"
     /\ UNCHANGED <<events, fresh, payloads, columns, why, History>>
  \/ (trigger # "none" \/ events = NoTable) /\ Fail(p, "newtrigger")
------------------------------------------------------------------------------
\* The store in use.  A post is one transaction: it fails, and leaves
\* nothing, when the table is missing or the payload's id is taken.  Ids count
\* from 1 and no row is deleted here.
Post(p, content) ==
  /\ pc[p] = "open"
  /\ HasShape("current")
  /\ LET id  == Cardinality(events.rows) + 1
         row == [id |-> id, content |-> content] IN
     /\ id <= MaxMessages
     /\ content => id \notin payloads
     /\ events' = WithRows(events, events.rows \cup {row})
     /\ payloads' = payloads \cup WithContent({row})
     /\ committed' = committed \cup {row}
  /\ cut' = (cut \/ \E q \in Processes : pc[q] \in {"untrigger", "drop"})
  /\ UNCHANGED <<fresh, columns, trigger, pc, why, crashes, overlap>>

Close(p) == Go(p, "open", "closed") /\ UNCHANGED <<tables, why, History>>

Crash(p) ==
  /\ crashes < MaxCrashes
  /\ pc[p] # "closed"
  /\ pc' = [pc EXCEPT ![p] = "closed"]
  /\ crashes' = crashes + 1
  /\ cut' = (cut \/ pc[p] = "rename")
  /\ UNCHANGED <<tables, why, committed, overlap>>

OpenStep(p) ==
  \/ Schema(p) \/ TestColumns(p) \/ AlterTable(p) \/ TestContent(p) \/ CopyContent(p)
  \/ CreateNew(p) \/ FillNew(p) \/ DropTriggers(p) \/ DropTable(p) \/ RenameTable(p)
  \/ CreateTriggers(p) \/ CheckForeignKeys(p)
  \/ TestReferences(p) \/ TestTrigger(p) \/ DropOldTrigger(p) \/ CreateGCTrigger(p)

Next ==
  \E p \in Processes :
    \/ OpenStep(p)
    \/ \E content \in BOOLEAN : Post(p, content)
    \/ Close(p)
    \/ Crash(p)

Spec == Init /\ [][Next]_vars
------------------------------------------------------------------------------
\* Some process has the store open and none is in the middle of migrate().
InUse ==
  /\ \E p \in Processes : pc[p] = "open"
  /\ \A p \in Processes : ~Migrating(p)

\* V0_CONTRACT.md, failure behavior: a restart does not lose committed
\* events.  Whenever the store is in use, all of them are in the table.
EventsSurvive == InUse => events # NoTable /\ committed \subseteq events.rows

\* What the code does keep: events are lost in three ways only.  A process
\* dies between DROP TABLE and RENAME; another one runs the schema there; a
\* process that is done posts while a second one is about to drop the table.
EventsSurviveUnlessCut == cut \/ EventsSurvive

\* Apart from those accidents, every message keeps its content and no content
\* is left without its message, whatever was retried or ran side by side.
ContentKept == InUse /\ ~cut => payloads = WithContent(events.rows)

\* A store in use has the present schema, and the trigger that lets
\* collections and nothing else delete events.  One thing can take the trigger
\* away until the next Open: the death of a process that was replacing it, with
\* another one past its test already.
MigratedWhenInUse ==
  InUse /\ ~cut =>
    /\ HasShape("current") /\ columns
    /\ trigger = "gc" \/ (trigger = "none" /\ overlap /\ crashes > 0)

\* As long as no process died and no two Opens overlapped, opening succeeds,
\* the first time and every time after it.
FailsOnlyWhenDisturbed ==
  [][\A p \in Processes :
       Migrating(p) /\ pc'[p] = "closed" => overlap' \/ crashes' > 0]_vars
==============================================================================

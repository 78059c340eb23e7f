--------------------------- MODULE EventLifecycle ---------------------------
(***************************************************************************)
(* What the store promises about the history, with no owners, actors or    *)
(* tables.  Ids are issued in order, once.  An event is readable, then     *)
(* hidden, and there is no way back.  Its content leaves the database only *)
(* while it is hidden; the event itself leaves only with its whole thread, *)
(* after the thread has closed and all of it is hidden.  A closed thread   *)
(* takes no event and never opens again; its last event may close it.      *)
(***************************************************************************)
EXTENDS Naturals

CONSTANTS Threads, MaxEventId, PurgedBefore

VARIABLES
  next,     \* ids issued so far
  live,     \* <<id, thread>> of the events that exist
  hidden,   \* ids whose content is shown to nobody
  stored,   \* ids whose content is in the database
  closed    \* threads that take no more events

vars == <<next, live, hidden, stored, closed>>

IdsIn(T) == {x[1] : x \in {y \in live : y[2] \in T}}

Init ==
  /\ next = 0
  /\ live = {} /\ hidden = {} /\ stored = {}
  /\ closed = PurgedBefore

\* The new event is readable; closing tells the thread's last event.
Append(t, content, closing) ==
  /\ t \notin closed
  /\ next < MaxEventId
  /\ next' = next + 1
  /\ live' = live \cup {<<next + 1, t>>}
  /\ stored' = IF content THEN stored \cup {next + 1} ELSE stored
  /\ closed' = IF closing THEN closed \cup {t} ELSE closed
  /\ UNCHANGED hidden

Hide(i) ==
  /\ \E t \in Threads : i \in IdsIn({t})
  /\ hidden' = hidden \cup {i}
  /\ UNCHANGED <<next, live, stored, closed>>

HideThread(t) ==
  /\ hidden' = hidden \cup IdsIn({t})
  /\ closed' = closed \cup {t}
  /\ UNCHANGED <<next, live, stored>>

\* S loses its content, T disappears altogether.
Collect(S, T) ==
  /\ S \subseteq hidden
  /\ T \subseteq closed
  /\ IdsIn(T) \subseteq hidden
  /\ stored' = stored \ (S \cup IdsIn(T))
  /\ live' = {x \in live : x[2] \notin T}
  /\ hidden' = hidden \ IdsIn(T)
  /\ UNCHANGED <<next, closed>>

Next ==
  \/ \E t \in Threads, content, closing \in BOOLEAN : Append(t, content, closing)
  \/ \E i \in 1..MaxEventId : Hide(i)
  \/ \E t \in Threads : HideThread(t)
  \/ \E S \in SUBSET (1..MaxEventId), T \in SUBSET Threads : Collect(S, T)

Spec == Init /\ [][Next]_vars
=============================================================================

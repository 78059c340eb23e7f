------------------------------- MODULE Limiter -------------------------------
(***************************************************************************)
(* The failed-password limiter of the authorization endpoint (limiter.go): *)
(* an in-memory table under a mutex.  A handler calls blocked(), verifies  *)
(* the password with the mutex released, and only then calls fail() or     *)
(* reset(): other handlers run in between.                                 *)
(*                                                                         *)
(* A row holds its age instead of its start time; past Window an age tells *)
(* nothing more.                                                           *)
(***************************************************************************)
EXTENDS Naturals, FiniteSets

CONSTANTS
  Labels,       \* actor labels as submitted, registered or not
  Known,        \* those with a password that can be right
  Requests,     \* handler invocations that can be in flight
  Idle,         \* no handler running
  MaxFailures, Window, MaxTracked

ASSUME LimiterAssumption ==
  /\ Known \subseteq Labels
  /\ Idle \notin Labels /\ IsFiniteSet(Requests)
  /\ {MaxFailures, Window, MaxTracked} \subseteq Nat \ {0}

VARIABLES
  m,      \* the table: count and age of every label, Untracked for no row
  req     \* the label whose password a handler is verifying

vars == <<m, req>>

Untracked == [count |-> 0, age |-> 0]
Attempts  == [count : Nat \ {0}, age : 0..Window]

TypeOK ==
  /\ m \in [Labels -> Attempts \cup {Untracked}]
  /\ req \in [Requests -> Labels \cup {Idle}]

Init ==
  /\ m = [l \in Labels |-> Untracked]
  /\ req = [r \in Requests |-> Idle]
------------------------------------------------------------------------------
Tracked == {l \in Labels : m[l].count > 0}

Full == Cardinality(Tracked) >= MaxTracked

\* Bug: nothing expires.
StaleNever == {}

\* Rows whose window is over, still in the table.
Stale == {l \in Tracked : m[l].age >= Window}

Without(S) == [l \in Labels |-> IF l \in S THEN Untracked ELSE m[l]]

Locked(l) == l \in Tracked \ Stale /\ m[l].count >= MaxFailures

\* Bug: one failure too many.
RefusedLate(l) ==
  IF l \in Tracked
  THEN l \notin Stale /\ m[l].count > MaxFailures
  ELSE Cardinality(Tracked \ Stale) >= MaxTracked

\* What blocked() answers.  A full table is swept before it refuses.
Refused(l) ==
  IF l \in Tracked THEN Locked(l) ELSE Cardinality(Tracked \ Stale) >= MaxTracked

\* What blocked() sweeps.
Swept(l) ==
  IF l \in Tracked THEN Stale \cap {l} ELSE IF Full THEN Stale ELSE {}

\* blocked() lets the handler go on.  A refused one ends and changes nothing:
\* a sweep that removes a row makes room.
Pass(r, l) ==
  /\ req[r] = Idle
  /\ ~Refused(l)
  /\ req' = [req EXCEPT ![r] = l]
  /\ m' = Without(Swept(l))

\* The row after one more failure: a window that is over starts again.
OneMore(l) ==
  IF l \in Tracked \ Stale THEN [m[l] EXCEPT !.count = @ + 1]
                             ELSE [count |-> 1, age |-> 0]

\* Bug: the table's bound is left to blocked().
FailUnbounded(r) ==
  LET l == req[r] IN
  /\ l # Idle
  /\ req' = [req EXCEPT ![r] = Idle]
  /\ m' = [m EXCEPT ![l] = OneMore(l)]

\* A wrong password.  The table may have filled up meanwhile: then the
\* failure is not counted.
Fail(r) ==
  LET l == req[r] IN
  /\ l # Idle
  /\ req' = [req EXCEPT ![r] = Idle]
  /\ IF l \notin Tracked /\ Full
     THEN UNCHANGED m
     ELSE m' = [m EXCEPT ![l] = OneMore(l)]

\* Bug: the count is cleared, the row stays.
ResetCount(r) ==
  /\ req[r] \in Known
  /\ req' = [req EXCEPT ![r] = Idle]
  /\ m' = [m EXCEPT ![req[r]].count = 0]

\* The right password.
Reset(r) ==
  /\ req[r] \in Known
  /\ req' = [req EXCEPT ![r] = Idle]
  /\ m' = Without({req[r]})

\* The server dies and starts again with an empty table.
Restart ==
  /\ req' = [r \in Requests |-> Idle]
  /\ m' = [l \in Labels |-> Untracked]

Ageing == {l \in Tracked : m[l].age < Window}

Tick ==
  /\ Ageing # {}
  /\ m' = [l \in Labels |->
             IF l \in Ageing THEN [m[l] EXCEPT !.age = @ + 1] ELSE m[l]]
  /\ UNCHANGED req

Next ==
  \/ \E r \in Requests : (\E l \in Labels : Pass(r, l)) \/ Fail(r) \/ Reset(r)
  \/ Restart
  \/ Tick

\* Time passes.  No handler has to come back.
Spec == Init /\ [][Next]_vars /\ WF_vars(Tick)
------------------------------------------------------------------------------
Verifying(l) == {r \in Requests : req[r] = l}

\* Guesses at one label in one window, those under way included: handlers
\* that passed blocked() together overrun the limit by their number at most.
FailuresBounded ==
  \A l \in Labels :
    m[l].count + Cardinality(Verifying(l)) < MaxFailures + Cardinality(Requests)

\* The table never outgrows its bound, however many handlers fail at once.
TableBounded == Cardinality(Tracked) <= MaxTracked

\* No label is refused for ever, locked out or untracked with a full table.
RefusalEnds == \A l \in Labels : Refused(l) ~> ~Refused(l)

\* What the head comment of limiter.go says: a locked label stays locked
\* until its window ends (or the server restarts).
LockedUntilWindowEnds ==
  [][\A l \in Labels : Locked(l) /\ ~Restart => Locked(l)' \/ m'[l].age >= Window]_vars
==============================================================================

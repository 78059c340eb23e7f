------------------------------- MODULE Actors -------------------------------
(***************************************************************************)
(* The actors table (store.go, actors.go).  A label is globally unique and *)
(* its principal never changes: rows are inserted and updated, never       *)
(* deleted.  The password_hash column and the OAuth rows that the last two *)
(* operations also delete belong to the module OAuth.                      *)
(***************************************************************************)

CONSTANTS
  Principals,    \* accounts
  NoPrincipal,   \* SQL NULL, and "no row" in principalOf
  Labels,        \* actor labels, after TrimSpace
  OwnerLabel     \* 'owner', in any letter case

ASSUME NoPrincipalAssumption == NoPrincipal \notin Principals
ASSUME OwnerLabelAssumption == OwnerLabel \in Labels

VARIABLES
  principalOf,   \* principal_id of a registered label
  active         \* labels with active = 1

actorVars == <<principalOf, active>>

ActorsTypeOK ==
  /\ principalOf \in [Labels -> Principals \cup {NoPrincipal}]
  /\ active \subseteq {a \in Labels : principalOf[a] # NoPrincipal}

ActorsInit ==
  /\ principalOf = [a \in Labels |-> NoPrincipal]
  /\ active = {}

Registered(a) == principalOf[a] # NoPrincipal

\* Bug: the reserved label can be registered.
ReservedNever(a) == FALSE

\* EqualFold(actor, "owner") is refused for whatever principal.
Reserved(a) == a = OwnerLabel

InsertActor(p, a) ==
  /\ ~Reserved(a)
  /\ ~Registered(a)
  /\ principalOf' = [principalOf EXCEPT ![a] = p]
  /\ active' = active \cup {a}

\* Bug: the number of updated rows is not tested.
ActivateUnknown(a) ==
  /\ active' = active \cup {a}
  /\ UNCHANGED principalOf

\* A rotation also reactivates the actor.
Activate(a) ==
  /\ Registered(a)
  /\ active' = active \cup {a}
  /\ UNCHANGED principalOf

Deactivate(a) ==
  /\ Registered(a)
  /\ active' = active \ {a}
  /\ UNCHANGED principalOf
=============================================================================

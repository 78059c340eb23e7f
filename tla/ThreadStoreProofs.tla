-------------------------- MODULE ThreadStoreProofs --------------------------
(***************************************************************************)
(* Theorems about ThreadStore, for every set of principals, labels and     *)
(* threads and every bound on the ids.                                     *)
(***************************************************************************)
EXTENDS ThreadStore, FiniteSetTheorems, TLAPS

\* Strengthening of the invariants that the runs check.  A thread of this
\* version always has an owner, so migrate-v0 cannot move it.
FreshThreadsOwned ==
  \A t \in threads \ LegacyThreads : owner[t] # NoPrincipal

\* A reference points to a lower id even when its source is gone, so that no
\* later event can take the place of the source.
RefsPointBack == \A e \in events : e.ref < e.id

\* No row of actors carries the reserved label.
OwnerReserved == principalOf[OwnerLabel] = NoPrincipal

IInv ==
  /\ TypeOK
  /\ NoOrphans
  /\ IdsAreKeys
  /\ TombstoneIsLast
  /\ AclWithinOwner
  /\ RefsStayWithinOwner
  /\ FreshThreadsOwned
  /\ RefsPointBack
  /\ OwnerReserved
------------------------------------------------------------------------------
\* The empty database with its V0 threads satisfies the invariant.
LEMMA InitInv == Init => IInv
  BY LegacyAssumption, MaxEventIdAssumption, NoPrincipalAssumption, OwnerLabelAssumption
  DEF Init, IInv, TypeOK, NoOrphans, IdsAreKeys, TombstoneIsLast,
      AclWithinOwner, RefsStayWithinOwner, FreshThreadsOwned, RefsPointBack,
      OwnerReserved, ActorsInit, ActorsTypeOK, EventsOf, EventRows

\* Operations that touch the actors table only.
LEMMA ActorsStep ==
  ASSUME IInv, UNCHANGED <<threadVars, acl, eventVars>>,
         ActorsTypeOK', OwnerReserved',
         \A a \in Labels : Registered(a) => principalOf'[a] = principalOf[a]
  PROVE  IInv'
<1>1. TypeOK' /\ NoOrphans' /\ IdsAreKeys' /\ RefsStayWithinOwner'
      /\ FreshThreadsOwned' /\ RefsPointBack'
  BY DEF IInv, TypeOK, NoOrphans, IdsAreKeys, RefsStayWithinOwner,
         FreshThreadsOwned, RefsPointBack, threadVars, eventVars
<1>2. TombstoneIsLast'
  BY DEF IInv, TombstoneIsLast, EventsOf, threadVars, eventVars
<1>3. AclWithinOwner'
  BY NoPrincipalAssumption DEF IInv, AclWithinOwner, TypeOK, Registered, threadVars
<1> QED BY <1>1, <1>2, <1>3 DEF IInv

\* register-actor, set-password and deactivate-actor.
LEMMA RegistrationInv ==
  ASSUME IInv, NEW p \in Principals, NEW a \in Labels,
         RegisterActor(p, a) \/ SetActorPassword(a) \/ DeactivateActor(a)
  PROVE  IInv'
<1>1. ActorsTypeOK'
  BY NoPrincipalAssumption
  DEF IInv, TypeOK, ActorsTypeOK, RegisterActor, SetActorPassword, DeactivateActor,
      InsertActor, Activate, Deactivate, Registered, actorVars
<1>2. \A b \in Labels : Registered(b) => principalOf'[b] = principalOf[b]
  BY DEF IInv, TypeOK, ActorsTypeOK, RegisterActor, SetActorPassword, DeactivateActor,
         InsertActor, Activate, Deactivate, Registered
<1>3. UNCHANGED <<threadVars, acl, eventVars>>
  BY DEF RegisterActor, SetActorPassword, DeactivateActor
<1>4. OwnerReserved'
  BY OwnerLabelAssumption
  DEF IInv, TypeOK, ActorsTypeOK, OwnerReserved, RegisterActor, SetActorPassword,
      DeactivateActor, InsertActor, Activate, Deactivate, Reserved
<1> QED BY <1>1, <1>2, <1>3, <1>4, ActorsStep

\* A new thread has no grants and no events, so its owner concerns no row.
LEMMA CreateThreadInv ==
  ASSUME IInv, NEW t \in Threads, NEW p \in Principals, CreateThread(t, p)
  PROVE  IInv'
<1> USE DEF CreateThread
<1>1. TypeOK'
  BY DEF IInv, TypeOK, ActorsTypeOK, actorVars, eventVars
<1>2. \A u \in threads : owner'[u] = owner[u]
  BY DEF IInv, TypeOK
<1>3. NoOrphans'
  BY <1>2 DEF IInv, NoOrphans, TypeOK, eventVars
<1>4. IdsAreKeys' /\ RefsPointBack' /\ OwnerReserved'
  BY DEF IInv, IdsAreKeys, RefsPointBack, OwnerReserved, actorVars, eventVars
<1>5. TombstoneIsLast'
  BY DEF IInv, TombstoneIsLast, EventsOf, eventVars
<1>6. AclWithinOwner'
  BY <1>2 DEF IInv, AclWithinOwner, NoOrphans, actorVars
<1>7. RefsStayWithinOwner'
  BY <1>2 DEF IInv, RefsStayWithinOwner, NoOrphans, eventVars
<1>8. FreshThreadsOwned'
  BY <1>2, NoPrincipalAssumption DEF IInv, FreshThreadsOwned, TypeOK
<1> QED BY <1>1, <1>3, <1>4, <1>5, <1>6, <1>7, <1>8 DEF IInv

\* Operations that touch thread_acl only: what remains is a grant that was
\* there, or one of the label's own principal, the owner of a fresh thread.
LEMMA AclStep ==
  ASSUME IInv, UNCHANGED <<actorVars, threadVars, eventVars>>,
         \A g \in acl' : \/ g \in acl
                         \/ \E t \in threads, a \in active :
                              /\ g = <<t, principalOf[a], a>>
                              /\ t \notin LegacyThreads => owner[t] = principalOf[a]
  PROVE  IInv'
<1>1. \A g \in acl' : /\ g \in Threads \X Principals \X Labels
                      /\ g[1] \in threads
                      /\ principalOf[g[3]] = g[2]
                      /\ g[1] \notin LegacyThreads => owner[g[1]] = g[2]
                      /\ g[3] # OwnerLabel
  <2> SUFFICES ASSUME NEW g \in acl'
               PROVE  /\ g \in Threads \X Principals \X Labels
                      /\ g[1] \in threads
                      /\ principalOf[g[3]] = g[2]
                      /\ g[1] \notin LegacyThreads => owner[g[1]] = g[2]
                      /\ g[3] # OwnerLabel
    OBVIOUS
  <2>1. CASE g \in acl
    BY <2>1 DEF IInv, TypeOK, NoOrphans, AclWithinOwner
  <2>2. CASE \E t \in threads, a \in active :
               /\ g = <<t, principalOf[a], a>>
               /\ t \notin LegacyThreads => owner[t] = principalOf[a]
    BY <2>2 DEF IInv, TypeOK, ActorsTypeOK, OwnerReserved
  <2> QED BY <2>1, <2>2
<1>2. TypeOK' /\ NoOrphans' /\ AclWithinOwner'
  BY <1>1 DEF IInv, TypeOK, ActorsTypeOK, NoOrphans, AclWithinOwner,
              actorVars, threadVars, eventVars
<1>3. IdsAreKeys' /\ RefsStayWithinOwner' /\ FreshThreadsOwned'
      /\ RefsPointBack' /\ OwnerReserved'
  BY DEF IInv, IdsAreKeys, RefsStayWithinOwner, FreshThreadsOwned, RefsPointBack,
         OwnerReserved, actorVars, threadVars, eventVars
<1>4. TombstoneIsLast'
  BY DEF IInv, TombstoneIsLast, EventsOf, threadVars, eventVars
<1> QED BY <1>2, <1>3, <1>4 DEF IInv

\* The CLI's and the owner's grants and revocations.
LEMMA GrantInv ==
  ASSUME IInv, NEW t \in Threads, NEW p \in Principals, NEW a \in Labels,
         \/ Grant(t, a) \/ GrantOwnerActor(t, p, a)
         \/ Revoke(t, a) \/ RevokeOwnerActor(t, p, a)
  PROVE  IInv'
<1>1. UNCHANGED <<actorVars, threadVars, eventVars>>
  BY DEF Grant, GrantOwnerActor, Revoke, RevokeOwnerActor
<1>2. CASE Grant(t, a)
  <2>1. t \notin LegacyThreads => owner[t] = principalOf[a]
    BY <1>2 DEF IInv, FreshThreadsOwned, Grant, Open
  <2> QED BY <1>1, <1>2, <2>1, AclStep DEF Grant, Open
<1>3. CASE GrantOwnerActor(t, p, a)
  BY <1>1, <1>3, AclStep DEF GrantOwnerActor, OwnerMayGrant, OwnedBy
<1>4. CASE Revoke(t, a) \/ RevokeOwnerActor(t, p, a)
  BY <1>1, <1>4, AclStep DEF Revoke, RevokeOwnerActor, RemoveGrant
<1> QED BY <1>2, <1>3, <1>4

\* migrate-v0 changes the owner of no fresh thread.
LEMMA MigrateInv ==
  ASSUME IInv, NEW p \in Principals, MigrateV0Threads(p)
  PROVE  IInv'
<1> USE DEF MigrateV0Threads
<1>1. TypeOK'
  BY DEF IInv, TypeOK, ActorsTypeOK, actorVars, eventVars
<1>2. \A t \in threads \ LegacyThreads : owner'[t] = owner[t]
  BY DEF IInv, TypeOK, FreshThreadsOwned
<1>3. NoOrphans'
  BY DEF IInv, NoOrphans, TypeOK, eventVars
<1>4. IdsAreKeys' /\ RefsPointBack' /\ OwnerReserved'
  BY DEF IInv, IdsAreKeys, RefsPointBack, OwnerReserved, actorVars, eventVars
<1>5. TombstoneIsLast'
  BY DEF IInv, TombstoneIsLast, EventsOf, eventVars
<1>6. AclWithinOwner'
  BY <1>2 DEF IInv, AclWithinOwner, NoOrphans, actorVars
<1>7. RefsStayWithinOwner'
  BY <1>2 DEF IInv, RefsStayWithinOwner, NoOrphans, eventVars
<1>8. FreshThreadsOwned'
  BY <1>2 DEF IInv, FreshThreadsOwned
<1> QED BY <1>1, <1>3, <1>4, <1>5, <1>6, <1>7, <1>8 DEF IInv

\* The two marks delete nothing.
LEMMA MarkInv ==
  ASSUME IInv, NEW t \in Threads, NEW p \in Principals,
         MarkThreadDeleted(t, p) \/ \E i \in Ids : MarkMessageDeleted(t, p, i)
  PROVE  IInv'
<1> USE DEF MarkThreadDeleted, MarkMessageDeleted
<1>1. UNCHANGED <<actorVars, minted, threads, owner, tombstoned, acl, events, payloads, seq>>
  BY DEF threadVars, eventVars
<1>2. TypeOK'
  BY <1>1 DEF IInv, TypeOK, ActorsTypeOK, OwnedBy, actorVars, threadVars, eventVars
<1>3. NoOrphans'
  BY <1>1 DEF IInv, NoOrphans, IdsOf, EventsOf, threadVars, eventVars
<1>4. IdsAreKeys' /\ AclWithinOwner' /\ RefsStayWithinOwner' /\ FreshThreadsOwned'
      /\ RefsPointBack' /\ OwnerReserved'
  BY <1>1 DEF IInv, IdsAreKeys, AclWithinOwner, RefsStayWithinOwner, FreshThreadsOwned,
              RefsPointBack, OwnerReserved, actorVars
<1>5. TombstoneIsLast'
  BY <1>1 DEF IInv, TombstoneIsLast, EventsOf
<1> QED BY <1>2, <1>3, <1>4, <1>5 DEF IInv
------------------------------------------------------------------------------
\* The row that Append adds.
NewEvent(t, p, a, r, kind) ==
  [id |-> NextId, thread |-> t, principal |-> p, actor |-> a, ref |-> r, kind |-> kind]

\* What one more event of an open thread preserves, whoever writes it.
LEMMA AppendStep ==
  ASSUME IInv, NEW t \in Threads, NEW p \in Principals, NEW a \in Labels,
         NEW r \in Ids \cup {NoRef}, NEW kind \in Kinds, NEW content \in BOOLEAN,
         Open(t), r <= seq, Append(t, p, a, r, kind, content),
         UNCHANGED <<actorVars, minted, threads, owner, marked, acl>>
  PROVE  /\ NewEvent(t, p, a, r, kind) \in EventRows
         /\ events' = events \cup {NewEvent(t, p, a, r, kind)}
         /\ payloads' \subseteq Ids /\ deletions' \subseteq Ids /\ seq' \in 0..MaxEventId
         /\ NoOrphans' /\ IdsAreKeys' /\ AclWithinOwner' /\ FreshThreadsOwned'
         /\ RefsPointBack' /\ OwnerReserved'
<1> DEFINE e == NewEvent(t, p, a, r, kind)
<1>1. /\ events' = events \cup {e} /\ seq' = seq + 1 /\ seq < MaxEventId
      /\ e.id = seq + 1 /\ e.thread = t /\ e.ref = r
      /\ payloads' \subseteq payloads \cup {seq + 1} /\ deletions' = deletions
  BY DEF Append, NewEvent, NextId
<1>2. seq \in 0..MaxEventId
  BY DEF IInv, TypeOK
<1>3. seq + 1 \in Ids
  BY <1>1, <1>2, MaxEventIdAssumption DEF Ids
<1>4. e \in EventRows
  BY <1>3 DEF EventRows, NewEvent, NextId
<1>5. payloads' \subseteq Ids /\ deletions' \subseteq Ids /\ seq' \in 0..MaxEventId
  BY <1>1, <1>2, <1>3, MaxEventIdAssumption DEF IInv, TypeOK
<1> HIDE DEF e
<1>6. NoOrphans'
  BY <1>1 DEF IInv, NoOrphans, Open
<1>7. IdsAreKeys'
  <2>1. \A f \in events : f.id <= seq /\ f.id \in Nat
    BY DEF IInv, IdsAreKeys, TypeOK, EventRows, Ids
  <2> QED BY <1>1, <1>2, <2>1 DEF IInv, IdsAreKeys
<1>8. RefsPointBack'
  BY <1>1, <1>2, MaxEventIdAssumption DEF IInv, RefsPointBack, Ids, NoRef
<1>9. AclWithinOwner' /\ FreshThreadsOwned' /\ OwnerReserved'
  BY DEF IInv, AclWithinOwner, FreshThreadsOwned, OwnerReserved, actorVars
<1> QED BY <1>1, <1>4, <1>5, <1>6, <1>7, <1>8, <1>9 DEF e

\* A post keeps the tombstones last: the thread it extends is not tombstoned.
LEMMA PostTombstones ==
  ASSUME IInv, NEW t \in Threads, NEW e, t \notin tombstoned,
         e.thread = t, e.kind = "entry", events' = events \cup {e},
         tombstoned' = tombstoned
  PROVE  TombstoneIsLast'
  BY DEF IInv, TombstoneIsLast, EventsOf

\* No event refers to the new one yet.
LEMMA RefsStep ==
  ASSUME IInv, NEW e, events' = events \cup {e}, owner' = owner,
         \A f \in events' : f.ref # e.id,
         \A f \in events : e.ref = f.id =>
           /\ f.id < e.id
           /\ {e.thread, f.thread} \cap LegacyThreads = {} =>
                owner[e.thread] = owner[f.thread]
  PROVE  RefsStayWithinOwner'
<1> SUFFICES ASSUME NEW x \in events', NEW y \in events', x.ref = y.id
             PROVE  /\ y.id < x.id
                    /\ {x.thread, y.thread} \cap LegacyThreads = {} =>
                         owner[x.thread] = owner[y.thread]
  BY DEF RefsStayWithinOwner
<1>1. y \in events
  OBVIOUS
<1>2. CASE x \in events
  BY <1>1, <1>2 DEF IInv, RefsStayWithinOwner
<1>3. CASE x = e
  BY <1>1, <1>3
<1> QED BY <1>2, <1>3

LEMMA PostOwnerMessageInv ==
  ASSUME IInv, NEW t \in Threads, NEW p \in Principals, PostOwnerMessage(t, p)
  PROVE  IInv'
<1> DEFINE e == NewEvent(t, p, OwnerLabel, NoRef, "entry")
<1>1. /\ Open(t) /\ Append(t, p, OwnerLabel, NoRef, "entry", TRUE)
      /\ UNCHANGED <<actorVars, minted, threads, owner, tombstoned, marked, acl>>
  BY DEF PostOwnerMessage, threadVars
<1>2. NoRef <= seq
  BY DEF IInv, TypeOK, NoRef
<1>3. /\ e \in EventRows /\ events' = events \cup {e}
      /\ payloads' \subseteq Ids /\ deletions' \subseteq Ids /\ seq' \in 0..MaxEventId
      /\ NoOrphans' /\ IdsAreKeys' /\ AclWithinOwner' /\ FreshThreadsOwned'
      /\ RefsPointBack' /\ OwnerReserved'
  BY <1>1, <1>2, AppendStep, OwnerLabelAssumption DEF Kinds
<1>4. TypeOK'
  BY <1>1, <1>3 DEF IInv, TypeOK, ActorsTypeOK, actorVars
<1>5. TombstoneIsLast'
  <2>1. e.thread = t /\ e.kind = "entry"
    BY DEF NewEvent
  <2> QED BY <1>1, <1>3, <2>1, PostTombstones DEF Open
<1>6. RefsStayWithinOwner'
  <2>1. e.ref = 0 /\ \A f \in events' : f.id \in Ids
    BY <1>3, <1>4 DEF TypeOK, EventRows, NewEvent, NoRef
  <2>2. \A f \in events : f.ref < e.id
    BY DEF IInv, RefsPointBack, IdsAreKeys, TypeOK, EventRows, Ids, NoRef, NewEvent, NextId
  <2> QED BY <1>1, <1>3, <2>1, <2>2 DEF IInv, RefsStayWithinOwner, Ids
<1> QED BY <1>3, <1>4, <1>5, <1>6 DEF IInv

\* The poster has grants on both threads, so on fresh threads both owners are
\* the poster's principal.
LEMMA PostMessageInv ==
  ASSUME IInv, NEW t \in Threads, NEW p \in Principals, NEW a \in Labels,
         NEW r \in Ids \cup {NoRef}, NEW content \in BOOLEAN,
         PostMessage(t, p, a, r, content)
  PROVE  IInv'
<1> DEFINE e == NewEvent(t, p, a, r, "entry")
<1>1. /\ Authorized(t, p, a) /\ Open(t) /\ Append(t, p, a, r, "entry", content)
      /\ UNCHANGED <<actorVars, minted, threads, owner, tombstoned, marked, acl>>
  BY DEF PostMessage, Authorized, threadVars
<1>2. r # NoRef => SourceReadable(r, p, a)
  BY DEF PostMessage
<1>3. r <= seq
  BY <1>2 DEF IInv, SourceReadable, IdsAreKeys, TypeOK, NoRef
<1>4. /\ e \in EventRows /\ events' = events \cup {e}
      /\ payloads' \subseteq Ids /\ deletions' \subseteq Ids /\ seq' \in 0..MaxEventId
      /\ NoOrphans' /\ IdsAreKeys' /\ AclWithinOwner' /\ FreshThreadsOwned'
      /\ RefsPointBack' /\ OwnerReserved'
  BY <1>1, <1>3, AppendStep DEF Kinds
<1>5. TypeOK'
  BY <1>1, <1>4 DEF IInv, TypeOK, ActorsTypeOK, actorVars
<1>6. TombstoneIsLast'
  <2>1. e.thread = t /\ e.kind = "entry"
    BY DEF NewEvent
  <2> QED BY <1>1, <1>4, <2>1, PostTombstones DEF Open
<1>7. RefsStayWithinOwner'
  <2>1. e.ref = r /\ e.thread = t /\ e.id = seq + 1
    BY DEF NewEvent, NextId
  <2>2. \A f \in events : f.ref < e.id /\ f.id < e.id /\ f.id # 0
    BY <2>1 DEF IInv, RefsPointBack, IdsAreKeys, TypeOK, EventRows, Ids, NoRef
  <2>3. \A f \in events :
          /\ e.ref = f.id
          /\ {e.thread, f.thread} \cap LegacyThreads = {}
          => owner[e.thread] = owner[f.thread]
    <3> SUFFICES ASSUME NEW f \in events, r = f.id,
                        {t, f.thread} \cap LegacyThreads = {}
                 PROVE  owner[t] = owner[f.thread]
      BY <2>1
    <3>1. PICK g \in events : g.id = r /\ Authorized(g.thread, p, a)
      BY <1>2, <2>2 DEF SourceReadable, NoRef
    <3>2. g = f
      BY <3>1 DEF IInv, IdsAreKeys
    <3> QED BY <1>1, <3>1, <3>2 DEF IInv, AclWithinOwner, Authorized
  <2>4. \A f \in events' : f.ref # e.id
    BY <1>3, <1>4, <1>5, <2>1, <2>2 DEF TypeOK, EventRows, Ids, NoRef, IInv
  <2>5. \A f \in events : f.id < e.id
    BY <2>2
  <2> HIDE DEF e
  <2> QED BY <1>1, <1>4, <2>3, <2>4, <2>5, RefsStep
<1> QED BY <1>4, <1>5, <1>6, <1>7 DEF IInv

\* The tombstone gets the highest id and is the only one of its thread.
LEMMA TombstoneThreadInv ==
  ASSUME IInv, NEW t \in Threads, NEW p \in Principals, TombstoneThread(t, p)
  PROVE  IInv'
<1> DEFINE e == NewEvent(t, p, OwnerLabel, NoRef, "thread_tombstoned")
<1>1. /\ Open(t) /\ Append(t, p, OwnerLabel, NoRef, "thread_tombstoned", FALSE)
      /\ UNCHANGED <<actorVars, minted, threads, owner, marked, acl>>
      /\ tombstoned' = tombstoned \cup {t}
  BY DEF TombstoneThread
<1>2. NoRef <= seq
  BY DEF IInv, TypeOK, NoRef
<1>3. /\ e \in EventRows /\ events' = events \cup {e}
      /\ payloads' \subseteq Ids /\ deletions' \subseteq Ids /\ seq' \in 0..MaxEventId
      /\ NoOrphans' /\ IdsAreKeys' /\ AclWithinOwner' /\ FreshThreadsOwned'
      /\ RefsPointBack' /\ OwnerReserved'
  BY <1>1, <1>2, AppendStep, OwnerLabelAssumption DEF Kinds
<1>4. TypeOK'
  BY <1>1, <1>3 DEF IInv, TypeOK, ActorsTypeOK, actorVars, Open
<1>5. /\ e.thread = t /\ e.kind = "thread_tombstoned" /\ e.ref = 0
      /\ \A f \in events : f.ref < e.id /\ f.id < e.id /\ f.id # 0
  BY DEF NewEvent, NextId, IInv, RefsPointBack, IdsAreKeys, TypeOK, EventRows, Ids, NoRef
<1>6. e.id \in Nat \ {0}
  BY DEF NewEvent, NextId, IInv, TypeOK
<1> HIDE DEF e
<1>7. TombstoneIsLast'
  <2>1. \A f \in events : f.thread = t => f.kind # "thread_tombstoned"
    BY <1>1 DEF IInv, TombstoneIsLast, Open
  <2>2. \A f \in events' : f.thread = t => f = e \/ f.kind # "thread_tombstoned"
    BY <1>3, <2>1
  <2>3. \A f \in events' : f.id <= e.id
    BY <1>3, <1>5, <1>6 DEF IInv, TypeOK, EventRows, Ids
  <2>4. \E x \in EventsOf({t})' :
          /\ x.kind = "thread_tombstoned"
          /\ \A f \in EventsOf({t})' : f.id <= x.id
          /\ \A f \in EventsOf({t})' : f.kind = "thread_tombstoned" => f = x
    BY <1>3, <1>5, <2>2, <2>3 DEF EventsOf
  <2>5. \A u \in tombstoned : u # t /\ EventsOf({u})' = EventsOf({u})
    BY <1>1, <1>3, <1>5 DEF EventsOf, Open
  <2>6. \A u \in tombstoned' : u = t \/ u \in tombstoned
    BY <1>1
  <2>7. \A u \in tombstoned' : \E x \in EventsOf({u})' :
          /\ x.kind = "thread_tombstoned"
          /\ \A f \in EventsOf({u})' : f.id <= x.id
          /\ \A f \in EventsOf({u})' : f.kind = "thread_tombstoned" => f = x
    BY <2>4, <2>5, <2>6 DEF IInv, TombstoneIsLast
  <2>8. \A f \in events' : f.kind = "thread_tombstoned" => f.thread \in tombstoned'
    BY <1>1, <1>3, <1>5 DEF IInv, TombstoneIsLast
  <2> QED BY <2>7, <2>8 DEF TombstoneIsLast, EventsOf
<1>8. RefsStayWithinOwner'
  <2>1. \A f \in events' : f.ref # e.id
    BY <1>3, <1>4, <1>5, <1>6 DEF TypeOK, EventRows, Ids, NoRef
  <2> QED BY <1>1, <1>3, <1>5, <2>1, RefsStep
<1> QED BY <1>3, <1>4, <1>7, <1>8 DEF IInv
------------------------------------------------------------------------------
\* A collection takes whole threads with all their rows; what survives keeps
\* its owner, its grants and its events.
LEMMA GarbageCollectInv ==
  ASSUME IInv, NEW p \in Principals, GarbageCollect(p)
  PROVE  IInv'
<1> DEFINE D == Doomed(p)
<1>1. /\ events' = events \ EventsOf(D)
      /\ payloads' = payloads \ (IdsOf(D) \cup ErasedPayloads(p))
      /\ deletions' = deletions \ IdsOf(D)
      /\ threads' = threads \ D
      /\ owner' = [t \in Threads |-> IF t \in D THEN NoPrincipal ELSE owner[t]]
      /\ tombstoned' = tombstoned \ D /\ marked' = marked \ D
      /\ acl' = {g \in acl : g[1] \notin D}
      /\ UNCHANGED <<principalOf, active, minted, seq>>
  BY DEF GarbageCollect, CascadedIds, actorVars
<1>2. D \subseteq threads
  BY DEF Doomed
<1>3. \A e \in events : e \in events' <=> e.thread \notin D
  BY <1>1 DEF EventsOf
<1> HIDE DEF D
<1>4. TypeOK'
  BY <1>1 DEF IInv, TypeOK, ActorsTypeOK
<1>5. NoOrphans'
  <2>1. \A i \in payloads' \cup deletions' : \E e \in events' : e.id = i
    BY <1>1, <1>3 DEF IInv, NoOrphans, IdsOf, EventsOf
  <2>2. \A t \in Threads \ threads' : owner'[t] = NoPrincipal
    BY <1>1 DEF IInv, NoOrphans
  <2>3. (\A g \in acl' : g[1] \in threads') /\ (\A e \in events' : e.thread \in threads')
    BY <1>1, <1>3 DEF IInv, NoOrphans
  <2> QED BY <2>1, <2>2, <2>3 DEF NoOrphans
<1>6. IdsAreKeys' /\ RefsPointBack' /\ OwnerReserved'
  BY <1>1 DEF IInv, IdsAreKeys, RefsPointBack, OwnerReserved
<1>7. TombstoneIsLast'
  <2>1. \A t \in tombstoned' : EventsOf({t})' = EventsOf({t})
    BY <1>1, <1>3 DEF EventsOf
  <2> QED BY <1>1, <1>3, <2>1 DEF IInv, TombstoneIsLast
<1>8. AclWithinOwner'
  BY <1>1 DEF IInv, AclWithinOwner, TypeOK
<1>9. RefsStayWithinOwner'
  <2>1. \A e \in events' : e \in events /\ owner'[e.thread] = owner[e.thread]
    BY <1>1, <1>3 DEF IInv, TypeOK, EventRows
  <2> QED BY <2>1 DEF IInv, RefsStayWithinOwner
<1>10. FreshThreadsOwned'
  BY <1>1 DEF IInv, FreshThreadsOwned, TypeOK
<1> QED BY <1>4, <1>5, <1>6, <1>7, <1>8, <1>9, <1>10 DEF IInv
------------------------------------------------------------------------------
LEMMA NextInv == IInv /\ [Next]_vars => IInv'
<1> SUFFICES ASSUME IInv, [Next]_vars PROVE IInv'
  OBVIOUS
<1>1. ASSUME NEW p \in Principals, NEW a \in Labels,
             RegisterActor(p, a) \/ SetActorPassword(a) \/ DeactivateActor(a)
      PROVE  IInv'
  BY <1>1, RegistrationInv
<1>2. ASSUME NEW a \in Labels, SetActorPassword(a) \/ DeactivateActor(a)
      PROVE  IInv'
  <2>1. \E p \in Principals : TRUE
    BY <1>2, NoPrincipalAssumption
    DEF SetActorPassword, DeactivateActor, Activate, Deactivate, Registered,
        IInv, TypeOK, ActorsTypeOK
  <2> QED BY <1>2, <2>1, RegistrationInv
<1>3. ASSUME NEW t \in Threads, NEW p \in Principals,
             \/ CreateThread(t, p) \/ PostOwnerMessage(t, p) \/ TombstoneThread(t, p)
             \/ MarkThreadDeleted(t, p) \/ \E i \in Ids : MarkMessageDeleted(t, p, i)
      PROVE  IInv'
  BY <1>3, CreateThreadInv, PostOwnerMessageInv, TombstoneThreadInv, MarkInv
<1>4. ASSUME NEW t \in Threads, NEW a \in Labels, Grant(t, a) \/ Revoke(t, a)
      PROVE  IInv'
  <2>1. \E p \in Principals : TRUE
    BY <1>4, NoPrincipalAssumption
    DEF Grant, Revoke, RemoveGrant, IInv, TypeOK, ActorsTypeOK, AclWithinOwner
  <2> QED BY <1>4, <2>1, GrantInv
<1>5. ASSUME NEW t \in Threads, NEW p \in Principals, NEW a \in Labels,
             \/ GrantOwnerActor(t, p, a) \/ RevokeOwnerActor(t, p, a)
             \/ \E r \in Ids \cup {NoRef}, content \in BOOLEAN :
                  PostMessage(t, p, a, r, content)
      PROVE  IInv'
  BY <1>5, GrantInv, PostMessageInv
<1>6. ASSUME NEW p \in Principals, MigrateV0Threads(p) \/ GarbageCollect(p)
      PROVE  IInv'
  BY <1>6, MigrateInv, GarbageCollectInv
<1>7. CASE UNCHANGED vars
  <2>1. ActorsTypeOK' /\ OwnerReserved'
    BY <1>7 DEF vars, actorVars, IInv, TypeOK, ActorsTypeOK, OwnerReserved
  <2> QED BY <1>7, <2>1, ActorsStep DEF vars, actorVars
<1> QED BY <1>1, <1>2, <1>3, <1>4, <1>5, <1>6, <1>7 DEF Next

\* Every reachable state satisfies the invariant.
THEOREM Invariance == Spec => []IInv
<1> QED BY InitInv, NextInv, PTL DEF Spec

\* All of the tables hold what their types say.
THEOREM TypeCorrect == Spec => []TypeOK
<1>1. IInv => TypeOK
  BY DEF IInv
<1> QED BY <1>1, Invariance, PTL

\* Nothing of a collected thread stays behind.
THEOREM NoOrphansCorrect == Spec => []NoOrphans
<1>1. IInv => NoOrphans
  BY DEF IInv
<1> QED BY <1>1, Invariance, PTL

\* A thread is tombstoned once, and by its last event.
THEOREM TombstoneCorrect == Spec => []TombstoneIsLast
<1>1. IInv => TombstoneIsLast
  BY DEF IInv
<1> QED BY <1>1, Invariance, PTL

\* A grant is for the principal of its label and, on every thread of this
\* version, for the thread's owner.
THEOREM AclCorrect == Spec => []AclWithinOwner
<1>1. IInv => AclWithinOwner
  BY DEF IInv
<1> QED BY <1>1, Invariance, PTL

\* References point back and stay within one owner's threads.
THEOREM RefsCorrect == Spec => []RefsStayWithinOwner
<1>1. IInv => RefsStayWithinOwner
  BY DEF IInv
<1> QED BY <1>1, Invariance, PTL

\* What a collection will erase is what the owner sees as marked.
THEOREM PendingCorrect == Spec => []PendingMatchesView
<1>1. IInv => PendingMatchesView
  <2> SUFFICES ASSUME IInv, NEW p \in Principals
               PROVE  ErasedPayloads(p) =
                        {e.id : e \in {f \in events : /\ OwnedBy(f.thread, p)
                                                      /\ f.thread \notin Doomed(p)
                                                      /\ ScanEvent(f) = "marked"}}
    BY DEF PendingMatchesView
  <2>1. \A f \in events : OwnedBy(f.thread, p) =>
          /\ f.thread \notin Doomed(p) <=> f.thread \notin marked \cup PurgedBefore
          /\ f.thread \notin marked \cup PurgedBefore =>
               (ScanEvent(f) = "marked" <=> f.id \in payloads \cap deletions)
    BY DEF OwnedBy, Doomed, ScanEvent, IsMarked
  <2> QED BY <2>1 DEF ErasedPayloads
<1> QED BY <1>1, Invariance, PTL
------------------------------------------------------------------------------
\* A step appends one event to an open thread, or it adds none.
Appends ==
  \E t \in Threads, p \in Principals, a \in Labels, r \in Ids \cup {NoRef},
     kind \in Kinds, content \in BOOLEAN :
    /\ Open(t)
    /\ Append(t, p, a, r, kind, content)
    /\ UNCHANGED <<threads, marked, acl>>

LEMMA EventsStep ==
  ASSUME IInv, [Next]_vars
  PROVE  Appends \/ (events' \subseteq events /\ seq' = seq)
<1>1. ASSUME NEW t \in Threads, NEW p \in Principals,
             PostOwnerMessage(t, p) \/ TombstoneThread(t, p)
      PROVE  Appends
  <2>1. PICK content \in BOOLEAN, kind \in Kinds :
               /\ Open(t)
               /\ Append(t, p, OwnerLabel, NoRef, kind, content)
               /\ UNCHANGED <<threads, marked, acl>>
    BY <1>1 DEF PostOwnerMessage, TombstoneThread, threadVars, Kinds
  <2> QED BY <2>1, OwnerLabelAssumption DEF Appends
<1>2. ASSUME NEW t \in Threads, NEW p \in Principals, NEW a \in Labels,
             NEW r \in Ids \cup {NoRef}, NEW content \in BOOLEAN,
             PostMessage(t, p, a, r, content)
      PROVE  Appends
  <2>1. /\ Open(t)
        /\ Append(t, p, a, r, "entry", content)
        /\ UNCHANGED <<threads, marked, acl>>
    BY <1>2 DEF PostMessage, Authorized, threadVars
  <2> QED BY <2>1 DEF Appends, Kinds
<1>3. ASSUME \/ \E p \in Principals : \/ MigrateV0Threads(p) \/ GarbageCollect(p)
                                      \/ \E a \in Labels : RegisterActor(p, a)
             \/ \E a \in Labels : SetActorPassword(a) \/ DeactivateActor(a)
             \/ \E t \in Threads, a \in Labels : Grant(t, a) \/ Revoke(t, a)
             \/ \E t \in Threads, p \in Principals :
                  \/ CreateThread(t, p) \/ MarkThreadDeleted(t, p)
                  \/ \E i \in Ids : MarkMessageDeleted(t, p, i)
                  \/ \E a \in Labels : GrantOwnerActor(t, p, a) \/ RevokeOwnerActor(t, p, a)
             \/ UNCHANGED vars
      PROVE  events' \subseteq events /\ seq' = seq
  BY <1>3 DEF MigrateV0Threads, GarbageCollect, RegisterActor, SetActorPassword,
              DeactivateActor, Grant, Revoke, CreateThread, MarkThreadDeleted,
              MarkMessageDeleted, GrantOwnerActor, RevokeOwnerActor, vars, eventVars
<1> QED BY <1>1, <1>2, <1>3 DEF Next

\* No event id is ever given to a second event, however many were deleted.
THEOREM IdsCorrect == Spec => IdsNeverReused
<1>1. IInv /\ [Next]_vars => [/\ \A e \in events' \ events : e.id > seq
                              /\ seq' >= seq]_vars
  <2> SUFFICES ASSUME IInv, [Next]_vars
               PROVE  (\A e \in events' \ events : e.id > seq) /\ seq' >= seq
    OBVIOUS
  <2>1. seq \in Nat
    BY DEF IInv, TypeOK
  <2>2. CASE events' \subseteq events /\ seq' = seq
    BY <2>1, <2>2
  <2>3. CASE Appends
    BY <2>1, <2>3 DEF Appends, Append, NextId
  <2> QED BY <2>2, <2>3, EventsStep
<1> QED BY <1>1, Invariance, PTL DEF Spec, IdsNeverReused

\* What happens to a thread that is closed before the step.
LEMMA ClosedStep ==
  ASSUME IInv, [Next]_vars, NEW t \in minted, ~Open(t)
  PROVE  ~Open(t)' /\ (t \in threads' => {g \in acl : g[1] = t} = {g \in acl' : g[1] = t})
<1>1. ASSUME UNCHANGED <<threads, tombstoned, marked>>,
             \A g \in (acl \ acl') \cup (acl' \ acl) : Open(g[1])
      PROVE  ~Open(t)' /\ {g \in acl : g[1] = t} = {g \in acl' : g[1] = t}
  BY <1>1 DEF Open
<1>2. ASSUME NEW u \in Threads, NEW p \in Principals, CreateThread(u, p)
      PROVE  ~Open(t)' /\ acl' = acl
  BY <1>2 DEF CreateThread, Open
<1>3. ASSUME NEW u \in Threads, NEW p \in Principals,
             TombstoneThread(u, p) \/ MarkThreadDeleted(u, p)
      PROVE  ~Open(t)' /\ acl' = acl
  BY <1>3 DEF TombstoneThread, MarkThreadDeleted, Open
<1>4. ASSUME NEW p \in Principals, GarbageCollect(p)
      PROVE  ~Open(t)' /\ (t \in threads' => {g \in acl : g[1] = t} = {g \in acl' : g[1] = t})
  BY <1>4 DEF GarbageCollect, Open
<1>5. ASSUME NEW u \in Threads, NEW p \in Principals, NEW a \in Labels,
             \/ Grant(u, a) \/ GrantOwnerActor(u, p, a)
             \/ Revoke(u, a) \/ RevokeOwnerActor(u, p, a)
      PROVE  /\ UNCHANGED <<threads, tombstoned, marked>>
             /\ \A g \in (acl \ acl') \cup (acl' \ acl) : Open(g[1])
  BY <1>5 DEF Grant, GrantOwnerActor, OwnerMayGrant, Revoke, RevokeOwnerActor, RemoveGrant,
              threadVars
<1>6. ASSUME NEW u \in Threads, NEW a \in Labels, Grant(u, a) \/ Revoke(u, a)
      PROVE  /\ UNCHANGED <<threads, tombstoned, marked>>
             /\ \A g \in (acl \ acl') \cup (acl' \ acl) : Open(g[1])
  BY <1>6 DEF Grant, Revoke, RemoveGrant, threadVars
<1>7. ASSUME \/ \E p \in Principals : \/ MigrateV0Threads(p)
                                      \/ \E a \in Labels : RegisterActor(p, a)
             \/ \E a \in Labels : SetActorPassword(a) \/ DeactivateActor(a)
             \/ \E u \in Threads, p \in Principals :
                  \/ PostOwnerMessage(u, p)
                  \/ \E i \in Ids : MarkMessageDeleted(u, p, i)
                  \/ \E a \in Labels, r \in Ids \cup {NoRef}, content \in BOOLEAN :
                       PostMessage(u, p, a, r, content)
             \/ UNCHANGED vars
      PROVE  UNCHANGED <<threads, tombstoned, marked, acl>>
  BY <1>7 DEF MigrateV0Threads, RegisterActor, SetActorPassword, DeactivateActor,
              PostOwnerMessage, MarkMessageDeleted, PostMessage, vars, threadVars
<1> QED BY <1>1, <1>2, <1>3, <1>4, <1>5, <1>6, <1>7 DEF Next

\* Closing is for ever: no post, no grant, no revocation after it.
THEOREM ClosedCorrect == Spec => ClosedThreadsFrozen
<1>1. ASSUME IInv, [Next]_vars, NEW t \in minted, ~Open(t)
      PROVE  \A e \in events' \ events : e.thread # t
  <2>1. CASE Appends
    BY <1>1, <2>1 DEF Appends, Append
  <2> QED BY <1>1, <2>1, EventsStep
<1>2. IInv /\ [Next]_vars =>
        [\A t \in minted :
           ~Open(t) =>
             /\ ~Open(t)'
             /\ \A e \in events' \ events : e.thread # t
             /\ t \in threads' =>
                  {g \in acl : g[1] = t} = {g \in acl' : g[1] = t}]_vars
  BY <1>1, ClosedStep
<1> QED BY <1>2, Invariance, PTL DEF Spec, ClosedThreadsFrozen

\* What a caller reads, through references too, is what its grants open.
LEMMA ReadableIsAuthorized ==
  ASSUME IInv, NEW p, NEW a
  PROVE  \A e : e \in ReadableBy(p, a) <=> e \in events /\ Authorized(e.thread, p, a)
<1>1. ASSUME NEW t \in Threads, NEW e \in GetThread(t, p, a)
      PROVE  e \in events /\ Authorized(e.thread, p, a)
  BY <1>1 DEF GetThread, EventsOf, Render
<1>2. ASSUME NEW e \in events, Authorized(e.thread, p, a)
      PROVE  e.thread \in Threads /\ e \in GetThread(e.thread, p, a)
  BY <1>2 DEF IInv, TypeOK, EventRows, GetThread, EventsOf
<1> QED BY <1>1, <1>2 DEF ReadableBy

LEMMA ReadableIsOwned ==
  ASSUME IInv, NEW p
  PROVE  \A e : e \in ReadableByOwner(p) <=> e \in events /\ OwnedBy(e.thread, p)
<1>1. ASSUME NEW t \in Threads, NEW e \in GetOwnerThread(t, p)
      PROVE  e \in events /\ OwnedBy(e.thread, p)
  BY <1>1 DEF GetOwnerThread, EventsOf
<1>2. ASSUME NEW e \in events, OwnedBy(e.thread, p)
      PROVE  e.thread \in Threads /\ e \in GetOwnerThread(e.thread, p)
  BY <1>2 DEF IInv, TypeOK, EventRows, GetOwnerThread, EventsOf
<1> QED BY <1>1, <1>2 DEF ReadableByOwner

\* A thread with a row changes its owner only when it had none.
LEMMA OwnerStep ==
  ASSUME IInv, [Next]_vars, NEW t \in threads, NEW p \in Principals, OwnedBy(t, p)'
  PROVE  OwnedBy(t, p) \/ owner[t] = NoPrincipal
<1>1. ASSUME NEW s \in Threads, NEW q \in Principals, CreateThread(s, q)
      PROVE  t # s
  BY <1>1 DEF CreateThread, IInv, TypeOK
<1>2. CASE \E s \in Threads, q \in Principals : CreateThread(s, q)
  BY <1>1, <1>2 DEF CreateThread, OwnedBy, IInv, TypeOK
<1>3. CASE \E q \in Principals : MigrateV0Threads(q)
  BY <1>3 DEF MigrateV0Threads, OwnedBy, IInv, TypeOK
<1>4. CASE \E q \in Principals : GarbageCollect(q)
  BY <1>4 DEF GarbageCollect, OwnedBy, IInv, TypeOK
<1>5. CASE owner' = owner
  BY <1>5 DEF OwnedBy
<1> QED
  BY <1>2, <1>3, <1>4, <1>5
  DEF Next, vars, threadVars, RegisterActor, SetActorPassword, DeactivateActor,
      PostOwnerMessage, TombstoneThread, MarkThreadDeleted, MarkMessageDeleted, Grant, Revoke,
      GrantOwnerActor, RevokeOwnerActor, PostMessage

\* An old event comes into a caller's reach only by a grant to that caller, or
\* with an unowned thread by migrate-v0: what others post, refer to, mark,
\* close or collect never opens it, since closed threads stay closed and a
\* reference is resolved with the rights of whoever reads.
THEOREM ReadingCorrect == Spec => ReadingGrowsByGrantsOnly
<1>1. ASSUME IInv, [Next]_vars, NEW p \in Principals, NEW a \in Labels,
             ~\E g \in acl' \ acl : g[2] = p /\ g[3] = a,
             NEW e \in ReadableBy(p, a)' \cap events
      PROVE  e \in ReadableBy(p, a)
  <2>1. Authorized(e.thread, p, a)'
    <3>1. PICK t \in Threads : e \in GetThread(t, p, a)'
      BY <1>1 DEF ReadableBy
    <3> QED BY <3>1 DEF GetThread, EventsOf, Render
  <2>2. <<e.thread, p, a>> \in acl
    BY <1>1, <2>1 DEF Authorized
  <2>3. e.thread \in minted
    BY <1>1 DEF IInv, TypeOK, NoOrphans
  <2>4. Open(e.thread)
    BY <1>1, <2>1, <2>3, ClosedStep DEF Authorized
  <2> QED BY <1>1, <2>2, <2>4, ReadableIsAuthorized DEF Authorized
<1>2. ASSUME IInv, [Next]_vars, NEW p \in Principals,
             NEW e \in ReadableByOwner(p)' \cap events
      PROVE  e \in ReadableByOwner(p) \/ owner[e.thread] = NoPrincipal
  <2>1. OwnedBy(e.thread, p)'
    <3>1. PICK t \in Threads : e \in GetOwnerThread(t, p)'
      BY <1>2 DEF ReadableByOwner
    <3> QED BY <3>1 DEF GetOwnerThread, EventsOf
  <2>2. e.thread \in threads
    BY <1>2 DEF IInv, NoOrphans
  <2> QED BY <1>2, <2>1, <2>2, OwnerStep, ReadableIsOwned
<1>3. IInv /\ [Next]_vars =>
        [/\ \A p \in Principals, a \in Labels :
              \/ \E g \in acl' \ acl : g[2] = p /\ g[3] = a
              \/ ReadableBy(p, a)' \cap events \subseteq ReadableBy(p, a)
         /\ \A p \in Principals : \A e \in ReadableByOwner(p)' \cap events :
              e \in ReadableByOwner(p) \/ owner[e.thread] = NoPrincipal]_vars
  BY <1>1, <1>2
<1> QED BY <1>3, Invariance, PTL DEF Spec, ReadingGrowsByGrantsOnly

\* The label 'owner' on an event is proof that the thread's owner wrote it.
THEOREM ProvenanceCorrect == Spec => HumanProvenance
<1>1. ASSUME IInv, [Next]_vars, NEW e \in events' \ events
      PROVE  /\ e.actor = OwnerLabel => OwnedBy(e.thread, e.principal)
             /\ e.actor = OwnerLabel <=>
                  \/ PostOwnerMessage(e.thread, e.principal)
                  \/ TombstoneThread(e.thread, e.principal)
  <2>1. ASSUME NEW t \in Threads, NEW p \in Principals,
               PostOwnerMessage(t, p) \/ TombstoneThread(t, p)
        PROVE  OwnedBy(t, p) /\ e.actor = OwnerLabel /\ e.thread = t /\ e.principal = p
    BY <2>1 DEF PostOwnerMessage, TombstoneThread, Append
  <2>2. ASSUME NEW t \in Threads, NEW p \in Principals, NEW a \in Labels,
               NEW r \in Ids \cup {NoRef}, NEW content \in BOOLEAN,
               PostMessage(t, p, a, r, content)
        PROVE  e.actor # OwnerLabel
    <3>1. e.actor = a
      BY <2>2 DEF PostMessage, Append
    <3>2. <<t, p, a>> \in acl
      BY <2>2 DEF PostMessage, Authorized
    <3> QED BY <1>1, <3>1, <3>2 DEF IInv, AclWithinOwner
  <2>3. e.thread \in Threads /\ e.principal \in Principals
    BY <1>1, NextInv DEF IInv, TypeOK, EventRows
  <2>4. \/ \E t \in Threads, p \in Principals : PostOwnerMessage(t, p) \/ TombstoneThread(t, p)
        \/ \E t \in Threads, p \in Principals, a \in Labels, r \in Ids \cup {NoRef},
              content \in BOOLEAN : PostMessage(t, p, a, r, content)
    BY <1>1 DEF Next, MigrateV0Threads, GarbageCollect, RegisterActor, SetActorPassword,
                DeactivateActor, Grant, Revoke, CreateThread, MarkThreadDeleted,
                MarkMessageDeleted, GrantOwnerActor, RevokeOwnerActor, vars, eventVars
  <2>5. ASSUME NEW t \in Threads, NEW p \in Principals,
               PostOwnerMessage(t, p) \/ TombstoneThread(t, p)
        PROVE  /\ OwnedBy(e.thread, e.principal)
               /\ \/ PostOwnerMessage(e.thread, e.principal)
                  \/ TombstoneThread(e.thread, e.principal)
    <3>1. OwnedBy(t, p) /\ e.thread = t /\ e.principal = p
      BY <2>1, <2>5
    <3> QED BY <2>5, <3>1
  <2>6. e.actor = OwnerLabel =>
          /\ OwnedBy(e.thread, e.principal)
          /\ \/ PostOwnerMessage(e.thread, e.principal)
             \/ TombstoneThread(e.thread, e.principal)
    BY <2>2, <2>4, <2>5
  <2>7. \/ PostOwnerMessage(e.thread, e.principal)
        \/ TombstoneThread(e.thread, e.principal)
        => e.actor = OwnerLabel
    BY <2>1, <2>3
  <2> QED BY <2>6, <2>7
<1>2. IInv /\ [Next]_vars =>
        [\A e \in events' \ events :
           /\ e.actor = OwnerLabel => OwnedBy(e.thread, e.principal)
           /\ e.actor = OwnerLabel <=>
                \/ PostOwnerMessage(e.thread, e.principal)
                \/ TombstoneThread(e.thread, e.principal)]_vars
  BY <1>1
<1> QED BY <1>2, Invariance, PTL DEF Spec, HumanProvenance
------------------------------------------------------------------------------
\* What a collection does, said once: it takes the doomed threads with their
\* rows and the marked payloads of the others.
LEMMA GCEffect ==
  ASSUME IInv, NEW p \in Principals, GarbageCollect(p)
  PROVE  /\ events' \subseteq events
         /\ \A e \in events : e \in events' <=> e.thread \notin Doomed(p)
         /\ threads' = threads \ Doomed(p)
         /\ marked' = marked \ Doomed(p)
         /\ \A t \in threads' : owner'[t] = owner[t]
         /\ \A e \in events' : /\ e.id \notin IdsOf(Doomed(p))
                               /\ e.id \in deletions' <=> e.id \in deletions
                               /\ e.id \in payloads' <=>
                                    e.id \in payloads \ ErasedPayloads(p)
<1> DEFINE D == Doomed(p)
<1>1. /\ events' = events \ EventsOf(D)
      /\ payloads' = payloads \ (IdsOf(D) \cup ErasedPayloads(p))
      /\ deletions' = deletions \ IdsOf(D)
      /\ threads' = threads \ D
      /\ owner' = [t \in Threads |-> IF t \in D THEN NoPrincipal ELSE owner[t]]
      /\ marked' = marked \ D
  BY DEF GarbageCollect, CascadedIds
<1> HIDE DEF D
<1>2. \A e \in events : e \in events' <=> e.thread \notin D
  BY <1>1 DEF EventsOf
<1>3. \A e \in events' : e.id \notin IdsOf(D)
  BY <1>1, <1>2 DEF IInv, IdsAreKeys, IdsOf, EventsOf
<1>4. \A t \in threads' : owner'[t] = owner[t]
  BY <1>1 DEF IInv, TypeOK
<1> QED BY <1>1, <1>2, <1>3, <1>4 DEF D

\* Afterwards the owner has no marked thread left and no payload to erase.
LEMMA GCLeavesNothing ==
  ASSUME IInv, NEW p \in Principals, GarbageCollect(p)
  PROVE  Doomed(p)' = {} /\ ErasedPayloads(p)' = {}
<1>1. Doomed(p)' = {}
  BY GCEffect DEF Doomed
<1>2. ASSUME NEW i \in payloads' \cap deletions', NEW e \in events', e.id = i,
             OwnedBy(e.thread, p)', e.thread \notin marked' \cup PurgedBefore
      PROVE  FALSE
  <2>1. /\ e \in events /\ e.thread \in threads /\ owner[e.thread] = p
        /\ e.thread \notin Doomed(p)
        /\ e.id \in payloads \cap deletions /\ e.id \notin ErasedPayloads(p)
    BY <1>2, GCEffect DEF OwnedBy
  <2>2. e.thread \notin marked \cup PurgedBefore
    BY <2>1 DEF Doomed
  <2> QED BY <2>1, <2>2 DEF ErasedPayloads, OwnedBy
<1>3. ErasedPayloads(p)' = {}
  BY <1>2 DEF ErasedPayloads
<1> QED BY <1>1, <1>3

\* It removes the threads and, from surviving threads, the payloads that it
\* had announced.
LEMMA GCRemovesAnnounced ==
  ASSUME IInv, NEW p \in Principals, GarbageCollect(p)
  PROVE  /\ threads \ threads' = Doomed(p)
         /\ (payloads \ payloads') \cap {e.id : e \in events'} = ErasedPayloads(p)
<1>1. threads \ threads' = Doomed(p)
  BY GCEffect DEF Doomed
<1>2. ASSUME NEW e \in events', e.id \in payloads \ payloads'
      PROVE  e.id \in ErasedPayloads(p)
  BY <1>2, GCEffect
<1>3. ASSUME NEW i \in ErasedPayloads(p)
      PROVE  i \in payloads \ payloads' /\ \E e \in events' : e.id = i
  <2>1. PICK e \in events : /\ e.id = i /\ i \in payloads
                            /\ e.thread \notin marked \cup PurgedBefore
    BY DEF ErasedPayloads
  <2>2. e \in events'
    BY <2>1, GCEffect DEF Doomed
  <2> QED BY <2>1, <2>2, GCEffect
<1> QED BY <1>1, <1>2, <1>3

\* Events of threads of other owners, or of none, stay as they are.
LEMMA GCSparesOthers ==
  ASSUME IInv, NEW p \in Principals, GarbageCollect(p),
         NEW e \in events, ~OwnedBy(e.thread, p)
  PROVE  /\ e \in events'
         /\ e.id \in payloads <=> e.id \in payloads'
         /\ ScanEvent(e)' = ScanEvent(e)
<1>1. e.thread \in threads /\ owner[e.thread] # p
  BY DEF OwnedBy, IInv, NoOrphans
<1>2. e \in events' /\ e.thread \in threads'
  BY <1>1, GCEffect DEF Doomed
<1>3. e.id \notin ErasedPayloads(p)
  BY <1>1 DEF ErasedPayloads, OwnedBy, IInv, IdsAreKeys
<1>4. /\ e.id \in payloads <=> e.id \in payloads'
      /\ e.id \in deletions <=> e.id \in deletions'
      /\ e.thread \in marked <=> e.thread \in marked'
  BY <1>2, <1>3, GCEffect
<1> QED BY <1>2, <1>4 DEF ScanEvent, IsMarked

\* The two counting queries and the conditions of the collection's own
\* statements select the same rows.
LEMMA CountsAgree ==
  ASSUME NEW p \in Principals
  PROVE  GetGCCounts(p) = [messages |-> Cardinality(ErasedPayloads(p)),
                           threads  |-> Cardinality(Doomed(p))]
<1>1. \A i : i \in ErasedPayloads(p) <=>
        \E e \in events : /\ i = e.id /\ e.id \in payloads /\ e.id \in deletions
                          /\ e.thread \in threads /\ owner[e.thread] = p
                          /\ e.thread \notin PurgedBefore /\ e.thread \notin marked
  BY DEF ErasedPayloads, OwnedBy
<1>2. ErasedPayloads(p) =
        {e.id : e \in {f \in events : /\ f.id \in payloads /\ f.id \in deletions
                                      /\ f.thread \in threads /\ owner[f.thread] = p
                                      /\ f.thread \notin PurgedBefore
                                      /\ f.thread \notin marked}}
  BY <1>1
<1>3. Doomed(p) = {t \in marked : OwnedBy(t, p)} \cup {t \in PurgedBefore : OwnedBy(t, p)}
  BY DEF Doomed, OwnedBy
<1> QED BY <1>2, <1>3 DEF GetGCCounts

\* A collection removes what it announced, leaves nothing to collect, and
\* touches nothing of another owner: GetGCCounts and GarbageCollect agree on
\* every table whatever is marked.
THEOREM CollectionCorrect == Spec => GCIsExact
<1>1. ASSUME IInv, NEW p \in Principals, GarbageCollect(p)
      PROVE  /\ GetGCCounts(p)' = [messages |-> 0, threads |-> 0]
             /\ GetGCCounts(p) =
                  [messages |-> Cardinality((payloads \ payloads') \cap {e.id : e \in events'}),
                   threads  |-> Cardinality(threads \ threads')]
             /\ \A e \in events :
                  ~OwnedBy(e.thread, p) =>
                    /\ e \in events'
                    /\ e.id \in payloads <=> e.id \in payloads'
                    /\ ScanEvent(e)' = ScanEvent(e)
  <2>1. GetGCCounts(p)' = [messages |-> 0, threads |-> 0]
    <3>1. (GetGCCounts(p) = [messages |-> Cardinality(ErasedPayloads(p)),
                             threads  |-> Cardinality(Doomed(p))])'
      BY CountsAgree, PTL
    <3>2. Cardinality(ErasedPayloads(p)') = 0 /\ Cardinality(Doomed(p)') = 0
      BY <1>1, GCLeavesNothing, FS_EmptySet
    <3> QED BY <3>1, <3>2
  <2>2. GetGCCounts(p) =
          [messages |-> Cardinality((payloads \ payloads') \cap {e.id : e \in events'}),
           threads  |-> Cardinality(threads \ threads')]
    BY <1>1, GCRemovesAnnounced, CountsAgree
  <2> QED BY <1>1, <2>1, <2>2, GCSparesOthers
<1>2. IInv /\ [Next]_vars =>
        [\A p \in Principals :
           GarbageCollect(p) =>
             /\ GetGCCounts(p)' = [messages |-> 0, threads |-> 0]
             /\ GetGCCounts(p) =
                  [messages |-> Cardinality((payloads \ payloads') \cap {e.id : e \in events'}),
                   threads  |-> Cardinality(threads \ threads')]
             /\ \A e \in events :
                  ~OwnedBy(e.thread, p) =>
                    /\ e \in events'
                    /\ e.id \in payloads <=> e.id \in payloads'
                    /\ ScanEvent(e)' = ScanEvent(e)]_vars
  BY <1>1
<1> QED BY <1>2, Invariance, PTL DEF Spec, GCIsExact
------------------------------------------------------------------------------
\* Refinement of EventLifecycle.

HiddenIds == {e.id : e \in {f \in events : Hidden(f)}}
LiveIds   == {<<e.id, e.thread>> : e \in events}

\* An event is hidden once it or its thread is marked, payload or not.
LEMMA HiddenIsMarked ==
  \A e : Hidden(e) <=> e.thread \in PurgedBefore \/ IsMarked(e)
  BY DEF Hidden, ScanEvent

\* The mapped ids of a set of threads are the ids of its events.
LEMMA MappedIds ==
  ASSUME NEW T
  PROVE  Lifecycle!IdsIn(T) = IdsOf(T)
<1>1. Lifecycle!IdsIn(T) = {x[1] : x \in {y \in LiveIds : y[2] \in T}}
  BY DEF Lifecycle!IdsIn, LiveIds
<1>2. \A x : x \in {y \in LiveIds : y[2] \in T} <=>
              \E e \in EventsOf(T) : x = <<e.id, e.thread>>
  BY DEF LiveIds, EventsOf
<1>3. \A i : i \in Lifecycle!IdsIn(T) <=> \E e \in EventsOf(T) : i = <<e.id, e.thread>>[1]
  <2> HIDE DEF LiveIds
  <2> QED BY <1>1, <1>2
<1> QED BY <1>3 DEF IdsOf

LEMMA LifecycleInit == Init => Lifecycle!Init
  BY DEF Init, Lifecycle!Init, Retired

\* A post or a tombstone.
LEMMA LifecycleAppend ==
  ASSUME IInv, NEW t \in Threads, NEW p, NEW a, NEW r, NEW kind,
         NEW content \in BOOLEAN, NEW closing \in BOOLEAN,
         Open(t), Append(t, p, a, r, kind, content),
         UNCHANGED <<minted, threads, marked>>,
         tombstoned' = IF closing THEN tombstoned \cup {t} ELSE tombstoned
  PROVE  Lifecycle!Append(t, content, closing)
<1>1. PICK e : /\ events' = events \cup {e} /\ e.id = seq + 1 /\ e.thread = t
               /\ deletions' = deletions /\ seq' = seq + 1 /\ seq < MaxEventId
               /\ payloads' = IF content THEN payloads \cup {seq + 1} ELSE payloads
  <2> DEFINE n == NewEvent(t, p, a, r, kind)
  <2>1. events' = events \cup {n} /\ n.id = seq + 1 /\ n.thread = t
    BY DEF Append, NewEvent, NextId
  <2>2. /\ deletions' = deletions /\ seq' = seq + 1 /\ seq < MaxEventId
        /\ payloads' = IF content THEN payloads \cup {seq + 1} ELSE payloads
    BY DEF Append, NextId
  <2> HIDE DEF n
  <2> QED BY <2>1, <2>2
<1>2. LiveIds' = LiveIds \cup {<<seq + 1, t>>}
  BY <1>1 DEF LiveIds
<1>3. ~Hidden(e)'
  <2>1. e.id \notin deletions
    BY <1>1 DEF IInv, NoOrphans, IdsAreKeys, TypeOK
  <2> QED BY <1>1, <2>1 DEF Hidden, ScanEvent, IsMarked, Open
<1>4. \A f \in events : Hidden(f)' <=> Hidden(f)
  BY <1>1 DEF Hidden, ScanEvent, IsMarked
<1>5. HiddenIds' = HiddenIds
  <2>1. \A f : f \in events' /\ Hidden(f)' <=> f \in events /\ Hidden(f)
    <3>1. e \notin events
      BY <1>1 DEF IInv, IdsAreKeys, TypeOK
    <3> QED BY <1>1, <1>3, <1>4, <3>1
  <2> QED BY <2>1 DEF HiddenIds
<1>6. t \notin Retired /\ Retired' = IF closing THEN Retired \cup {t} ELSE Retired
  BY DEF Open, Retired
<1> QED BY <1>1, <1>2, <1>5, <1>6 DEF Lifecycle!Append, LiveIds, HiddenIds

\* The two marks hide one event, or a whole thread.
LEMMA LifecycleMark ==
  ASSUME IInv, NEW t \in Threads, NEW p \in Principals
  PROVE  /\ \A i \in Ids : MarkMessageDeleted(t, p, i) => Lifecycle!Hide(i)
         /\ MarkThreadDeleted(t, p) => Lifecycle!HideThread(t)
<1>1. ASSUME NEW i \in Ids, MarkMessageDeleted(t, p, i)
      PROVE  Lifecycle!Hide(i)
  <2>1. /\ UNCHANGED <<minted, threads, tombstoned, marked, events, payloads, seq>>
        /\ deletions' = deletions \cup {i} /\ i \in IdsOf({t})
    BY <1>1 DEF MarkMessageDeleted, threadVars
  <2>2. i \in Lifecycle!IdsIn({t})
    BY <2>1, MappedIds
  <2>3. \A f \in events : Hidden(f)' <=> Hidden(f) \/ f.id = i
    BY <2>1 DEF Hidden, ScanEvent, IsMarked
  <2>4. \E f \in events : f.id = i
    BY <2>1 DEF IdsOf, EventsOf
  <2>5. HiddenIds' = HiddenIds \cup {i}
    BY <2>1, <2>3, <2>4 DEF HiddenIds
  <2> QED BY <2>1, <2>2, <2>5 DEF Lifecycle!Hide, HiddenIds, Retired
<1>2. ASSUME MarkThreadDeleted(t, p)
      PROVE  Lifecycle!HideThread(t)
  <2>1. /\ UNCHANGED <<minted, threads, tombstoned, events, payloads, deletions, seq>>
        /\ marked' = marked \cup {t}
    BY <1>2 DEF MarkThreadDeleted, eventVars
  <2>2. \A f \in events : Hidden(f)' <=> Hidden(f) \/ f.thread = t
    BY <2>1 DEF Hidden, ScanEvent, IsMarked
  <2>3. HiddenIds' = HiddenIds \cup IdsOf({t})
    BY <2>1, <2>2 DEF HiddenIds, IdsOf, EventsOf
  <2>4. Retired' = Retired \cup {t}
    BY <2>1 DEF Retired
  <2> QED BY <2>1, <2>3, <2>4, MappedIds DEF Lifecycle!HideThread, HiddenIds
<1> QED BY <1>1, <1>2

\* The collected threads are closed and hidden, the erased payloads hidden.
LEMMA LifecycleCollect ==
  ASSUME IInv, NEW p \in Principals, GarbageCollect(p)
  PROVE  Lifecycle!Collect(ErasedPayloads(p), Doomed(p))
<1>1. /\ events' = events \ EventsOf(Doomed(p))
      /\ payloads' = payloads \ (IdsOf(Doomed(p)) \cup ErasedPayloads(p))
      /\ deletions' = deletions \ IdsOf(Doomed(p))
      /\ threads' = threads \ Doomed(p)
      /\ tombstoned' = tombstoned \ Doomed(p) /\ marked' = marked \ Doomed(p)
      /\ UNCHANGED <<minted, seq>>
  BY DEF GarbageCollect, CascadedIds
<1>2. Doomed(p) \subseteq threads /\ Doomed(p) \subseteq marked \cup PurgedBefore
      /\ Doomed(p) \subseteq minted
  BY DEF Doomed, IInv, TypeOK
<1>3. ErasedPayloads(p) \subseteq HiddenIds
  BY HiddenIsMarked DEF ErasedPayloads, HiddenIds, IsMarked
<1>4. IdsOf(Doomed(p)) \subseteq HiddenIds
  BY <1>2, HiddenIsMarked DEF IdsOf, EventsOf, HiddenIds, IsMarked
<1>5. Doomed(p) \subseteq Retired /\ Retired' = Retired
  BY <1>1, <1>2 DEF Retired
<1>6. \A f \in events : f \in events' <=> f.thread \notin Doomed(p)
  BY <1>1 DEF EventsOf
<1>7. LiveIds' = {x \in LiveIds : x[2] \notin Doomed(p)}
  BY <1>1, <1>6 DEF LiveIds
<1>8. HiddenIds' = HiddenIds \ IdsOf(Doomed(p))
  <2>1. \A f \in events' : Hidden(f)' <=> Hidden(f)
    <3>1. \A f \in events' : f.id \notin IdsOf(Doomed(p))
      BY <1>1, <1>6 DEF IInv, IdsAreKeys, IdsOf, EventsOf
    <3>2. \A f \in events' : IsMarked(f)' <=> IsMarked(f)
      BY <1>1, <1>6, <3>1 DEF IsMarked
    <3>3. \A f : Hidden(f)' <=> f.thread \in PurgedBefore \/ IsMarked(f)'
      BY DEF Hidden, ScanEvent, IsMarked
    <3> QED BY <3>2, <3>3, HiddenIsMarked
  <2>2. \A f \in events : f.thread \notin Doomed(p) <=> f.id \notin IdsOf(Doomed(p))
    BY DEF IInv, IdsAreKeys, IdsOf, EventsOf
  <2> QED BY <1>1, <1>6, <2>1, <2>2 DEF HiddenIds
<1> QED BY <1>1, <1>3, <1>4, <1>5, <1>7, <1>8, MappedIds
        DEF Lifecycle!Collect, LiveIds, HiddenIds

\* Every step of the store is a step of the lifecycle or invisible to it.
LEMMA LifecycleNext ==
  ASSUME IInv, [Next]_vars
  PROVE  [Lifecycle!Next]_(Lifecycle!vars)
<1>1. ASSUME UNCHANGED <<tombstoned, marked, eventVars>>,
             minted' \ threads' = minted \ threads
      PROVE  UNCHANGED Lifecycle!vars
  <2>1. HiddenIds' = HiddenIds /\ LiveIds' = LiveIds /\ Retired' = Retired
    BY <1>1 DEF HiddenIds, LiveIds, Hidden, ScanEvent, IsMarked, Retired, eventVars
  <2> QED BY <1>1, <2>1 DEF Lifecycle!vars, HiddenIds, LiveIds, eventVars
<1>2. ASSUME \/ \E p \in Principals : \/ MigrateV0Threads(p)
                                      \/ \E a \in Labels : RegisterActor(p, a)
             \/ \E a \in Labels : SetActorPassword(a) \/ DeactivateActor(a)
             \/ \E t \in Threads, a \in Labels : Grant(t, a) \/ Revoke(t, a)
             \/ \E t \in Threads, p \in Principals :
                  \/ CreateThread(t, p)
                  \/ \E a \in Labels : GrantOwnerActor(t, p, a) \/ RevokeOwnerActor(t, p, a)
             \/ UNCHANGED vars
      PROVE  UNCHANGED Lifecycle!vars
  <2>1. UNCHANGED <<tombstoned, marked, eventVars>>
    BY <1>2 DEF MigrateV0Threads, RegisterActor, SetActorPassword, DeactivateActor,
                Grant, Revoke, CreateThread, GrantOwnerActor, RevokeOwnerActor,
                vars, threadVars
  <2>2. minted' \ threads' = minted \ threads
    BY <1>2 DEF MigrateV0Threads, RegisterActor, SetActorPassword, DeactivateActor,
                Grant, Revoke, CreateThread, GrantOwnerActor, RevokeOwnerActor,
                vars, threadVars
  <2> QED BY <1>1, <2>1, <2>2
<1>3. ASSUME NEW t \in Threads, NEW p \in Principals, PostOwnerMessage(t, p)
      PROVE  Lifecycle!Append(t, TRUE, FALSE)
  BY <1>3, LifecycleAppend DEF PostOwnerMessage, threadVars
<1>4. ASSUME NEW t \in Threads, NEW p \in Principals, TombstoneThread(t, p)
      PROVE  Lifecycle!Append(t, FALSE, TRUE)
  BY <1>4, LifecycleAppend DEF TombstoneThread
<1>5. ASSUME NEW t \in Threads, NEW p \in Principals, NEW a \in Labels,
             NEW r \in Ids \cup {NoRef}, NEW content \in BOOLEAN,
             PostMessage(t, p, a, r, content)
      PROVE  Lifecycle!Append(t, content, FALSE)
  BY <1>5, LifecycleAppend DEF PostMessage, Authorized, threadVars
<1>6. ASSUME NEW p \in Principals, GarbageCollect(p)
      PROVE  Lifecycle!Next
  <2>1. ErasedPayloads(p) \in SUBSET (1..MaxEventId) /\ Doomed(p) \in SUBSET Threads
    BY DEF ErasedPayloads, Doomed, IInv, TypeOK, Ids
  <2>2. Lifecycle!Collect(ErasedPayloads(p), Doomed(p))
    BY <1>6, LifecycleCollect
  <2>3. \E S \in SUBSET (1..MaxEventId), T \in SUBSET Threads : Lifecycle!Collect(S, T)
    BY <2>1, <2>2 DEF Lifecycle!Collect
  <2> QED BY <2>3 DEF Lifecycle!Next
<1>7. ASSUME NEW t \in Threads, NEW p \in Principals,
             MarkThreadDeleted(t, p) \/ \E i \in Ids : MarkMessageDeleted(t, p, i)
      PROVE  Lifecycle!Next
  BY <1>7, LifecycleMark DEF Lifecycle!Next, Ids
<1>8. ASSUME NEW t \in Threads, NEW content \in BOOLEAN, NEW closing \in BOOLEAN,
             Lifecycle!Append(t, content, closing)
      PROVE  Lifecycle!Next
  BY <1>8 DEF Lifecycle!Next
<1> QED BY <1>2, <1>3, <1>4, <1>5, <1>6, <1>7, <1>8 DEF Next

\* The store implements the abstract life of its events.
THEOREM Refinement == Spec => ImplementsLifecycle
<1> QED BY LifecycleInit, LifecycleNext, Invariance, PTL
        DEF Spec, ImplementsLifecycle, Lifecycle!Spec
==============================================================================

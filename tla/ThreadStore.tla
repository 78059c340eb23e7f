----------------------------- MODULE ThreadStore -----------------------------
(***************************************************************************)
(* The conversation tables of the SQLite store: threads, thread_acl,       *)
(* events, event_payloads and event_deletions, with the actors table their *)
(* grants depend on.  Every operation runs in one BEGIN IMMEDIATE          *)
(* transaction (store.go, tx), so it is one action here, whichever process *)
(* (the server or a CLI command) and whichever caller runs it.  A call     *)
(* that returns an error rolls back and changes nothing: it is no action.  *)
(***************************************************************************)
EXTENDS Naturals, FiniteSets, Actors

CONSTANTS
  Threads,        \* thread ids: random, 144 bits, never drawn twice
  LegacyThreads,  \* V0 threads, owner_principal_id IS NULL at the start
  PurgedBefore,   \* V0 threads whose purged_at is set: the column is read
                  \* everywhere and written by no statement
  MaxEventId      \* bound on sqlite_sequence, for checking

ASSUME LegacyAssumption ==
  PurgedBefore \subseteq LegacyThreads /\ LegacyThreads \subseteq Threads
ASSUME MaxEventIdAssumption == MaxEventId \in Nat

VARIABLES
  minted,      \* thread ids drawn so far
  threads,     \* threads with a row
  owner,       \* owner_principal_id, NoPrincipal for NULL and for no row
  tombstoned,  \* threads with tombstoned_at
  marked,      \* threads with marked_deleted_at
  acl,         \* <<thread, principal, label>> rows of thread_acl
  events,      \* rows of events
  payloads,    \* event ids with a row in event_payloads
  deletions,   \* event ids with a row in event_deletions
  seq          \* sqlite_sequence of events

threadVars == <<minted, threads, owner, tombstoned, marked>>
eventVars  == <<events, payloads, deletions, seq>>
vars == <<actorVars, threadVars, acl, eventVars>>

Ids   == 1..MaxEventId
NoRef == 0
Kinds == {"entry", "thread_tombstoned"}

\* relation is NULL exactly when ref_id is (a CHECK of the table).
EventRows ==
  [id : Ids, thread : Threads, principal : Principals, actor : Labels,
   ref : Ids \cup {NoRef}, kind : Kinds]

TypeOK ==
  /\ ActorsTypeOK
  /\ minted \subseteq Threads
  /\ threads \subseteq minted
  /\ owner \in [Threads -> Principals \cup {NoPrincipal}]
  /\ tombstoned \subseteq threads
  /\ marked \subseteq threads
  /\ acl \subseteq Threads \X Principals \X Labels
  /\ events \subseteq EventRows
  /\ payloads \subseteq Ids
  /\ deletions \subseteq Ids
  /\ seq \in 0..MaxEventId

Init ==
  /\ ActorsInit
  /\ minted = LegacyThreads
  /\ threads = LegacyThreads
  /\ owner = [t \in Threads |-> NoPrincipal]
  /\ tombstoned = {} /\ marked = {}
  /\ acl = {}
  /\ events = {} /\ payloads = {} /\ deletions = {}
  /\ seq = 0
------------------------------------------------------------------------------
\* Conditions the handlers share.

Open(t) ==
  t \in threads /\ t \notin tombstoned /\ t \notin marked /\ t \notin PurgedBefore

Authorized(t, p, a) == <<t, p, a>> \in acl /\ Open(t)

OwnedBy(t, p) == t \in threads /\ owner[t] = p

EventsOf(T) == {e \in events : e.thread \in T}
IdsOf(T)    == {e.id : e \in EventsOf(T)}

\* Bug: no AUTOINCREMENT, one above the highest id in the table.
NextRowid ==
  1 + (CHOOSE n \in 0..seq : /\ n = 0 \/ \E e \in events : e.id = n
                             /\ \A e \in events : e.id <= n)

\* AUTOINCREMENT: one above every id ever used, deleted rows included.
NextId == seq + 1

\* INSERT INTO events, then event_payloads when there is content.
Append(t, p, a, r, kind, content) ==
  /\ seq < MaxEventId
  /\ events' = events \cup {[id |-> NextId, thread |-> t, principal |-> p,
                             actor |-> a, ref |-> r, kind |-> kind]}
  /\ payloads' = IF content THEN payloads \cup {NextId} ELSE payloads
  /\ seq' = NextId
  /\ UNCHANGED deletions
------------------------------------------------------------------------------
\* Actors (CLI).

RegisterActor(p, a) ==
  InsertActor(p, a) /\ UNCHANGED <<threadVars, acl, eventVars>>

SetActorPassword(a) ==
  Activate(a) /\ UNCHANGED <<threadVars, acl, eventVars>>

DeactivateActor(a) ==
  Deactivate(a) /\ UNCHANGED <<threadVars, acl, eventVars>>
------------------------------------------------------------------------------
\* Threads and grants.

CreateThread(t, p) ==
  /\ t \notin minted
  /\ minted' = minted \cup {t}
  /\ threads' = threads \cup {t}
  /\ owner' = [owner EXCEPT ![t] = p]
  /\ UNCHANGED <<actorVars, tombstoned, marked, acl, eventVars>>

\* Bug: the actor's principal is not compared with the owner.
GrantAcrossOwners(t, a) ==
  /\ Open(t)
  /\ a \in active
  /\ acl' = acl \cup {<<t, principalOf[a], a>>}
  /\ UNCHANGED <<actorVars, threadVars, eventVars>>

\* Bug: purged_at is not tested.
GrantPurged(t, a) ==
  /\ t \in threads \ (tombstoned \cup marked)
  /\ a \in active
  /\ owner[t] # NoPrincipal => owner[t] = principalOf[a]
  /\ acl' = acl \cup {<<t, principalOf[a], a>>}
  /\ UNCHANGED <<actorVars, threadVars, eventVars>>

\* The CLI's grant: the owner is compared only when the thread has one.
Grant(t, a) ==
  /\ Open(t)
  /\ a \in active
  /\ owner[t] # NoPrincipal => owner[t] = principalOf[a]
  /\ <<t, principalOf[a], a>> \notin acl
  /\ acl' = acl \cup {<<t, principalOf[a], a>>}
  /\ UNCHANGED <<actorVars, threadVars, eventVars>>

\* DELETE ... WHERE thread_id AND actor_label must hit exactly one row.
RemoveGrant(t, a) ==
  LET hits == {g \in acl : g[1] = t /\ g[3] = a} IN
  /\ \E g \in hits : hits = {g}
  /\ acl' = acl \ hits

Revoke(t, a) ==
  /\ Open(t)
  /\ RemoveGrant(t, a)
  /\ UNCHANGED <<actorVars, threadVars, eventVars>>

OwnerMayGrant(t, p, a) ==
  /\ OwnedBy(t, p) /\ Open(t)
  /\ a \in active /\ principalOf[a] = p
  /\ <<t, p, a>> \notin acl

GrantOwnerActor(t, p, a) ==
  /\ OwnerMayGrant(t, p, a)
  /\ acl' = acl \cup {<<t, p, a>>}
  /\ UNCHANGED <<actorVars, threadVars, eventVars>>

RevokeOwnerActor(t, p, a) ==
  /\ OwnedBy(t, p) /\ Open(t)
  /\ RemoveGrant(t, a)
  /\ UNCHANGED <<actorVars, threadVars, eventVars>>

\* The CLI's migrate-v0: every unowned thread goes to p; ACLs stay.
MigrateV0Threads(p) ==
  /\ owner' = [t \in Threads |->
                 IF t \in threads /\ owner[t] = NoPrincipal THEN p ELSE owner[t]]
  /\ UNCHANGED <<actorVars, minted, threads, tombstoned, marked, acl, eventVars>>
------------------------------------------------------------------------------
\* Messages.

\* Bug: the source only has to exist.
SourceExists(r, p, a) == \E e \in events : e.id = r

\* The source of a reference must exist and be readable by the poster.
SourceReadable(r, p, a) == \E e \in events : e.id = r /\ Authorized(e.thread, p, a)

\* A normal message has content; on a reference the note is optional.
PostMessage(t, p, a, r, content) ==
  /\ Authorized(t, p, a)
  /\ IF r = NoRef THEN content ELSE SourceReadable(r, p, a)
  /\ Append(t, p, a, r, "entry", content)
  /\ UNCHANGED <<actorVars, threadVars, acl>>

PostOwnerMessage(t, p) ==
  /\ OwnedBy(t, p) /\ Open(t)
  /\ Append(t, p, OwnerLabel, NoRef, "entry", TRUE)
  /\ UNCHANGED <<actorVars, threadVars, acl>>

\* Bug: a second call appends a second tombstone.
TombstoneThreadAgain(t, p) ==
  /\ OwnedBy(t, p) /\ t \notin marked \cup PurgedBefore
  /\ Append(t, p, OwnerLabel, NoRef, "thread_tombstoned", FALSE)
  /\ tombstoned' = tombstoned \cup {t}
  /\ UNCHANGED <<actorVars, minted, threads, owner, marked, acl>>

\* A second call is a clean no-op.
TombstoneThread(t, p) ==
  /\ OwnedBy(t, p) /\ Open(t)
  /\ Append(t, p, OwnerLabel, NoRef, "thread_tombstoned", FALSE)
  /\ tombstoned' = tombstoned \cup {t}
  /\ UNCHANGED <<actorVars, minted, threads, owner, marked, acl>>

\* Any event of the thread, in whatever state short of purged the thread is.
MarkMessageDeleted(t, p, i) ==
  /\ OwnedBy(t, p) /\ t \notin PurgedBefore
  /\ i \in IdsOf({t})
  /\ deletions' = deletions \cup {i}
  /\ UNCHANGED <<actorVars, threadVars, acl, events, payloads, seq>>

MarkThreadDeleted(t, p) ==
  /\ OwnedBy(t, p) /\ t \notin PurgedBefore
  /\ marked' = marked \cup {t}
  /\ UNCHANGED <<actorVars, minted, threads, owner, tombstoned, acl, eventVars>>
------------------------------------------------------------------------------
\* Garbage collection: the transaction of GarbageCollect.

Doomed(p) == {t \in threads : owner[t] = p /\ t \in marked \cup PurgedBefore}

\* Bug: the join with event_deletions is missing.
ErasedUnmarked(p) ==
  {i \in payloads :
     \E e \in events : /\ e.id = i
                       /\ OwnedBy(e.thread, p)
                       /\ e.thread \notin marked \cup PurgedBefore}

\* Bug: the owner is not compared.
ErasedOfAnyOwner(p) ==
  {i \in payloads \cap deletions :
     \E e \in events : e.id = i /\ e.thread \notin marked \cup PurgedBefore}

\* Payloads of messages marked one by one, in the owner's other threads.
ErasedPayloads(p) ==
  {i \in payloads \cap deletions :
     \E e \in events : /\ e.id = i
                       /\ OwnedBy(e.thread, p)
                       /\ e.thread \notin marked \cup PurgedBefore}

\* Bug: foreign_keys is off, nothing cascades.
NoCascade(T) == {}

\* ON DELETE CASCADE of event_payloads and event_deletions.
CascadedIds(T) == IdsOf(T)

\* Grants cascade with their thread.
GarbageCollect(p) ==
  LET doomed == Doomed(p)
      gone   == CascadedIds(doomed) IN
  /\ UNCHANGED <<actorVars, minted, seq>>
  /\ threads' = threads \ doomed
  /\ owner' = [t \in Threads |-> IF t \in doomed THEN NoPrincipal ELSE owner[t]]
  /\ tombstoned' = tombstoned \ doomed
  /\ marked' = marked \ doomed
  /\ acl' = {g \in acl : g[1] \notin doomed}
  /\ events' = events \ EventsOf(doomed)
  /\ deletions' = deletions \ gone
  /\ payloads' = payloads \ (gone \cup ErasedPayloads(p))

\* Two queries of their own, in another order of the same columns: DISTINCT
\* event ids of a four-way join, and the owner's threads with either mark.
GetGCCounts(p) ==
  LET joined == {e \in events : /\ e.id \in payloads /\ e.id \in deletions
                                /\ e.thread \in threads /\ owner[e.thread] = p
                                /\ e.thread \notin PurgedBefore
                                /\ e.thread \notin marked} IN
  [messages |-> Cardinality({e.id : e \in joined}),
   threads  |-> Cardinality({t \in marked : OwnedBy(t, p)}
                            \cup {t \in PurgedBefore : OwnedBy(t, p)})]
------------------------------------------------------------------------------
Next ==
  \/ \E p \in Principals, a \in Labels : RegisterActor(p, a)
  \/ \E a \in Labels : SetActorPassword(a) \/ DeactivateActor(a)
  \/ \E t \in Threads, p \in Principals :
       \/ CreateThread(t, p)
       \/ PostOwnerMessage(t, p)
       \/ TombstoneThread(t, p)
       \/ MarkThreadDeleted(t, p)
       \/ \E i \in Ids : MarkMessageDeleted(t, p, i)
  \/ \E t \in Threads, a \in Labels : Grant(t, a) \/ Revoke(t, a)
  \/ \E t \in Threads, p \in Principals, a \in Labels :
       \/ GrantOwnerActor(t, p, a)
       \/ RevokeOwnerActor(t, p, a)
       \/ \E r \in Ids \cup {NoRef}, content \in BOOLEAN : PostMessage(t, p, a, r, content)
  \/ \E p \in Principals : MigrateV0Threads(p) \/ GarbageCollect(p)

Spec == Init /\ [][Next]_vars
------------------------------------------------------------------------------
\* What readers get.

\* Bug: only the thread's mark counts.
IsMarkedByThread(e) == e.thread \in marked

IsMarked(e) == e.id \in deletions \/ e.thread \in marked

\* "content" shows the payload, "none" an event without one; the other two
\* are the literals [Marked for deletion] and [Purged].
ScanEvent(e) ==
  IF e.thread \in PurgedBefore \/ (IsMarked(e) /\ e.id \notin payloads) THEN "purged"
  ELSE IF IsMarked(e) THEN "marked"
  ELSE IF e.id \in payloads THEN "content" ELSE "none"

Hidden(e) == ScanEvent(e) \in {"marked", "purged"}

\* The event a reference resolves to for an actor: at most one.
Render(e, p, a) == {f \in events : f.id = e.ref /\ Authorized(f.thread, p, a)}

\* Every event an actor is shown by reading thread t, sources included.
GetThread(t, p, a) ==
  IF Authorized(t, p, a)
  THEN EventsOf({t}) \cup UNION {Render(e, p, a) : e \in EventsOf({t})}
  ELSE {}

\* The same for the owner's web page.
GetOwnerThread(t, p) ==
  IF OwnedBy(t, p)
  THEN EventsOf({t}) \cup {f \in events : OwnedBy(f.thread, p)
                                          /\ \E e \in EventsOf({t}) : e.ref = f.id}
  ELSE {}

\* All that a caller can read, in whatever thread it is shown.
ReadableBy(p, a)   == UNION {GetThread(t, p, a) : t \in Threads}
ReadableByOwner(p) == UNION {GetOwnerThread(t, p) : t \in Threads}
------------------------------------------------------------------------------
\* Safety.

\* The rows of thread_acl, events, event_payloads and event_deletions all
\* belong to rows that exist: a collection leaves nothing of a thread behind.
NoOrphans ==
  /\ \A g \in acl : g[1] \in threads
  /\ \A e \in events : e.thread \in threads
  /\ \A i \in payloads \cup deletions : \E e \in events : e.id = i
  /\ \A t \in Threads \ threads : owner[t] = NoPrincipal

\* An event id names at most one event, and none is above sqlite_sequence.
IdsAreKeys ==
  /\ \A e \in events : e.id <= seq
  /\ \A e, f \in events : e.id = f.id => e = f

\* A tombstoned thread holds exactly one thread_tombstoned event and it is
\* the thread's newest; no other thread holds one.
TombstoneIsLast ==
  /\ \A t \in tombstoned : \E e \in EventsOf({t}) :
       /\ e.kind = "thread_tombstoned"
       /\ \A f \in EventsOf({t}) : f.id <= e.id
       /\ \A f \in EventsOf({t}) : f.kind = "thread_tombstoned" => f = e
  /\ \A e \in events : e.kind = "thread_tombstoned" => e.thread \in tombstoned

\* Every grant is for the principal its label is registered under, which is
\* the thread's owner (V0 threads aside: they are granted while unowned and
\* migrate-v0 keeps the ACL).  So a label has one row per thread, which is
\* what Revoke's "exactly one row" test needs, and 'owner' has none.
AclWithinOwner ==
  \A g \in acl :
    /\ g[2] \in Principals /\ principalOf[g[3]] = g[2]
    /\ g[1] \notin LegacyThreads => owner[g[1]] = g[2]
    /\ g[3] # OwnerLabel

\* A reference whose source still exists points back, to an event of a
\* thread with the same owner (V0 threads aside).
RefsStayWithinOwner ==
  \A e, f \in events :
    e.ref = f.id =>
      /\ f.id < e.id
      /\ {e.thread, f.thread} \cap LegacyThreads = {} =>
           owner[e.thread] = owner[f.thread]

\* The payloads the next collection erases are exactly those shown as
\* [Marked for deletion] in the owner's threads that survive it.
PendingMatchesView ==
  \A p \in Principals :
    ErasedPayloads(p) =
      {e.id : e \in {f \in events : /\ OwnedBy(f.thread, p)
                                    /\ f.thread \notin Doomed(p)
                                    /\ ScanEvent(f) = "marked"}}
------------------------------------------------------------------------------
\* Action properties.

\* A new event gets an id no event ever had, deleted ones included, and
\* events are otherwise only deleted, never changed.
IdsNeverReused ==
  [][/\ \A e \in events' \ events : e.id > seq
     /\ seq' >= seq]_vars

\* A tombstoned, marked or purged thread never opens again; while its row is
\* there no event is added to it and its grants do not change.
ClosedThreadsFrozen ==
  [][\A t \in minted :
       ~Open(t) =>
         /\ ~Open(t)'
         /\ \A e \in events' \ events : e.thread # t
         /\ t \in threads' =>
              {g \in acl : g[1] = t} = {g \in acl' : g[1] = t}]_vars

\* What is there already becomes readable only by a grant to the very actor who
\* reads it, and for owners by migrate-v0: neither a reference that somebody
\* posts, nor any order of revocations, marks, closings and collections,
\* ever gives a caller an old event that was out of reach.
ReadingGrowsByGrantsOnly ==
  [][/\ \A p \in Principals, a \in Labels :
          \/ \E g \in acl' \ acl : g[2] = p /\ g[3] = a
          \/ ReadableBy(p, a)' \cap events \subseteq ReadableBy(p, a)
     /\ \A p \in Principals : \A e \in ReadableByOwner(p)' \cap events :
          e \in ReadableByOwner(p) \/ owner[e.thread] = NoPrincipal]_vars

\* Events labelled 'owner' are exactly those the owner's own operations
\* write, and they carry the principal that owns the thread.
HumanProvenance ==
  [][\A e \in events' \ events :
       /\ e.actor = OwnerLabel => OwnedBy(e.thread, e.principal)
       /\ e.actor = OwnerLabel <=>
            \/ PostOwnerMessage(e.thread, e.principal)
            \/ TombstoneThread(e.thread, e.principal)]_vars

\* A collection removes what GetGCCounts announced, leaves nothing pending,
\* and touches nothing in the threads of other owners.
GCIsExact ==
  [][\A p \in Principals :
       GarbageCollect(p) =>
         /\ GetGCCounts(p)' = [messages |-> 0, threads |-> 0]
         /\ GetGCCounts(p) =
              [messages |-> Cardinality((payloads \ payloads') \cap {e.id : e \in events'}),
               threads  |-> Cardinality(threads \ threads')]
         /\ \A e \in events :
              ~OwnedBy(e.thread, p) =>
                /\ e \in events'
                /\ e.id \in payloads <=> e.id \in payloads'
                /\ ScanEvent(e)' = ScanEvent(e)]_vars

\* An entry that the owner marked is shown as [Marked for deletion] until a
\* collection turns it to [Purged]: gc.html says collecting resolves marked
\* items to [Purged], MarkMessageDeleted speaks of messages and references
\* alike, and store_test.go expects the first literal in between.
PurgedOnlyByGC ==
  [][\A e \in events \cap events' :
       e.kind = "entry" /\ ScanEvent(e) # "purged" /\ ScanEvent(e)' = "purged" =>
         \E p \in Principals : GarbageCollect(p)]_vars
------------------------------------------------------------------------------
\* Refinement: the life of every event id, see EventLifecycle.

Retired == (minted \ threads) \cup tombstoned \cup marked \cup PurgedBefore

Lifecycle == INSTANCE EventLifecycle WITH
  next   <- seq,
  live   <- {<<e.id, e.thread>> : e \in events},
  hidden <- {e.id : e \in {f \in events : Hidden(f)}},
  stored <- payloads,
  closed <- Retired

ImplementsLifecycle == Lifecycle!Spec
==============================================================================

---------------------------- MODULE RequestsProofs ----------------------------
(***************************************************************************)
(* Theorems about Requests, for every set of principals, labels and        *)
(* threads, every page size and every bound on the ids.                    *)
(***************************************************************************)
EXTENDS Requests, ThreadStoreProofs, WellFoundedInduction
------------------------------------------------------------------------------
\* Pages of a finite set of ids.

LEMMA LeastExists ==
  ASSUME NEW S \in SUBSET Nat, S # {}
  PROVE  \E m \in S : \A i \in S : m <= i
<1>1. \E m \in S : \A i \in S : ~(<<i, m>> \in OpToRel(<, Nat))
  BY NatLessThanWellFounded, WFMin
<1>2. \A i, m \in Nat : i < m => <<i, m>> \in OpToRel(<, Nat)
  BY DEF OpToRel
<1>3. S \subseteq Nat
  OBVIOUS
<1>4. \E m \in S : \A i \in S : ~(i < m)
  BY <1>1, <1>2, <1>3, Zenon
<1> QED BY <1>4

\* The greatest of a bounded set, seen from the bound.
LEMMA GreatestExists ==
  ASSUME NEW n \in Nat, NEW S \in SUBSET (0..n), S # {}
  PROVE  \E m \in S : \A i \in S : i <= m
<1> DEFINE T == {n - i : i \in S}
<1>1. T \in SUBSET Nat /\ T # {}
  <2>1. \A i \in S : n - i \in Nat
    OBVIOUS
  <2> QED BY <2>1
<1>2. PICK x \in T : \A y \in T : x <= y
  <2> HIDE DEF T
  <2> QED BY <1>1, LeastExists
<1>3. PICK m \in S : x = n - m
  OBVIOUS
<1>4. \A i \in S : n - m <= n - i
  BY <1>2, <1>3
<1> QED BY <1>4

\* before_id of the next page is the lowest id of this one.
LEMMA LowestIsLeast ==
  ASSUME NEW S \in SUBSET Nat, NEW d
  PROVE  /\ S = {} => Lowest(S, d) = d
         /\ S # {} => Lowest(S, d) \in S /\ \A i \in S : Lowest(S, d) <= i
<1>1. CASE S # {}
  <2>1. \E m \in S : \A i \in S : m <= i
    BY <1>1, LeastExists
  <2> QED BY <1>1, <2>1 DEF Lowest
<1> QED BY <1>1 DEF Lowest

LEMMA IdsFinite ==
  ASSUME NEW S \in SUBSET Ids
  PROVE  /\ IsFiniteSet(S) /\ Cardinality(S) \in Nat
         /\ S \in SUBSET Nat /\ \A i \in S : i \in Nat
<1>1. IsFiniteSet(Ids)
  BY FS_Interval, MaxEventIdAssumption DEF Ids
<1>2. IsFiniteSet(S)
  BY <1>1, FS_Subset
<1>3. Cardinality(S) \in Nat
  BY <1>2, FS_CardinalityType
<1>4. Ids \subseteq Nat
  BY MaxEventIdAssumption DEF Ids
<1> QED BY <1>2, <1>3, <1>4

Above(S, i) == {j \in S : j > i}

\* A page is an upper part of its set.
LEMMA NewestIsUpper ==
  ASSUME NEW S \in SUBSET Ids, NEW i \in Newest(S), NEW j \in S, j > i
  PROVE  j \in Newest(S)
<1>1. i \in S /\ Cardinality(Above(S, i)) < PageSize
  BY DEF Newest, Above
<1>2. i \in Nat /\ j \in Nat /\ \A k \in S : k \in Nat
  BY <1>1, IdsFinite
<1>3. Above(S, j) \in SUBSET Above(S, i) /\ Above(S, i) \in SUBSET Ids
  <2>1. \A k \in S : k > j => k > i
    BY <1>2
  <2> QED BY <2>1 DEF Above
<1>4. /\ Cardinality(Above(S, j)) <= Cardinality(Above(S, i))
      /\ Cardinality(Above(S, i)) \in Nat
      /\ Cardinality(Above(S, j)) \in Nat
  BY <1>3, IdsFinite, FS_Subset
<1>5. Cardinality(Above(S, j)) < PageSize
  BY <1>1, <1>4, PageSizeAssumption
<1> QED BY <1>5 DEF Newest, Above

\* The page of a set that is not empty has its greatest id.
LEMMA NewestNotEmpty ==
  ASSUME NEW S \in SUBSET Ids, S # {}
  PROVE  Newest(S) # {}
<1>1. S \in SUBSET (0..MaxEventId)
  BY DEF Ids
<1>2. PICK m \in S : \A i \in S : i <= m
  BY <1>1, GreatestExists, MaxEventIdAssumption
<1>3. {j \in S : j > m} = {}
  BY <1>2, IdsFinite
<1>4. Cardinality({j \in S : j > m}) = 0
  BY <1>3, FS_EmptySet
<1> QED BY <1>4, PageSizeAssumption DEF Newest

\* A page that leaves something out is full: PageSize ids, neither more nor
\* less.
LEMMA NewestIsFull ==
  ASSUME NEW S \in SUBSET Ids, Newest(S) # S
  PROVE  Cardinality(Newest(S)) = PageSize
<1> DEFINE N == Newest(S)
           R == S \ N
<1>1. /\ N \in SUBSET S /\ N \in SUBSET Nat /\ \A i \in S : i \in Nat
      /\ R # {} /\ R \in SUBSET (0..MaxEventId)
  <2>1. N \in SUBSET S /\ R # {} /\ R \in SUBSET S
    BY DEF Newest
  <2>2. S \in SUBSET Nat /\ \A i \in S : i \in Nat
    BY IdsFinite
  <2>3. Ids \subseteq 0..MaxEventId
    BY DEF Ids
  <2> HIDE DEF N, R
  <2> QED BY <2>1, <2>2, <2>3
<1>2. \A i \in N, j \in S : j > i => j \in N
  BY NewestIsUpper
<1>3. \A i \in S : /\ i \in N <=> Cardinality(Above(S, i)) < PageSize
                   /\ Cardinality(Above(S, i)) \in Nat
                   /\ IsFiniteSet(Above(S, i))
  <2>1. \A i \in S : Above(S, i) \in SUBSET Ids
    BY DEF Above
  <2>2. \A i \in S : i \in N <=> Cardinality(Above(S, i)) < PageSize
    BY DEF Newest, Above
  <2> QED BY <2>1, <2>2, IdsFinite
<1> HIDE DEF N
<1>4. PICK m \in R : \A i \in R : i <= m
  BY <1>1, GreatestExists, MaxEventIdAssumption
<1>5. N = Above(S, m)
  <2>1. \A i \in S : i > m => i \in N
    BY <1>1, <1>4
  <2>2. \A i \in N : i > m
    BY <1>1, <1>2, <1>4
  <2> QED BY <1>1, <2>1, <2>2 DEF Above
<1>6. Cardinality(N) >= PageSize /\ Cardinality(N) \in Nat /\ IsFiniteSet(N)
  BY <1>3, <1>4, <1>5, PageSizeAssumption
<1>7. N # {}
  BY <1>6, FS_EmptySet, PageSizeAssumption
<1>8. PICK l \in N : \A i \in N : l <= i
  BY <1>1, <1>7, LeastExists
<1>9. Above(S, l) = N \ {l}
  <2>1. \A j \in S : j > l <=> j \in N /\ j # l
    BY <1>1, <1>2, <1>8
  <2> QED BY <1>1, <2>1 DEF Above
<1>10. Cardinality(N \ {l}) = Cardinality(N) - 1
  BY <1>6, <1>8, FS_RemoveElement
<1>11. Cardinality(N) - 1 < PageSize
  BY <1>1, <1>3, <1>8, <1>9, <1>10
<1>12. Cardinality(N) = PageSize
  BY <1>6, <1>11, PageSizeAssumption
<1> QED BY <1>12 DEF N
------------------------------------------------------------------------------
\* What any step of the store leaves true of what a request remembers: ids
\* grow, threads keep their owner and their events, hidden events stay hidden.
StoreKeeps ==
  /\ seq' >= seq
  /\ minted \subseteq minted'
  /\ \A e \in events' : e \in events \/ e.id > seq
  /\ \A i \in payloads' : i \in payloads \/ i > seq
  /\ \A t \in threads' \cap minted :
       /\ t \in threads
       /\ owner[t] # NoPrincipal => owner'[t] = owner[t]
  /\ \A e \in events : e.thread \in threads' => e \in events'
  /\ \A e \in events \cap events' : Hidden(e) => Hidden(e)'

LEMMA HiddenUnfolds ==
  \A e : /\ Hidden(e) <=> e.thread \in PurgedBefore \cup marked \/ e.id \in deletions
         /\ Hidden(e)' <=> e.thread \in PurgedBefore \cup marked' \/ e.id \in deletions'
  BY DEF Hidden, ScanEvent, IsMarked

\* Steps that write neither threads nor events.
LEMMA QuietKeeps ==
  ASSUME IInv, UNCHANGED <<minted, threads, marked, eventVars>>,
         \A t \in threads : owner[t] # NoPrincipal => owner'[t] = owner[t]
  PROVE  StoreKeeps
<1>1. UNCHANGED <<events, payloads, deletions, seq>> /\ seq \in Nat
  BY DEF eventVars, IInv, TypeOK
<1> QED BY <1>1, HiddenUnfolds DEF StoreKeeps

LEMMA AppendAdds ==
  ASSUME NEW t, NEW p, NEW a, NEW r, NEW kind, NEW content \in BOOLEAN,
         Append(t, p, a, r, kind, content)
  PROVE  /\ \E e : events' = events \cup {e} /\ e.id = seq + 1
         /\ seq' = seq + 1 /\ UNCHANGED deletions
         /\ payloads' \subseteq payloads \cup {seq + 1}
<1> DEFINE n == NewEvent(t, p, a, r, kind)
<1>1. events' = events \cup {n} /\ n.id = seq + 1
  BY DEF Append, NewEvent, NextId
<1>2. /\ seq' = seq + 1 /\ UNCHANGED deletions
      /\ payloads' \subseteq payloads \cup {seq + 1}
  BY DEF Append, NextId
<1> HIDE DEF n
<1> QED BY <1>1, <1>2

LEMMA AppendKeeps ==
  ASSUME IInv, Appends, UNCHANGED <<minted, owner>>
  PROVE  StoreKeeps
<1>1. /\ \E e : events' = events \cup {e} /\ e.id = seq + 1
      /\ seq' = seq + 1 /\ payloads' \subseteq payloads \cup {seq + 1}
      /\ UNCHANGED <<deletions, threads, marked>>
  BY AppendAdds DEF Appends
<1>2. seq \in Nat
  BY DEF IInv, TypeOK
<1> QED BY <1>1, <1>2, HiddenUnfolds DEF StoreKeeps

LEMMA CollectKeeps ==
  ASSUME IInv, NEW p \in Principals, GarbageCollect(p)
  PROVE  StoreKeeps
<1>1. /\ UNCHANGED <<minted, seq>> /\ payloads' \subseteq payloads /\ seq \in Nat
  BY DEF GarbageCollect, IInv, TypeOK
<1>2. /\ events' \subseteq events
      /\ threads' \subseteq threads
      /\ \A t \in threads' : owner'[t] = owner[t]
  BY GCEffect
<1>3. \A e \in events : e.thread \in threads' => e \in events'
  BY GCEffect
<1>4. \A e \in events' : Hidden(e) => Hidden(e)'
  <2>1. \A e \in events' : /\ e.thread \notin Doomed(p)
                           /\ e.id \in deletions => e.id \in deletions'
    BY GCEffect
  <2>2. marked' = marked \ Doomed(p)
    BY GCEffect
  <2> QED BY <2>1, <2>2, HiddenUnfolds
<1> QED BY <1>1, <1>2, <1>3, <1>4 DEF StoreKeeps

LEMMA NextKeeps ==
  ASSUME IInv, [Next]_vars
  PROVE  StoreKeeps
<1>1. CASE \/ \E p \in Principals : \/ MigrateV0Threads(p)
                                    \/ \E a \in Labels : RegisterActor(p, a)
           \/ \E a \in Labels : SetActorPassword(a) \/ DeactivateActor(a)
           \/ \E t \in Threads, a \in Labels : Grant(t, a) \/ Revoke(t, a)
           \/ \E t \in Threads, p \in Principals, a \in Labels :
                GrantOwnerActor(t, p, a) \/ RevokeOwnerActor(t, p, a)
           \/ UNCHANGED vars
  <2>1. UNCHANGED <<minted, threads, marked, eventVars>>
    BY <1>1 DEF MigrateV0Threads, RegisterActor, SetActorPassword, DeactivateActor,
                Grant, Revoke, GrantOwnerActor, RevokeOwnerActor, vars, threadVars
  <2>2. \A t \in threads : owner[t] # NoPrincipal => owner'[t] = owner[t]
    BY <1>1 DEF MigrateV0Threads, RegisterActor, SetActorPassword, DeactivateActor,
                Grant, Revoke, GrantOwnerActor, RevokeOwnerActor, vars, threadVars,
                IInv, TypeOK
  <2> QED BY <2>1, <2>2, QuietKeeps
<1>2. ASSUME NEW t \in Threads, NEW p \in Principals, CreateThread(t, p)
      PROVE  StoreKeeps
  <2>1. /\ UNCHANGED <<events, payloads, deletions, seq, marked>> /\ seq \in Nat
        /\ minted' = minted \cup {t} /\ threads' = threads \cup {t}
        /\ t \notin minted
        /\ \A u \in threads : u # t => owner'[u] = owner[u]
    BY <1>2 DEF CreateThread, eventVars, IInv, TypeOK
  <2> QED BY <2>1, HiddenUnfolds DEF StoreKeeps
<1>3. ASSUME NEW t \in Threads, NEW p \in Principals,
             MarkThreadDeleted(t, p) \/ \E i \in Ids : MarkMessageDeleted(t, p, i)
      PROVE  StoreKeeps
  <2>1. /\ UNCHANGED <<minted, threads, owner, events, payloads, seq>> /\ seq \in Nat
        /\ marked \subseteq marked' /\ deletions \subseteq deletions'
    BY <1>3 DEF MarkThreadDeleted, MarkMessageDeleted, threadVars, eventVars, IInv, TypeOK
  <2> QED BY <2>1, HiddenUnfolds DEF StoreKeeps
<1>4. CASE \E t \in Threads, p \in Principals :
             \/ PostOwnerMessage(t, p) \/ TombstoneThread(t, p)
             \/ \E a \in Labels, r \in Ids \cup {NoRef}, content \in BOOLEAN :
                  PostMessage(t, p, a, r, content)
  <2>1. UNCHANGED <<minted, owner>> /\ seq' # seq
    BY <1>4 DEF PostOwnerMessage, TombstoneThread, PostMessage, Append, NextId, threadVars,
                IInv, TypeOK
  <2>2. Appends
    BY <2>1, EventsStep
  <2> QED BY <2>1, <2>2, AppendKeeps
<1> QED BY <1>1, <1>2, <1>3, <1>4, CollectKeeps DEF Next

\* A label's principal never changes.
LEMMA PrincipalKept ==
  ASSUME IInv, [Next]_vars, NEW a \in Labels, Registered(a)
  PROVE  principalOf'[a] = principalOf[a]
<1>1. \/ \E p \in Principals, b \in Labels : RegisterActor(p, b)
      \/ UNCHANGED principalOf
  BY DEF Next, SetActorPassword, DeactivateActor, Activate, Deactivate, CreateThread,
         PostOwnerMessage, TombstoneThread, MarkThreadDeleted, MarkMessageDeleted, Grant,
         Revoke, GrantOwnerActor, RevokeOwnerActor, PostMessage, MigrateV0Threads,
         GarbageCollect, actorVars, vars
<1> QED BY <1>1 DEF RegisterActor, InsertActor, Registered, IInv, TypeOK, ActorsTypeOK
------------------------------------------------------------------------------
\* Types.

LEMMA JobTypes ==
  ASSUME RequestsTypeOK
  PROVE  /\ Doing("create") => job \in Creating
         /\ Doing("read") => job \in Reading
         /\ Doing("view") => job \in Viewing
         /\ Doing("collect") => job \in Collecting
  BY DEF RequestsTypeOK, Doing, NoJob, Creating, Reading, Viewing, Collecting

LEMMA NewestWithin == \A S : Newest(S) \subseteq S
  BY DEF Newest

\* before_id stays an id.
LEMMA LowestTyped ==
  ASSUME NEW S \in SUBSET Ids, NEW d \in Ids
  PROVE  Lowest(S, d) \in Ids
<1>1. S \in SUBSET Nat
  BY IdsFinite
<1> QED BY <1>1, LowestIsLeast

LEMMA CreateTyped ==
  ASSUME RequestsTypeOK,
         \/ \E t \in Threads, p \in Principals, chosen \in SUBSET Labels :
              StartCreate(t, p, chosen)
         \/ \E a \in Labels : GrantChosen(a) \/ GrantRefused(a) \/ GrantFails(a)
  PROVE  job' \in Creating
<1>1. ASSUME NEW t \in Threads, NEW p \in Principals, NEW chosen \in SUBSET Labels,
             StartCreate(t, p, chosen)
      PROVE  job' \in Creating
  BY <1>1 DEF StartCreate, Creating
<1>2. ASSUME NEW a \in Labels, GrantChosen(a) \/ GrantRefused(a)
      PROVE  job' \in Creating
  <2>1. job \in Creating /\ job' = [job EXCEPT !.todo = @ \ {a}]
    BY <1>2, JobTypes DEF GrantChosen, GrantRefused
  <2> QED BY <2>1 DEF Creating
<1>3. ASSUME NEW a \in Labels, GrantFails(a)
      PROVE  job' \in Creating
  <2>1. job \in Creating /\ job' = [job EXCEPT !.todo = @ \ {a}, !.lost = @ \cup {a}]
    BY <1>3, JobTypes DEF GrantFails
  <2> QED BY <2>1 DEF Creating
<1> QED BY <1>1, <1>2, <1>3

LEMMA ReadTyped ==
  ASSUME RequestsTypeOK,
         \/ \E t \in Threads, p \in Principals, a \in Labels : StartRead(t, p, a)
         \/ ReadMore
  PROVE  job' \in Reading
<1>1. \A t : IdsOf({t}) \in SUBSET Ids
  BY DEF RequestsTypeOK, TypeOK, IdsOf, EventsOf, EventRows
<1>2. ASSUME NEW t \in Threads, NEW p \in Principals, NEW a \in Labels, StartRead(t, p, a)
      PROVE  job' \in Reading
  <2> DEFINE page == Newest(IdsOf({t}))
  <2>1. page \in SUBSET Ids /\ page # {} /\ 1 \in Ids
    <3>1. page \in SUBSET Ids /\ page # {}
      BY <1>1, <1>2, NewestWithin DEF StartRead
    <3> QED BY <3>1, MaxEventIdAssumption DEF Ids
  <2>2. Lowest(page, 1) \in Ids
    BY <2>1, LowestTyped
  <2>3. job' = [kind |-> "read", thread |-> t, principal |-> p, actor |-> a,
                first |-> IdsOf({t}), seen |-> page, before |-> Lowest(page, 1),
                pages |-> 1, more |-> Cardinality(page) = PageSize]
    BY <1>2 DEF StartRead
  <2> HIDE DEF page
  <2> QED BY <1>1, <2>1, <2>2, <2>3 DEF Reading
<1>3. ASSUME ReadMore
      PROVE  job' \in Reading
  <2> DEFINE page == Page(job.thread, job.before)
  <2>1. job \in Reading
    BY <1>3, JobTypes DEF ReadMore
  <2>2. page \in SUBSET Ids /\ job.before \in Ids
    BY <1>1, <2>1, NewestWithin DEF Page, Reading
  <2>3. Lowest(page, job.before) \in Ids
    BY <2>2, LowestTyped
  <2>4. \E b \in Ids, m \in BOOLEAN :
          job' = [job EXCEPT !.seen = @ \cup page, !.before = b, !.pages = @ + 1, !.more = m]
    BY <1>3, <2>3, Zenon DEF ReadMore
  <2> HIDE DEF page
  <2>5. job.seen \cup page \in SUBSET Ids /\ job.pages + 1 \in Nat
    BY <2>1, <2>2 DEF Reading
  <2> QED BY <2>1, <2>4, <2>5 DEF Reading
<1> QED BY <1>2, <1>3

LEMMA ViewTyped ==
  ASSUME RequestsTypeOK,
         \/ \E t \in Threads, p \in Principals : StartView(t, p)
         \/ ViewGrants \/ ViewEvents \/ ViewSourceOwner \/ \E r \in Ids : ViewSource(r)
  PROVE  job' \in Viewing
<1>1. \A e \in events : /\ e.id \in Ids /\ e.thread \in Threads
                        /\ e.ref \in Ids \cup {NoRef}
                        /\ ScanEvent(e) \in Views
  BY DEF RequestsTypeOK, TypeOK, EventRows, ScanEvent, Views
<1>2. ASSUME NEW t \in Threads, NEW p \in Principals, StartView(t, p)
      PROVE  job' \in Viewing
  <2>1. /\ {e.id : e \in {f \in events : Hidden(f)}} \in SUBSET Ids
        /\ IdsOf({t}) \in SUBSET Ids
    BY <1>1 DEF IdsOf, EventsOf
  <2> QED BY <1>2, <2>1 DEF StartView, Viewing
<1>3. CASE ViewEvents
  <2>1. job \in Viewing
    BY <1>3, JobTypes DEF ViewEvents
  <2>2. /\ {<<e.id, ScanEvent(e)>> : e \in EventsOf({job.thread})} \in SUBSET (Ids \X Views)
        /\ {e.ref : e \in EventsOf({job.thread})} \ {NoRef} \in SUBSET Ids
    BY <1>1 DEF EventsOf
  <2> QED BY <1>3, <2>1, <2>2 DEF ViewEvents, Viewing
<1>4. CASE ViewSourceOwner
  <2> DEFINE new == {<<s.id, s.view>> : s \in {x \in job.source : OwnedBy(x.thread, job.owner)}}
  <2>1. job \in Viewing
    BY <1>4, JobTypes DEF ViewSourceOwner
  <2>2. new \in SUBSET (Ids \X Views)
    BY <2>1 DEF Viewing
  <2>3. job' = [job EXCEPT !.source = {}, !.shown = @ \cup new]
    BY <1>4 DEF ViewSourceOwner
  <2> HIDE DEF new
  <2> QED BY <2>1, <2>2, <2>3 DEF Viewing
<1>5. ASSUME NEW r \in Ids, ViewSource(r)
      PROVE  job' \in Viewing
  <2>1. job \in Viewing
    BY <1>5, JobTypes DEF ViewSource
  <2>2. SourceRow(r) \in SUBSET [id : Ids, view : Views, thread : Threads]
    BY <1>1 DEF SourceRow
  <2>3. job' = [job EXCEPT !.refs = @ \ {r}, !.source = SourceRow(r)]
    BY <1>5 DEF ViewSource
  <2> QED BY <2>1, <2>2, <2>3 DEF Viewing
<1>6. CASE ViewGrants
  <2>1. job \in Viewing /\ job' = [job EXCEPT !.step = "events"]
    BY <1>6, JobTypes DEF ViewGrants
  <2> QED BY <2>1 DEF Viewing
<1> QED BY <1>2, <1>3, <1>4, <1>5, <1>6

LEMMA CollectTyped ==
  ASSUME RequestsTypeOK,
         \/ Checkpoint \/ Vacuum
         \/ residue' \subseteq Ids /\ \E p \in Principals : StartCollect(p)
  PROVE  job' \in Collecting
<1>1. CASE Checkpoint \/ Vacuum
  <2>1. job \in Collecting
    BY <1>1, JobTypes DEF Checkpoint, Vacuum
  <2>2. \E step \in {"vacuum", "done", "failed"} : job' = [job EXCEPT !.step = step]
    BY <1>1 DEF Checkpoint, Vacuum
  <2> QED BY <2>1, <2>2 DEF Collecting
<1>2. CASE residue' \subseteq Ids /\ \E p \in Principals : StartCollect(p)
  BY <1>2 DEF StartCollect, Collecting
<1> QED BY <1>1, <1>2
------------------------------------------------------------------------------
\* Every step is one step of the store, or leaves the tables alone.

LEMMA RequestRefines == RequestsTypeOK /\ [RequestsNext]_requestVars => [Next]_vars
<1> SUFFICES ASSUME RequestsTypeOK, [RequestsNext]_requestVars PROVE [Next]_vars
  OBVIOUS
<1>1. ASSUME NEW t \in Threads, NEW p \in Principals, NEW chosen, StartCreate(t, p, chosen)
      PROVE  Next
  BY <1>1 DEF StartCreate, Next
<1>2. ASSUME NEW a \in Labels, GrantChosen(a)
      PROVE  Next
  <2>1. job.thread \in Threads /\ job.owner \in Principals
    BY <1>2, JobTypes DEF GrantChosen, Creating
  <2> QED BY <1>2, <2>1 DEF GrantChosen, Next
<1>3. ASSUME NEW p \in Principals, StartCollect(p)
      PROVE  Next
  BY <1>3 DEF StartCollect, Next
<1>4. CASE \/ \E a \in Labels : GrantRefused(a) \/ GrantFails(a)
           \/ \E t \in Threads, p \in Principals, a \in Labels : StartRead(t, p, a)
           \/ \E t \in Threads, p \in Principals : StartView(t, p)
           \/ ReadMore \/ ReadForbidden \/ ViewGrants \/ ViewEvents \/ ViewSourceOwner
           \/ \E r \in Ids : ViewSource(r)
           \/ Checkpoint \/ Vacuum \/ Reply
           \/ UNCHANGED requestVars
  BY <1>4 DEF GrantRefused, GrantFails, StartRead, StartView, ReadMore, ReadForbidden,
              ViewGrants, ViewEvents, ViewSourceOwner, ViewSource, Checkpoint, Vacuum,
              Reply, Reads, requestVars
<1> QED BY <1>1, <1>2, <1>3, <1>4 DEF RequestsNext, OtherCaller

\* The part of the inductive invariant that is about no particular request.
\* Content that was erased had an id that was given out, and no later event
\* gets it; V0 threads count as minted, so a new one is not among them.
Base ==
  /\ IInv
  /\ RequestsTypeOK
  /\ residue \subseteq 1..seq
  /\ LegacyThreads \subseteq minted

LEMMA BaseIds ==
  ASSUME Base
  PROVE  /\ seq \in Nat
         /\ \A e \in events : e.id \in 1..seq /\ e.id <= seq
         /\ payloads \subseteq 1..seq
<1>1. \A e \in events : e.id \in Nat \ {0} /\ e.id <= seq
  BY MaxEventIdAssumption DEF Base, IInv, TypeOK, IdsAreKeys, EventRows, Ids
<1>2. seq \in Nat
  BY DEF Base, IInv, TypeOK
<1>3. \A i \in payloads : \E e \in events : e.id = i
  BY DEF Base, IInv, NoOrphans
<1> QED BY <1>1, <1>2, <1>3

\* Erased content joins the residue; nothing in the residue comes back.
LEMMA ResidueStep ==
  ASSUME Base, [Next]_vars, IInv',
         residue' \subseteq residue \cup (payloads \ payloads')
  PROVE  residue' \subseteq Ids \ payloads' /\ residue' \subseteq 1..seq'
<1>1. /\ residue \subseteq Ids \ payloads /\ residue \subseteq 1..seq
      /\ payloads \subseteq Ids
  BY DEF Base, RequestsTypeOK, TypeOK
<1>2. seq \in Nat /\ payloads \subseteq 1..seq /\ seq' \in Nat
  BY BaseIds DEF IInv, TypeOK
<1>3. seq' >= seq /\ \A i \in payloads' : i \in payloads \/ i > seq
  BY NextKeeps DEF Base, StoreKeeps
<1>4. 1..seq \subseteq 1..seq'
  BY <1>2, <1>3
<1>5. \A i \in 1..seq : ~(i > seq)
  BY <1>2
<1> QED BY <1>1, <1>2, <1>3, <1>4, <1>5

LEMMA JobStep ==
  ASSUME Base, [RequestsNext]_requestVars, residue' \subseteq Ids
  PROVE  job' \in {NoJob} \cup Creating \cup Reading \cup Viewing \cup Collecting
<1> USE DEF Base
<1>1. CASE OtherCaller
  <2>1. CASE Doing("create")
    <3>1. job \in Creating
      BY <2>1, JobTypes
    <3>2. job' = [job EXCEPT !.lost = @ \cup {a \in job.chosen : LostBy(job.thread, job.owner, a)}]
      BY <1>1, <2>1 DEF OtherCaller
    <3>3. {a \in job.chosen : LostBy(job.thread, job.owner, a)} \in SUBSET Labels
      BY <3>1 DEF Creating
    <3> QED BY <3>1, <3>2, <3>3 DEF Creating
  <2>2. CASE ~Doing("create")
    BY <1>1, <2>2 DEF OtherCaller, RequestsTypeOK
  <2> QED BY <2>1, <2>2
<1>2. CASE ReadForbidden \/ Reply
  BY <1>2 DEF ReadForbidden, Reply
<1>3. CASE UNCHANGED requestVars
  BY <1>3 DEF requestVars, RequestsTypeOK
<1> QED BY <1>1, <1>2, <1>3, CreateTyped, ReadTyped, ViewTyped, CollectTyped DEF RequestsNext

\* The list of actors is a list of labels.
LEMMA GrantsTyped ==
  ASSUME IInv, NEW t
  PROVE  GrantedOn(t) \in SUBSET Labels
<1>1. \A g \in acl : g[3] \in Labels
  BY DEF IInv, TypeOK
<1> QED BY <1>1 DEF GrantedOn

LEMMA HeadStep ==
  ASSUME Base, [RequestsNext]_requestVars
  PROVE  head' \in Heads
<1>1. head \in Heads /\ NoHead \in Heads
  BY DEF Base, RequestsTypeOK, NoHead, Heads
<1>2. CASE OtherCaller
  <2>1. GrantedOn(job.thread)' \in SUBSET Labels
    <3>1. IInv'
      BY <1>2, NextInv DEF OtherCaller, Base
    <3>2. \A g \in acl' : g[3] \in Labels
      BY <3>1 DEF IInv, TypeOK
    <3> QED BY <3>2 DEF GrantedOn
  <2>2. CASE Doing("view") /\ job.step = "grants"
    <3>1. \E new \in SUBSET Labels :
            head' = [head EXCEPT !.held = @ \cup new, !.kept = @ \cap new]
      BY <1>2, <2>1, <2>2, Zenon DEF OtherCaller
    <3> QED BY <1>1, <3>1 DEF Heads
  <2>3. CASE ~(Doing("view") /\ job.step = "grants")
    BY <1>1, <1>2, <2>3 DEF OtherCaller
  <2> QED BY <2>2, <2>3
<1>3. ASSUME NEW t \in Threads, NEW p \in Principals, StartView(t, p)
      PROVE  head' \in Heads
  <2>1. GrantedOn(t) \in SUBSET Labels
    BY GrantsTyped DEF Base
  <2>2. head' = [NoHead EXCEPT !.held = GrantedOn(t), !.kept = GrantedOn(t)]
    BY <1>3 DEF StartView
  <2> QED BY <1>1, <2>1, <2>2 DEF Heads
<1>4. CASE ViewGrants
  <2>1. GrantsRead(job.thread) \in SUBSET Labels
    BY GrantsTyped DEF Base, GrantsRead
  <2>2. head' = [head EXCEPT !.granted = GrantsRead(job.thread)]
    BY <1>4 DEF ViewGrants
  <2> QED BY <1>1, <2>1, <2>2 DEF Heads
<1>5. CASE head' \in {head, NoHead}
  BY <1>1, <1>5
<1>6. \/ OtherCaller \/ (\E t \in Threads, p \in Principals : StartView(t, p)) \/ ViewGrants
      \/ head' \in {head, NoHead}
  BY DEF RequestsNext, StartCreate, GrantChosen, GrantRefused, GrantFails, StartRead,
         ReadMore, ReadForbidden, ViewEvents, ViewSourceOwner, ViewSource, StartCollect,
         Checkpoint, Vacuum, Reply, requestVars
<1> QED BY <1>2, <1>3, <1>4, <1>5, <1>6

LEMMA BaseNext == Base /\ [RequestsNext]_requestVars => Base'
<1> SUFFICES ASSUME Base, [RequestsNext]_requestVars PROVE Base'
  OBVIOUS
<1>1. [Next]_vars /\ IInv'
  BY RequestRefines, NextInv DEF Base
<1>2. residue' \subseteq residue \cup (payloads \ payloads')
  BY DEF RequestsNext, OtherCaller, StartCreate, GrantChosen, GrantRefused, GrantFails,
         StartRead, StartView, ReadMore, ReadForbidden, ViewGrants, ViewEvents,
         ViewSourceOwner, ViewSource, StartCollect, Checkpoint, Vacuum, Reply, Reads,
         requestVars
<1>3. residue' \subseteq Ids \ payloads' /\ residue' \subseteq 1..seq'
  BY <1>1, <1>2, ResidueStep
<1>4. RequestsTypeOK'
  BY <1>1, <1>3, JobStep, HeadStep DEF RequestsTypeOK, IInv
<1>5. LegacyThreads \subseteq minted'
  BY <1>1, NextKeeps DEF Base, StoreKeeps
<1> QED BY <1>1, <1>3, <1>4, <1>5 DEF Base

LEMMA BaseInit == RequestsInit => Base
  BY InitInv, MaxEventIdAssumption
  DEF RequestsInit, Base, RequestsTypeOK, Heads, NoHead, IInv, Init

\* Between any two steps of any requests, the typed state, the store's own
\* invariant and the ids erased so far agree: what every proof below rests on.
THEOREM BaseInvariance == RequestsSpec => []Base
  BY BaseInit, BaseNext, PTL DEF RequestsSpec

\* What a request holds between its steps has the type of the Go values, and
\* nothing erased is ever stored again under its id.
THEOREM RequestsTyped == RequestsSpec => []RequestsTypeOK
<1>1. Base => RequestsTypeOK
  BY DEF Base
<1> QED BY <1>1, BaseInvariance, PTL

\* Requests only combine steps of the store, so all that is proved of the
\* store holds between the steps of a request too.
THEOREM RequestsUseStore == RequestsSpec => Spec
<1>1. RequestsInit => Init
  BY DEF RequestsInit
<1>2. Base /\ [RequestsNext]_requestVars => [Next]_vars
  BY RequestRefines DEF Base
<1> QED BY <1>1, <1>2, BaseInvariance, PTL DEF RequestsSpec, Spec
------------------------------------------------------------------------------
\* The form.  An actor that nothing spoke against can still be granted, and
\* has been once the loop is past it.
CreateInv ==
  Doing("create") =>
    \A a \in job.chosen \ job.lost :
      /\ a \in active /\ principalOf[a] = job.owner
      /\ OwnedBy(job.thread, job.owner) /\ Open(job.thread)
      /\ a \in job.todo \/ <<job.thread, job.owner, a>> \in acl

LEMMA CreateStarts ==
  ASSUME Base, NEW t \in Threads, NEW p \in Principals, NEW chosen \in SUBSET Labels,
         StartCreate(t, p, chosen)
  PROVE  CreateInv'
<1>1. /\ t \notin minted /\ threads' = threads \cup {t} /\ owner' = [owner EXCEPT ![t] = p]
      /\ UNCHANGED <<principalOf, active, tombstoned, marked>>
  BY DEF StartCreate, CreateThread, actorVars
<1>2. /\ job'.thread = t /\ job'.owner = p /\ job'.todo = chosen /\ job'.chosen = chosen
      /\ job'.lost = {a \in chosen : a \notin active \/ principalOf[a] # p}
  BY DEF StartCreate
<1>3. OwnedBy(t, p)' /\ Open(t)'
  BY <1>1, LegacyAssumption DEF Base, IInv, TypeOK, OwnedBy, Open
<1> QED BY <1>1, <1>2, <1>3 DEF CreateInv, OwnedBy, Open

LEMMA CreateGrants ==
  ASSUME Base, CreateInv, NEW a \in Labels, GrantChosen(a) \/ GrantRefused(a)
  PROVE  CreateInv'
<1>1. /\ job \in Creating /\ job' = [job EXCEPT !.todo = @ \ {a}] /\ a \in job.todo
      /\ UNCHANGED <<principalOf, active, threads, owner, tombstoned, marked>>
      /\ acl \subseteq acl'
  BY JobTypes DEF GrantChosen, GrantRefused, GrantOwnerActor, Base, Reads, vars,
                  actorVars, threadVars
<1>2. PICK t \in Threads, p \in Principals :
        /\ job.thread = t /\ job.owner = p /\ job'.thread = t /\ job'.owner = p
        /\ job'.chosen = job.chosen /\ job'.lost = job.lost
        /\ job'.todo = job.todo \ {a}
  BY <1>1 DEF Creating
<1>3. Doing("create")
  BY DEF GrantChosen, GrantRefused
<1>4. \A b \in job.chosen \ job.lost :
        /\ b \in active /\ principalOf[b] = p /\ OwnedBy(t, p) /\ Open(t)
        /\ b \in job.todo \/ <<t, p, b>> \in acl
  BY <1>2, <1>3 DEF CreateInv
<1>5. a \in job.chosen \ job.lost => <<t, p, a>> \in acl'
  <2>1. CASE GrantChosen(a)
    BY <1>2, <2>1 DEF GrantChosen, GrantOwnerActor
  <2>2. CASE GrantRefused(a)
    <3>1. ~OwnerMayGrant(t, p, a)
      BY <1>2, <2>2 DEF GrantRefused
    <3> QED BY <1>1, <1>4, <3>1 DEF OwnerMayGrant
  <2> QED BY <2>1, <2>2
<1>6. (OwnedBy(t, p)' <=> OwnedBy(t, p)) /\ (Open(t)' <=> Open(t))
  BY <1>1 DEF OwnedBy, Open
<1>7. \A b \in job'.chosen \ job'.lost :
        /\ b \in active' /\ principalOf'[b] = p /\ OwnedBy(t, p)' /\ Open(t)'
        /\ b \in job'.todo \/ <<t, p, b>> \in acl'
  BY <1>1, <1>2, <1>4, <1>5, <1>6
<1> QED BY <1>2, <1>7 DEF CreateInv, OwnedBy, Open

\* A grant that met some other error is among the lost.
LEMMA CreateLoses ==
  ASSUME Base, CreateInv, NEW a \in Labels, GrantFails(a)
  PROVE  CreateInv'
<1>1. /\ job \in Creating /\ Doing("create") /\ UNCHANGED vars
      /\ job' = [job EXCEPT !.todo = @ \ {a}, !.lost = @ \cup {a}]
  BY JobTypes DEF GrantFails, Base, Reads
<1>2. PICK t \in Threads, p \in Principals :
        /\ job.thread = t /\ job.owner = p /\ job'.thread = t /\ job'.owner = p
        /\ job'.chosen = job.chosen /\ job'.lost = job.lost \cup {a}
        /\ job'.todo = job.todo \ {a}
  BY <1>1 DEF Creating
<1>3. UNCHANGED <<principalOf, active, threads, owner, tombstoned, marked, acl>>
  BY <1>1 DEF vars, actorVars, threadVars
<1>4. \A b \in job'.chosen \ job'.lost :
        /\ b \in active' /\ principalOf'[b] = p /\ OwnedBy(t, p)' /\ Open(t)'
        /\ b \in job'.todo \/ <<t, p, b>> \in acl'
  BY <1>1, <1>2, <1>3 DEF CreateInv, OwnedBy, Open
<1> QED BY <1>2, <1>4 DEF CreateInv, OwnedBy, Open

\* Whoever stops a chosen actor from being granted puts it among the lost.
LEMMA CreateDisturbed ==
  ASSUME Base, CreateInv, OtherCaller
  PROVE  CreateInv'
<1> SUFFICES ASSUME Doing("create")' PROVE CreateInv'
  BY DEF CreateInv
<1>1. Doing("create")
  BY JobTypes DEF OtherCaller, Doing
<1>2. job \in Creating
  BY <1>1, JobTypes DEF Base
<1>3. job' = [job EXCEPT !.lost = @ \cup {b \in job.chosen : LostBy(job.thread, job.owner, b)}]
  BY <1>1 DEF OtherCaller
<1>4. PICK t \in Threads, p \in Principals :
        /\ job.thread = t /\ job.owner = p /\ job'.thread = t /\ job'.owner = p
        /\ job'.chosen = job.chosen /\ job'.todo = job.todo
        /\ job'.lost = job.lost \cup {b \in job.chosen : LostBy(t, p, b)}
  BY <1>2, <1>3 DEF Creating
<1>5. ASSUME NEW a \in job.chosen \ job.lost, ~LostBy(t, p, a)
      PROVE  /\ a \in active' /\ principalOf'[a] = p /\ OwnedBy(t, p)' /\ Open(t)'
             /\ a \in job.todo \/ <<t, p, a>> \in acl'
  <2>1. /\ a \in active /\ principalOf[a] = p /\ OwnedBy(t, p)
        /\ a \in job.todo \/ <<t, p, a>> \in acl
    BY <1>1, <1>4, <1>5 DEF CreateInv
  <2>2. /\ a \in active' /\ Open(t)'
        /\ a \in job.todo \/ <<t, p, a>> \in acl'
    BY <1>5, <2>1 DEF LostBy, OpenThreads
  <2>3. a \in Labels
    BY <1>2, <1>5 DEF Creating
  <2>4. principalOf'[a] = p
    BY <2>1, <2>3, PrincipalKept, NoPrincipalAssumption DEF Registered, Base, OtherCaller
  <2>5. OwnedBy(t, p)'
    <3>1. t \in threads' \cap minted /\ owner[t] = p /\ p # NoPrincipal
      BY <2>1, <2>2, NoPrincipalAssumption DEF Open, OwnedBy, Base, IInv, TypeOK
    <3>2. owner'[t] = owner[t]
      BY <3>1, NextKeeps DEF StoreKeeps, Base, OtherCaller
    <3> QED BY <3>1, <3>2 DEF OwnedBy
  <2> QED BY <2>2, <2>4, <2>5
<1>6. \A a \in job'.chosen \ job'.lost : a \in job.chosen \ job.lost /\ ~LostBy(t, p, a)
  BY <1>4
<1> QED BY <1>4, <1>5, <1>6 DEF CreateInv, OwnedBy, Open

\* Steps by the kind of request that they leave.
LEMMA StepKinds ==
  ASSUME Base, [RequestsNext]_requestVars
  PROVE  \/ OtherCaller
         \/ /\ Doing("create")'
            /\ \/ \E t \in Threads, p \in Principals, chosen \in SUBSET Labels :
                    StartCreate(t, p, chosen)
               \/ \E a \in Labels : GrantChosen(a) \/ GrantRefused(a) \/ GrantFails(a)
         \/ /\ Doing("read")' /\ Reads
            /\ \/ \E t \in Threads, p \in Principals, a \in Labels : StartRead(t, p, a)
               \/ ReadMore
         \/ /\ Doing("view")' /\ Reads
            /\ \/ \E t \in Threads, p \in Principals : StartView(t, p)
               \/ ViewGrants \/ ViewEvents \/ ViewSourceOwner \/ \E r \in Ids : ViewSource(r)
         \/ /\ Doing("collect")'
            /\ \/ \E p \in Principals : StartCollect(p)
               \/ UNCHANGED vars /\ (Checkpoint \/ Vacuum)
         \/ ~Doing("create")' /\ ~Doing("read")' /\ ~Doing("view")' /\ ~Doing("collect")'
         \/ UNCHANGED requestVars
<1>1. RequestsTypeOK /\ residue' \subseteq Ids
  BY BaseNext DEF Base, RequestsTypeOK
<1>2. /\ job' \in Creating => Doing("create")'
      /\ job' \in Reading => Doing("read")'
      /\ job' \in Viewing => Doing("view")'
      /\ job' \in Collecting => Doing("collect")'
  BY DEF Creating, Reading, Viewing, Collecting, Doing
<1>3. CASE \/ \E t \in Threads, p \in Principals, chosen \in SUBSET Labels :
                StartCreate(t, p, chosen)
           \/ \E a \in Labels : GrantChosen(a) \/ GrantRefused(a) \/ GrantFails(a)
  BY <1>1, <1>2, <1>3, CreateTyped
<1>4. CASE \/ \E t \in Threads, p \in Principals, a \in Labels : StartRead(t, p, a)
           \/ ReadMore
  <2>1. Reads
    BY <1>4 DEF StartRead, ReadMore
  <2> QED BY <1>1, <1>2, <1>4, <2>1, ReadTyped
<1>5. CASE \/ \E t \in Threads, p \in Principals : StartView(t, p)
           \/ ViewGrants \/ ViewEvents \/ ViewSourceOwner \/ \E r \in Ids : ViewSource(r)
  <2>1. Reads
    BY <1>5 DEF StartView, ViewGrants, ViewEvents, ViewSourceOwner, ViewSource
  <2> QED BY <1>1, <1>2, <1>5, <2>1, ViewTyped
<1>6. CASE (\E p \in Principals : StartCollect(p)) \/ Checkpoint \/ Vacuum
  <2>1. Checkpoint \/ Vacuum => UNCHANGED vars
    BY DEF Checkpoint, Vacuum, Reads
  <2> QED BY <1>1, <1>2, <1>6, <2>1, CollectTyped
<1>7. CASE ReadForbidden \/ Reply
  BY <1>7 DEF ReadForbidden, Reply, NoJob, Doing
<1> QED BY <1>3, <1>4, <1>5, <1>6, <1>7 DEF RequestsNext

LEMMA OtherCallerKeepsJob ==
  ASSUME OtherCaller
  PROVE  \/ Doing("create") /\ ~Doing("read")' /\ ~Doing("view")' /\ ~Doing("collect")'
         \/ ~Doing("create") /\ job' = job
  BY DEF OtherCaller, Doing

LEMMA CreateNext == Base /\ CreateInv /\ [RequestsNext]_requestVars => CreateInv'
<1> SUFFICES ASSUME Base, CreateInv, [RequestsNext]_requestVars PROVE CreateInv'
  OBVIOUS
<1>1. CASE UNCHANGED requestVars
  BY <1>1 DEF requestVars, vars, actorVars, threadVars, CreateInv, Doing, OwnedBy, Open
<1>2. CASE ~Doing("create")'
  BY <1>2 DEF CreateInv
<1>3. Doing("create")' => ~Doing("read")' /\ ~Doing("view")' /\ ~Doing("collect")'
  BY DEF Doing
<1> QED BY <1>1, <1>2, <1>3, StepKinds, CreateStarts, CreateGrants, CreateLoses, CreateDisturbed

\* After the form each chosen actor can use the thread, whatever other callers
\* did meanwhile and whichever other grant was refused or met an error, unless
\* somebody acted against that very actor or the thread, or it was its own
\* grant that met the error.
THEOREM FormCorrect == RequestsSpec => []ChosenAreGranted
<1>1. RequestsInit => CreateInv
  BY DEF RequestsInit, CreateInv, Doing, NoJob
<1>2. CreateInv => ChosenAreGranted
  BY DEF CreateInv, ChosenAreGranted, Finished, Doing
<1> QED BY <1>1, <1>2, BaseInvariance, CreateNext, PTL DEF RequestsSpec
------------------------------------------------------------------------------
\* The collection.  What it has to get rid of is in no table, and not in the
\* file either once a checkpoint got through.
CollectInv ==
  Doing("collect") =>
    /\ job.erased \subseteq 1..seq
    /\ job.erased \cap payloads = {}
    /\ job.step \in {"vacuum", "done"} => job.erased \cap residue = {}

LEMMA CollectNext == Base /\ CollectInv /\ [RequestsNext]_requestVars => CollectInv'
<1> SUFFICES ASSUME Base, CollectInv, [RequestsNext]_requestVars, Doing("collect")'
             PROVE  /\ job'.erased \subseteq 1..seq'
                    /\ job'.erased \cap payloads' = {}
                    /\ job'.step \in {"vacuum", "done"} => job'.erased \cap residue' = {}
  BY DEF CollectInv
<1>1. Base'
  BY BaseNext
<1>2. ASSUME NEW p \in Principals, StartCollect(p)
      PROVE  /\ job'.erased = residue' /\ job'.step = "checkpoint"
  BY <1>2 DEF StartCollect
<1>3. CASE OtherCaller
  <2>1. job' = job /\ Doing("collect")
    BY <1>3, OtherCallerKeepsJob DEF Doing
  <2>2. /\ seq \in Nat /\ seq' \in Nat /\ seq' >= seq
        /\ \A i \in payloads' : i \in payloads \/ i > seq
    BY <1>1, <1>3, BaseIds, NextKeeps DEF Base, StoreKeeps, OtherCaller, IInv, TypeOK
  <2>3. 1..seq \subseteq 1..seq' /\ \A i \in 1..seq : ~(i > seq)
    BY <2>2
  <2>4. residue' = residue \cup (payloads \ payloads')
    BY <1>3 DEF OtherCaller
  <2> QED BY <2>1, <2>2, <2>3, <2>4 DEF CollectInv
<1>4. CASE UNCHANGED vars /\ (Checkpoint \/ Vacuum)
  <2>1. job \in Collecting /\ Doing("collect")
    BY <1>4, JobTypes DEF Base, Checkpoint, Vacuum
  <2>2. job'.erased = job.erased
    BY <1>4, <2>1 DEF Checkpoint, Vacuum, Collecting
  <2>3. job'.step \in {"vacuum", "done"} => job.erased \cap residue' = {}
    BY <1>4, <2>1 DEF Checkpoint, Vacuum, Collecting, CollectInv, Reads
  <2> QED BY <1>4, <2>1, <2>2, <2>3 DEF CollectInv, vars, eventVars
<1>5. CASE UNCHANGED requestVars
  BY <1>5 DEF requestVars, vars, eventVars, CollectInv, Doing
<1>6. CASE \E p \in Principals : StartCollect(p)
  <2>1. job'.erased = residue' /\ job'.step = "checkpoint"
    BY <1>2, <1>6
  <2> QED BY <1>1, <2>1 DEF Base, RequestsTypeOK
<1>7. ~Doing("create")' /\ ~Doing("read")' /\ ~Doing("view")'
  BY DEF Doing
<1> QED BY <1>3, <1>4, <1>5, <1>6, <1>7, StepKinds

\* A collection reports success only after the file and its WAL are rid of
\* what it erased and of what an earlier, failed collection left behind.
THEOREM CollectCorrect == RequestsSpec => []DoneMeansErased
<1>1. RequestsInit => CollectInv
  BY DEF RequestsInit, CollectInv, Doing, NoJob
<1>2. CollectInv => DoneMeansErased
  BY DEF CollectInv, DoneMeansErased
<1> QED BY <1>1, <1>2, BaseInvariance, CollectNext, PTL DEF RequestsSpec
------------------------------------------------------------------------------
\* The owner's page.  What it has gathered is true of the tables, or of events
\* that are gone: ids grow, so no later event stands under a gathered id.
ViewInv ==
  Doing("view") =>
    /\ job.thread \in minted
    /\ \A i \in job.hidden \cup job.had : i <= seq
    /\ \A x \in job.shown : x[1] <= seq
    /\ \A s \in job.source : s.id <= seq
    /\ \A e \in events : e.id \in job.hidden => Hidden(e)
    /\ \A x \in job.shown : x[2] = "content" => x[1] \notin job.hidden
    /\ \A s \in job.source : s.view = "content" => s.id \notin job.hidden
    /\ \A x \in job.shown, e \in events : e.id = x[1] => OwnedBy(e.thread, job.owner)
    /\ \A s \in job.source, e \in events : e.id = s.id => e.thread = s.thread
    /\ job.thread \in threads =>
         /\ OwnedBy(job.thread, job.owner)
         /\ job.step # "sources" => job.had \subseteq IdsOf({job.thread})
         /\ job.step = "sources" => \A i \in job.had : \E x \in job.shown : x[1] = i

LEMMA ViewStarts ==
  ASSUME Base, NEW t \in Threads, NEW p \in Principals, StartView(t, p)
  PROVE  ViewInv'
<1>1. /\ job'.thread = t /\ job'.owner = p /\ job'.step = "grants"
      /\ job'.hidden = {e.id : e \in {f \in events : Hidden(f)}}
      /\ job'.had = IdsOf({t}) /\ job'.shown = {} /\ job'.source = {}
      /\ UNCHANGED vars /\ OwnedBy(t, p)
  BY DEF StartView, Reads
<1>2. UNCHANGED <<minted, threads, owner, marked, events, payloads, deletions, seq>>
  BY <1>1 DEF vars, threadVars, eventVars
<1>3. \A e \in events : e.id <= seq /\ (Hidden(e)' <=> Hidden(e))
  BY <1>2, HiddenUnfolds, BaseIds
<1>4. \A i \in job'.hidden \cup job'.had : i <= seq'
  BY <1>1, <1>2, <1>3 DEF IdsOf, EventsOf
<1>5. \A e \in events' : e.id \in job'.hidden => Hidden(e)'
  <2>1. \A e, f \in events : e.id = f.id => e = f
    BY DEF Base, IInv, IdsAreKeys
  <2> QED BY <1>1, <1>2, <1>3, <2>1
<1>6. t \in minted /\ OwnedBy(t, p)' /\ IdsOf({t})' = IdsOf({t})
  BY <1>1, <1>2 DEF Base, IInv, TypeOK, OwnedBy, IdsOf, EventsOf
<1> QED BY <1>1, <1>2, <1>4, <1>5, <1>6 DEF ViewInv, OwnedBy, IdsOf, EventsOf

\* An event that was hidden when the request came shows no content.
LEMMA HiddenShowsNothing ==
  ASSUME ViewInv, Doing("view"), NEW e \in events, ScanEvent(e) = "content"
  PROVE  e.id \notin job.hidden
  BY DEF ViewInv, Hidden

\* The steps of the request, on tables that they do not write.
LEMMA ViewGathers ==
  ASSUME Base, ViewInv,
         ViewGrants \/ ViewEvents \/ ViewSourceOwner \/ \E r \in Ids : ViewSource(r)
  PROVE  ViewInv'
<1>1. job \in Viewing /\ Doing("view") /\ UNCHANGED vars
  BY JobTypes DEF Base, ViewGrants, ViewEvents, ViewSourceOwner, ViewSource, Reads
<1>2. UNCHANGED <<minted, threads, owner, marked, events, payloads, deletions, seq>>
  BY <1>1 DEF vars, threadVars, eventVars
<1>3. PICK t \in Threads, p \in Principals :
        /\ job.thread = t /\ job.owner = p /\ job'.thread = t /\ job'.owner = p
        /\ job'.hidden = job.hidden /\ job'.had = job.had
  BY <1>1 DEF ViewGrants, ViewEvents, ViewSourceOwner, ViewSource, Viewing
<1>4. /\ t \in minted
      /\ \A i \in job'.hidden \cup job'.had : i <= seq'
      /\ \A e \in events' : e.id \in job'.hidden => Hidden(e)'
      /\ t \in threads' => OwnedBy(t, p)'
  BY <1>1, <1>2, <1>3, HiddenUnfolds DEF ViewInv, OwnedBy
<1>5. \A e, f \in events : e.id <= seq /\ (e.id = f.id => e = f)
  BY BaseIds DEF Base, IInv, IdsAreKeys
<1>6. \A x \in job.shown : /\ x[1] <= seq
                           /\ x[2] = "content" => x[1] \notin job.hidden
                           /\ \A e \in events : e.id = x[1] => OwnedBy(e.thread, p)
  BY <1>1, <1>3 DEF ViewInv
<1>7. \A s \in job.source : /\ s.id <= seq
                            /\ s.view = "content" => s.id \notin job.hidden
                            /\ \A e \in events : e.id = s.id => e.thread = s.thread
  BY <1>1 DEF ViewInv
<1>8. /\ \A x \in job'.shown : /\ x[1] <= seq
                               /\ x[2] = "content" => x[1] \notin job.hidden
                               /\ \A e \in events : e.id = x[1] => OwnedBy(e.thread, p)
      /\ \A s \in job'.source : /\ s.id <= seq
                                /\ s.view = "content" => s.id \notin job.hidden
                                /\ \A e \in events : e.id = s.id => e.thread = s.thread
      /\ t \in threads /\ job'.step # "sources" => job.had \subseteq IdsOf({t})
      /\ t \in threads /\ job'.step = "sources" => \A i \in job.had : \E x \in job'.shown : x[1] = i
  <2>1. CASE ViewEvents
    <3>1. /\ job'.shown = {<<e.id, ScanEvent(e)>> : e \in EventsOf({t})}
          /\ job'.source = job.source /\ job'.step = "sources" /\ job.step = "events"
      BY <1>1, <1>3, <2>1 DEF ViewEvents, Viewing
    <3>2. \A e \in EventsOf({t}) : /\ e \in events /\ OwnedBy(e.thread, p)
                                   /\ ScanEvent(e) = "content" => e.id \notin job.hidden
      BY <1>1, <1>3, HiddenShowsNothing DEF EventsOf, ViewInv, Base, IInv, NoOrphans
    <3>3. \A x \in job'.shown : /\ x[1] <= seq
                                /\ x[2] = "content" => x[1] \notin job.hidden
                                /\ \A e \in events : e.id = x[1] => OwnedBy(e.thread, p)
      <4>1. \A x \in job'.shown : \E e \in EventsOf({t}) :
              x[1] = e.id /\ x[2] = ScanEvent(e)
        <5>1. \A x \in job'.shown : \E e \in EventsOf({t}) : x = <<e.id, ScanEvent(e)>>
          BY <3>1, Zenon
        <5> QED BY <5>1
      <4> QED BY <1>5, <3>2, <4>1
    <3>4. t \in threads => \A i \in job.had : \E x \in job'.shown : x[1] = i
      <4>1. t \in threads => job.had \subseteq IdsOf({t})
        BY <1>1, <1>3, <3>1 DEF ViewInv
      <4>2. \A e \in EventsOf({t}) : <<e.id, ScanEvent(e)>> \in job'.shown
        BY <3>1
      <4>3. \A e \in EventsOf({t}) : \E x \in job'.shown : x[1] = e.id
        BY <4>2
      <4> QED BY <4>1, <4>3 DEF IdsOf
    <3> QED BY <1>7, <3>1, <3>3, <3>4
  <2>2. CASE ViewSourceOwner
    <3>1. /\ job'.shown = job.shown \cup {<<s.id, s.view>> :
                                            s \in {x \in job.source : OwnedBy(x.thread, p)}}
          /\ job'.source = {} /\ job'.step = job.step
      BY <1>1, <1>3, <2>2 DEF ViewSourceOwner, Viewing
    <3>2. \A x \in job'.shown :
            \/ x \in job.shown
            \/ \E s \in job.source : x = <<s.id, s.view>> /\ OwnedBy(s.thread, p)
      BY <3>1
    <3>3. \A x \in job'.shown : /\ x[1] <= seq
                                /\ x[2] = "content" => x[1] \notin job.hidden
                                /\ \A e \in events : e.id = x[1] => OwnedBy(e.thread, p)
      BY <1>6, <1>7, <3>2
    <3>4. /\ t \in threads /\ job.step # "sources" => job.had \subseteq IdsOf({t})
          /\ t \in threads /\ job.step = "sources" =>
               \A i \in job.had : \E x \in job.shown : x[1] = i
      BY <1>1, <1>3 DEF ViewInv
    <3>5. job.shown \subseteq job'.shown
      BY <3>1
    <3> QED BY <3>1, <3>3, <3>4, <3>5
  <2>3. ASSUME NEW r \in Ids, ViewSource(r) PROVE <1>8!:
    <3>1. job'.shown = job.shown /\ job'.source = SourceRow(r) /\ job'.step = job.step
      BY <1>1, <2>3 DEF ViewSource, Viewing
    <3>2. \A s \in SourceRow(r) : \E e \in events :
            e.id = s.id /\ e.thread = s.thread /\ ScanEvent(e) = s.view
      BY DEF SourceRow
    <3>3. \A s \in SourceRow(r) : /\ s.id <= seq
                                  /\ s.view = "content" => s.id \notin job.hidden
                                  /\ \A e \in events : e.id = s.id => e.thread = s.thread
      BY <1>1, <1>5, <3>2, HiddenShowsNothing
    <3> QED BY <1>1, <1>3, <1>6, <3>1, <3>3 DEF ViewInv
  <2>4. CASE ViewGrants
    <3>1. /\ job'.shown = job.shown /\ job'.source = job.source
          /\ job.step = "grants" /\ job'.step = "events"
      BY <1>1, <2>4 DEF ViewGrants, Viewing
    <3> QED BY <1>1, <1>3, <1>6, <1>7, <3>1 DEF ViewInv
  <2> QED BY <2>1, <2>2, <2>3, <2>4
<1> QED BY <1>2, <1>3, <1>4, <1>8 DEF ViewInv, OwnedBy, IdsOf, EventsOf

\* Other callers only add events above the gathered ids, take whole threads,
\* and hide more.
LEMMA ViewDisturbed ==
  ASSUME Base, ViewInv, OtherCaller, Doing("view"), job' = job
  PROVE  ViewInv'
<1>1. StoreKeeps /\ IInv' /\ IInv
  BY NextKeeps, NextInv DEF Base, OtherCaller
<1>2. job \in Viewing
  BY JobTypes DEF Base
<1>3. PICK t \in Threads, p \in Principals : job.thread = t /\ job.owner = p
  BY <1>2 DEF Viewing
<1>4. p # NoPrincipal
  BY NoPrincipalAssumption
<1>5. ASSUME NEW u, OwnedBy(u, p), u \in threads'
      PROVE  OwnedBy(u, p)'
  BY <1>1, <1>4, <1>5 DEF OwnedBy, StoreKeeps, IInv, TypeOK
<1>6. \A i \in Ids : i <= seq => i <= seq'
  <2>1. seq \in Nat /\ seq' \in Nat /\ seq' >= seq
    BY <1>1 DEF IInv, TypeOK, StoreKeeps
  <2>2. \A i \in Ids : i \in Nat
    BY IdsFinite
  <2> QED BY <2>1, <2>2
<1>7. ASSUME NEW i \in Ids, i <= seq, NEW e \in events', e.id = i
      PROVE  e \in events
  <2>1. i \in Nat /\ seq \in Nat
    BY IdsFinite, BaseIds
  <2>2. ~(e.id > seq)
    BY <1>7, <2>1
  <2> QED BY <1>1, <2>2 DEF StoreKeeps
<1>8. \A e \in events' : e.thread \in threads'
  BY <1>1 DEF IInv, NoOrphans
<1>9. /\ job.hidden \in SUBSET Ids /\ job.had \in SUBSET Ids
      /\ \A x \in job.shown : x[1] \in Ids
      /\ \A s \in job.source : s.id \in Ids
  BY <1>2 DEF Viewing
<1>10. /\ t \in minted'
       /\ \A i \in job.hidden \cup job.had : i <= seq'
       /\ \A x \in job.shown : x[1] <= seq'
       /\ \A s \in job.source : s.id <= seq'
  BY <1>1, <1>3, <1>6, <1>9 DEF ViewInv, StoreKeeps
<1>11. \A e \in events' : e.id \in job.hidden => Hidden(e)'
  <2> SUFFICES ASSUME NEW e \in events', e.id \in job.hidden PROVE Hidden(e)'
    OBVIOUS
  <2>1. e \in events
    BY <1>7, <1>9 DEF ViewInv
  <2> QED BY <1>1, <2>1 DEF ViewInv, StoreKeeps
<1>12. \A x \in job.shown, e \in events' : e.id = x[1] => OwnedBy(e.thread, p)'
  <2> SUFFICES ASSUME NEW x \in job.shown, NEW e \in events', e.id = x[1]
               PROVE  OwnedBy(e.thread, p)'
    OBVIOUS
  <2>1. e \in events
    BY <1>7, <1>9 DEF ViewInv
  <2>2. OwnedBy(e.thread, p)
    BY <1>3, <2>1 DEF ViewInv
  <2> QED BY <1>5, <1>8, <2>2
<1>13. \A s \in job.source, e \in events' : e.id = s.id => e.thread = s.thread
  <2> SUFFICES ASSUME NEW s \in job.source, NEW e \in events', e.id = s.id
               PROVE  e.thread = s.thread
    OBVIOUS
  <2>1. e \in events
    BY <1>7, <1>9 DEF ViewInv
  <2> QED BY <2>1 DEF ViewInv
<1>14. t \in threads' =>
         /\ OwnedBy(t, p)'
         /\ job.step # "sources" => job.had \subseteq IdsOf({t})'
         /\ job.step = "sources" => \A i \in job.had : \E x \in job.shown : x[1] = i
  <2> SUFFICES ASSUME t \in threads'
               PROVE  /\ OwnedBy(t, p)'
                      /\ job.step # "sources" => job.had \subseteq IdsOf({t})'
                      /\ job.step = "sources" =>
                           \A i \in job.had : \E x \in job.shown : x[1] = i
    OBVIOUS
  <2>1. t \in threads
    BY <1>1, <1>3 DEF ViewInv, StoreKeeps
  <2>2. IdsOf({t}) \subseteq IdsOf({t})'
    BY <1>1 DEF IdsOf, EventsOf, StoreKeeps
  <2> QED BY <1>3, <1>5, <2>1, <2>2 DEF ViewInv
<1>15. /\ \A x \in job.shown : x[2] = "content" => x[1] \notin job.hidden
       /\ \A s \in job.source : s.view = "content" => s.id \notin job.hidden
  BY DEF ViewInv
<1> QED BY <1>3, <1>10, <1>11, <1>12, <1>13, <1>14, <1>15
        DEF ViewInv, OwnedBy, IdsOf, EventsOf

LEMMA ViewNext == Base /\ ViewInv /\ [RequestsNext]_requestVars => ViewInv'
<1> SUFFICES ASSUME Base, ViewInv, [RequestsNext]_requestVars, Doing("view")'
             PROVE  ViewInv'
  BY DEF ViewInv
<1>1. CASE OtherCaller
  BY <1>1, OtherCallerKeepsJob, ViewDisturbed DEF Doing
<1>2. CASE UNCHANGED requestVars
  <2>1. UNCHANGED <<minted, threads, owner, marked, events, payloads, deletions, seq, job>>
    BY <1>2 DEF requestVars, vars, threadVars, eventVars
  <2> QED BY <2>1, HiddenUnfolds DEF ViewInv, Doing, OwnedBy, IdsOf, EventsOf
<1>3. ~Doing("create")' /\ ~Doing("read")' /\ ~Doing("collect")'
  BY DEF Doing
<1> QED BY <1>1, <1>2, <1>3, StepKinds, ViewStarts, ViewGathers

\* The owner's page, read without a transaction, shows no content that was
\* hidden when it was asked for and no other owner's event, and it is complete
\* unless its thread was collected meanwhile.
THEOREM PageCorrect == RequestsSpec => []PageHonoursMarks
<1>1. RequestsInit => ViewInv
  BY DEF RequestsInit, ViewInv, Doing, NoJob
<1>2. ViewInv => PageHonoursMarks
  BY DEF ViewInv, PageHonoursMarks, Finished, Doing
<1> QED BY <1>1, <1>2, BaseInvariance, ViewNext, PTL DEF RequestsSpec
------------------------------------------------------------------------------
\* The head of the page.  Until the query the list that it will find lies
\* between the two histories, whatever is granted and revoked.
HeadInv ==
  Doing("view") =>
    /\ job.step = "grants" =>
         /\ GrantedOn(job.thread) \subseteq head.held
         /\ head.kept \subseteq GrantedOn(job.thread)
    /\ job.step = "events" =>
         /\ head.granted \subseteq head.held
         /\ head.kept \subseteq head.granted

LEMMA HeadNext == Base /\ HeadInv /\ [RequestsNext]_requestVars => HeadInv'
<1> SUFFICES ASSUME Base, HeadInv, [RequestsNext]_requestVars, Doing("view")'
             PROVE  HeadInv'
  BY DEF HeadInv
<1>1. head \in Heads
  BY DEF Base, RequestsTypeOK
<1>2. CASE OtherCaller
  <2>1. job' = job /\ Doing("view")
    BY <1>2, OtherCallerKeepsJob DEF Doing
  <2>2. CASE job.step = "grants"
    <3>1. head' = [head EXCEPT !.held = @ \cup GrantedOn(job.thread)',
                               !.kept = @ \cap GrantedOn(job.thread)']
      BY <1>2, <2>1, <2>2 DEF OtherCaller
    <3>2. /\ GrantedOn(job.thread)' \subseteq head'.held
          /\ head'.kept \subseteq GrantedOn(job.thread)'
      BY <1>1, <3>1 DEF Heads
    <3> QED BY <2>1, <2>2, <3>2 DEF HeadInv
  <2>3. CASE job.step # "grants"
    <3>1. head' = head
      BY <1>2, <2>3 DEF OtherCaller
    <3> QED BY <2>1, <2>3, <3>1 DEF HeadInv
  <2> QED BY <2>2, <2>3
<1>3. CASE UNCHANGED requestVars
  BY <1>3 DEF requestVars, vars, HeadInv, Doing, GrantedOn
<1>4. ASSUME NEW t \in Threads, NEW p \in Principals, StartView(t, p), Reads
      PROVE  HeadInv'
  <2>1. /\ job'.thread = t /\ job'.step = "grants"
        /\ head' = [NoHead EXCEPT !.held = GrantedOn(t), !.kept = GrantedOn(t)]
        /\ UNCHANGED acl
    BY <1>4 DEF StartView, Reads, vars
  <2>2. head'.held = GrantedOn(t) /\ head'.kept = GrantedOn(t)
    BY <2>1 DEF NoHead
  <2>3. GrantedOn(t)' = GrantedOn(t)
    BY <2>1 DEF GrantedOn
  <2> QED BY <2>1, <2>2, <2>3 DEF HeadInv, GrantedOn
<1>5. CASE ViewGrants
  <2>1. job \in Viewing /\ Doing("view") /\ job.step = "grants"
    BY <1>5, JobTypes DEF ViewGrants, Base
  <2>2. job'.step = "events"
    BY <1>5, <2>1 DEF ViewGrants, Viewing
  <2>3. /\ head'.granted = GrantedOn(job.thread)
        /\ head'.held = head.held /\ head'.kept = head.kept
    BY <1>1, <1>5 DEF ViewGrants, GrantsRead, Heads
  <2> QED BY <2>1, <2>2, <2>3 DEF HeadInv
<1>6. CASE ViewEvents \/ ViewSourceOwner \/ \E r \in Ids : ViewSource(r)
  <2>1. job \in Viewing
    BY <1>6, JobTypes DEF ViewEvents, ViewSourceOwner, ViewSource, Base
  <2>2. \/ job'.step = "sources"
        \/ job'.step = job.step /\ job'.thread = job.thread /\ UNCHANGED <<acl, head>>
    BY <1>6, <2>1 DEF ViewEvents, ViewSourceOwner, ViewSource, Viewing, Reads, vars
  <2>3. Doing("view")
    BY <1>6 DEF ViewEvents, ViewSourceOwner, ViewSource
  <2> QED BY <2>2, <2>3 DEF HeadInv, GrantedOn
<1>7. ~Doing("create")' /\ ~Doing("read")' /\ ~Doing("collect")'
  BY DEF Doing
<1> QED BY <1>2, <1>3, <1>4, <1>5, <1>6, <1>7, StepKinds

\* Whom the page lists had access at some moment between the request and the
\* query, and who had it all that time is listed.
THEOREM HeadCorrect == RequestsSpec => []PageHonoursGrants
<1>1. RequestsInit => HeadInv
  BY DEF RequestsInit, HeadInv, Doing, NoJob
<1>2. HeadInv => PageHonoursGrants
  BY DEF HeadInv, PageHonoursGrants
<1> QED BY <1>1, <1>2, BaseInvariance, HeadNext, PTL DEF RequestsSpec
------------------------------------------------------------------------------
\* Paging.  What was seen is the upper part of the first page's thread, cut at
\* before_id; below the cut the thread still has what it had then, for as long
\* as it has a row.
Below(ids, n)  == {i \in ids : i < n}
FromUp(ids, n) == {i \in ids : i >= n}

ReadInv ==
  Doing("read") =>
    /\ job.thread \in minted
    /\ job.before <= seq
    /\ job.seen = FromUp(job.first, job.before)
    /\ job.thread \in threads =>
         Below(IdsOf({job.thread}), job.before) = Below(job.first, job.before)
    /\ IF job.more THEN Cardinality(job.seen) = job.pages * PageSize
                   ELSE job.seen = job.first

\* A page of what is below before_id moves the cut to the page's lowest id.
LEMMA PageMovesCut ==
  ASSUME NEW first \in SUBSET Ids, NEW before \in Ids,
         NEW page, page = Newest(Below(first, before)), page # {},
         NEW low, low = Lowest(page, before)
  PROVE  /\ low \in page /\ low < before
         /\ FromUp(first, before) \cup page = FromUp(first, low)
         /\ FromUp(first, before) \cap page = {}
         /\ Cardinality(page) # PageSize => FromUp(first, low) = first
         /\ Below(first, low) = Below(Below(first, before), low)
<1> DEFINE S == Below(first, before)
<1>1. /\ S \in SUBSET Ids /\ page \in SUBSET S /\ page \in SUBSET Nat
      /\ \A i \in first : i \in Nat
      /\ before \in Nat
  <2>1. S \in SUBSET Ids /\ page \in SUBSET S
    BY NewestWithin DEF Below
  <2> QED BY <2>1, IdsFinite
<1>2. low \in page /\ \A i \in page : low <= i
  BY <1>1, LowestIsLeast
<1>3. \A j \in S : j > low => j \in page
  BY <1>1, <1>2, NewestIsUpper
<1>4. Cardinality(page) # PageSize => page = S
  BY <1>1, NewestIsFull
<1>5. \A i \in S : i \in first /\ i < before
  BY DEF Below
<1>6. \A i \in first : i \in S <=> i < before
  BY DEF Below
<1>7. low \in Nat /\ low < before /\ low \in S
  BY <1>1, <1>2, <1>5
<1>8. \A i \in first : i \in page <=> i < before /\ i >= low
  BY <1>1, <1>2, <1>3, <1>6, <1>7
<1> HIDE DEF S
<1>9. \A i \in first : i >= low <=> i >= before \/ i \in page
  BY <1>1, <1>7, <1>8
<1>10. FromUp(first, before) \cup page = FromUp(first, low)
  BY <1>1, <1>5, <1>9 DEF FromUp
<1>11. FromUp(first, before) \cap page = {}
  BY <1>1, <1>5 DEF FromUp
<1>12. Cardinality(page) # PageSize => FromUp(first, low) = first
  <2> SUFFICES ASSUME page = S PROVE FromUp(first, low) = first
    BY <1>4
  <2>1. \A i \in first : i >= low
    BY <1>1, <1>2, <1>6, <1>9
  <2> QED BY <2>1 DEF FromUp
<1>13. Below(first, low) = Below(Below(first, before), low)
  <2>1. \A i \in first : i < low => i < before
    BY <1>1, <1>7
  <2> QED BY <2>1 DEF Below
<1> QED BY <1>2, <1>7, <1>10, <1>11, <1>12, <1>13

LEMMA ReadStarts ==
  ASSUME Base, NEW t \in Threads, NEW p \in Principals, NEW a \in Labels, StartRead(t, p, a)
  PROVE  ReadInv'
<1> DEFINE first == IdsOf({t})
           page == Newest(first)
           low == Lowest(page, 1)
<1>1. /\ job'.thread = t /\ job'.first = first /\ job'.seen = page /\ job'.before = low
      /\ job'.pages = 1 /\ job'.more = (Cardinality(page) = PageSize)
      /\ page # {} /\ Authorized(t, p, a) /\ UNCHANGED vars
  BY DEF StartRead, Reads
<1>2. UNCHANGED <<minted, threads, events, seq>> /\ t \in minted
  BY <1>1 DEF vars, threadVars, eventVars, Authorized, Open, Base, IInv, TypeOK
<1>3. first \in SUBSET Ids /\ \A i \in first : i <= seq
  BY BaseIds DEF Base, IInv, TypeOK, EventRows, IdsOf, EventsOf
<1>4. page \in SUBSET first /\ page \in SUBSET Nat /\ \A i \in first : i \in Nat
  <2>1. page \in SUBSET first
    BY NewestWithin
  <2> HIDE DEF first, page
  <2> QED BY <1>3, <2>1, IdsFinite
<1>5. low \in page /\ \A i \in page : low <= i
  <2> HIDE DEF page
  <2> QED BY <1>1, <1>4, LowestIsLeast
<1>6. \A j \in first : j > low => j \in page
  <2> HIDE DEF first
  <2> QED BY <1>3, <1>5, NewestIsUpper
<1>7. Cardinality(page) # PageSize => page = first
  <2> HIDE DEF first
  <2> QED BY <1>3, NewestIsFull
<1>8. IdsOf({t})' = first
  BY <1>2 DEF IdsOf, EventsOf
<1> HIDE DEF first, page, low
<1>9. page = FromUp(first, low)
  <2>1. \A i \in first : i \in page <=> i >= low
    BY <1>4, <1>5, <1>6
  <2> QED BY <1>4, <2>1 DEF FromUp
<1>10. low <= seq
  BY <1>3, <1>4, <1>5
<1>11. IF Cardinality(page) = PageSize THEN Cardinality(page) = 1 * PageSize ELSE page = first
  BY <1>7, PageSizeAssumption
<1> QED BY <1>1, <1>2, <1>8, <1>9, <1>10, <1>11 DEF ReadInv, IdsOf, EventsOf

LEMMA ReadContinues ==
  ASSUME Base, ReadInv, ReadMore
  PROVE  ReadInv'
<1>1. job \in Reading /\ Doing("read") /\ job.more = TRUE /\ UNCHANGED vars
  BY JobTypes DEF Base, ReadMore, Reads, Reading
<1>2. PICK t \in Threads, first \in SUBSET Ids, seen \in SUBSET Ids, before \in Ids,
           pages \in Nat :
        /\ job.thread = t /\ job.first = first /\ job.seen = seen /\ job.before = before
        /\ job.pages = pages
  BY <1>1 DEF Reading
<1> DEFINE page == Page(t, before)
           low == Lowest(page, before)
<1>3. /\ job'.thread = t /\ job'.first = first /\ job'.seen = seen \cup page
      /\ job'.before = low /\ job'.pages = pages + 1
      /\ job'.more = (Cardinality(page) = PageSize)
  BY <1>1, <1>2, Zenon DEF ReadMore, Reading
<1>4. UNCHANGED <<minted, threads, events, seq>> /\ t \in threads
  BY <1>1, <1>2 DEF vars, threadVars, eventVars, ReadMore, Authorized, Open
<1>5. /\ t \in minted /\ before <= seq /\ seen = FromUp(first, before)
      /\ Below(IdsOf({t}), before) = Below(first, before)
      /\ Cardinality(seen) = pages * PageSize
  BY <1>1, <1>2, <1>4 DEF ReadInv
<1>6. page = Newest(Below(first, before))
  BY <1>5 DEF Page, Below
<1>7. IdsOf({t})' = IdsOf({t}) /\ IdsOf({t}) \in SUBSET Ids
  BY <1>4 DEF IdsOf, EventsOf, Base, IInv, TypeOK, EventRows
<1> HIDE DEF page, low
<1>8. CASE page = {}
  <2>1. Below(first, before) \in SUBSET Ids
    BY DEF Below
  <2>2. Below(first, before) = {}
    BY <1>6, <1>8, <2>1, NewestNotEmpty
  <2>3. low = before
    BY <1>8, LowestIsLeast DEF low
  <2>4. Cardinality(page) # PageSize
    BY <1>8, FS_EmptySet, PageSizeAssumption
  <2>5. FromUp(first, before) = first
    <3>1. \A i \in first : i \in Nat /\ before \in Nat /\ ~(i < before)
      BY <2>2, IdsFinite DEF Below
    <3>2. \A i \in first : i >= before
      BY <3>1
    <3> QED BY <3>2 DEF FromUp
  <2> QED BY <1>3, <1>4, <1>5, <1>7, <1>8, <2>3, <2>4, <2>5 DEF ReadInv, IdsOf, EventsOf
<1>9. CASE page # {}
  <2>1. /\ low \in page /\ low < before
        /\ FromUp(first, before) \cup page = FromUp(first, low)
        /\ FromUp(first, before) \cap page = {}
        /\ Cardinality(page) # PageSize => FromUp(first, low) = first
        /\ Below(first, low) = Below(Below(first, before), low)
    <3>1. low = Lowest(page, before)
      BY DEF low
    <3> QED BY <1>6, <1>9, <3>1, PageMovesCut
  <2>2. low \in Nat /\ before \in Nat /\ page \in SUBSET Ids /\ seq \in Nat
    <3>1. page \in SUBSET Ids
      BY <1>6, NewestWithin DEF Below
    <3> QED BY <2>1, <3>1, IdsFinite, BaseIds
  <2>3. low <= seq
    BY <1>5, <2>1, <2>2
  <2>4. Below(IdsOf({t}), low) = Below(first, low)
    <3>1. \A i \in IdsOf({t}) : i < low => i < before
      <4>1. \A i \in IdsOf({t}) : i \in Nat
        BY <1>7, IdsFinite
      <4> QED BY <2>1, <2>2, <4>1
    <3>2. Below(IdsOf({t}), low) = Below(Below(IdsOf({t}), before), low)
      BY <3>1 DEF Below
    <3> QED BY <1>5, <2>1, <3>2
  <2>5. Cardinality(page) = PageSize => Cardinality(seen \cup page) = (pages + 1) * PageSize
    <3>1. Cardinality(seen \cup page) = Cardinality(seen) + Cardinality(page)
      <4>1. /\ IsFiniteSet(seen) /\ IsFiniteSet(page)
            /\ Cardinality(seen) \in Nat /\ Cardinality(page) \in Nat
        BY <2>2, IdsFinite
      <4>2. Cardinality(seen \cap page) = 0
        BY <1>5, <2>1, FS_EmptySet
      <4>3. Cardinality(seen \cup page) =
              Cardinality(seen) + Cardinality(page) - Cardinality(seen \cap page)
        BY <4>1, FS_Union
      <4> QED BY <4>1, <4>2, <4>3
    <3>2. pages * PageSize + PageSize = (pages + 1) * PageSize
      BY PageSizeAssumption
    <3> QED BY <1>5, <3>1, <3>2
  <2> QED BY <1>3, <1>4, <1>5, <1>7, <2>1, <2>3, <2>4, <2>5 DEF ReadInv, IdsOf, EventsOf
<1> QED BY <1>8, <1>9

\* Other callers add events above the cut, or take the whole thread.
LEMMA ReadDisturbed ==
  ASSUME Base, ReadInv, OtherCaller, Doing("read"), job' = job
  PROVE  ReadInv'
<1>1. StoreKeeps /\ IInv' /\ IInv
  BY NextKeeps, NextInv DEF Base, OtherCaller
<1>2. job \in Reading
  BY JobTypes DEF Base
<1>3. PICK t \in Threads, before \in Ids, first \in SUBSET Ids :
        job.thread = t /\ job.before = before /\ job.first = first
  BY <1>2 DEF Reading
<1>4. seq \in Nat /\ seq' \in Nat /\ seq' >= seq /\ before \in Nat /\ before <= seq
  <2>1. seq \in Nat /\ seq' \in Nat /\ seq' >= seq
    BY <1>1 DEF IInv, TypeOK, StoreKeeps
  <2>2. before \in Nat
    BY IdsFinite
  <2> QED BY <1>3, <2>1, <2>2 DEF ReadInv
<1>5. t \in minted' /\ before <= seq'
  BY <1>1, <1>3, <1>4 DEF ReadInv, StoreKeeps
<1>6. ASSUME t \in threads'
      PROVE  Below(IdsOf({t})', before) = Below(first, before)
  <2>1. t \in threads
    BY <1>1, <1>3, <1>6 DEF ReadInv, StoreKeeps
  <2>2. Below(IdsOf({t}), before) = Below(first, before)
    BY <1>3, <2>1 DEF ReadInv
  <2>3. \A e \in events : e.thread = t => e \in events'
    BY <1>1, <1>6 DEF StoreKeeps
  <2>4. \A e \in events' : e.id < before => e \in events
    <3>1. \A e \in events' : e.id \in Nat
      BY <1>1, IdsFinite DEF IInv, TypeOK, EventRows
    <3>2. \A e \in events' : e.id < before => ~(e.id > seq)
      BY <1>4, <3>1
    <3> QED BY <1>1, <3>2 DEF StoreKeeps
  <2>5. Below(IdsOf({t})', before) = Below(IdsOf({t}), before)
    BY <2>3, <2>4 DEF Below, IdsOf, EventsOf
  <2> QED BY <2>2, <2>5
<1> QED BY <1>3, <1>5, <1>6 DEF ReadInv, IdsOf, EventsOf

LEMMA ReadNext == Base /\ ReadInv /\ [RequestsNext]_requestVars => ReadInv'
<1> SUFFICES ASSUME Base, ReadInv, [RequestsNext]_requestVars, Doing("read")'
             PROVE  ReadInv'
  BY DEF ReadInv
<1>1. CASE OtherCaller
  BY <1>1, OtherCallerKeepsJob, ReadDisturbed DEF Doing
<1>2. CASE UNCHANGED requestVars
  <2>1. UNCHANGED <<minted, threads, events, seq, job>>
    BY <1>2 DEF requestVars, vars, threadVars, eventVars
  <2> QED BY <2>1 DEF ReadInv, Doing, IdsOf, EventsOf
<1>3. ~Doing("create")' /\ ~Doing("view")' /\ ~Doing("collect")'
  BY DEF Doing
<1> QED BY <1>1, <1>2, <1>3, StepKinds, ReadStarts, ReadContinues

\* A client that pages back sees the thread as it was at the first page,
\* newest first, nothing twice and nothing left out, for every page size and
\* whatever is posted, marked or collected between its pages.
THEOREM PagingCorrect == RequestsSpec => []PagesCoverHistory
<1>1. RequestsInit => ReadInv
  BY DEF RequestsInit, ReadInv, Doing, NoJob
<1>2. Base /\ ReadInv => PagesCoverHistory
  <2> SUFFICES ASSUME Base, ReadInv, Doing("read") PROVE PagesCoverHistory
    BY DEF PagesCoverHistory
  <2>1. job \in Reading
    BY JobTypes DEF Base
  <2>2. /\ \A i \in job.first : i \in Nat
        /\ job.before \in Nat
    BY <2>1, IdsFinite DEF Reading
  <2>3. job.seen = FromUp(job.first, job.before)
    BY DEF ReadInv
  <2>4. \A i \in job.seen, j \in job.first \ job.seen : i > j
    BY <2>2, <2>3 DEF FromUp
  <2> QED BY <2>3, <2>4 DEF PagesCoverHistory, ReadInv, FromUp
<1> QED BY <1>1, <1>2, BaseInvariance, ReadNext, PTL DEF RequestsSpec
==============================================================================

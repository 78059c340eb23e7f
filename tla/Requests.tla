------------------------------- MODULE Requests -------------------------------
(***************************************************************************)
(* Requests that take several transactions of the thread store, and what   *)
(* other callers do to them in between:                                    *)
(*   create   the web form for a new thread, one grant per chosen actor    *)
(*            (web.go, handleWebThreads);                                  *)
(*   read     an MCP client that pages back through a thread with          *)
(*            before_id (store.go, GetThread);                             *)
(*   view     the owner's page, whose queries run outside a transaction    *)
(*            (owner.go, GetOwnerThread);                                  *)
(*   collect  a collection with the compaction after its commit            *)
(*            (owner.go, GarbageCollect).                                  *)
(* One of them is under way at a time; all others are whole steps of       *)
(* ThreadStore, which come between any two of its steps.                   *)
(***************************************************************************)
EXTENDS ThreadStore

CONSTANT PageSize   \* limit of the paging client

ASSUME PageSizeAssumption == PageSize \in Nat \ {0}

VARIABLES
  job,      \* what the request holds between its steps
  head,     \* who has access, at the head of the page a view puts together
  residue   \* events whose erased content is still in the file or its WAL

requestVars == <<vars, job, head, residue>>

NoJob == [kind |-> "none"]

Views == {"content", "none", "marked", "purged"}

Creating ==
  [kind : {"create"}, thread : Threads, owner : Principals,
   chosen : SUBSET Labels,  \* actors ticked in the form
   todo   : SUBSET Labels,  \* those the loop has not come to
   lost   : SUBSET Labels]  \* history: not to be granted, taken away since, or
                            \* whose grant met an error that was no refusal

Reading ==
  [kind : {"read"}, thread : Threads, principal : Principals, actor : Labels,
   first  : SUBSET Ids,     \* history: the thread's events at the first page
   seen   : SUBSET Ids, before : Ids, pages : Nat, more : BOOLEAN]

Viewing ==
  [kind : {"view"}, thread : Threads, owner : Principals,
   hidden : SUBSET Ids,     \* history: events not to be read any more at the start
   had    : SUBSET Ids,     \* history: the thread's events at the start
   step   : {"grants", "events", "sources"}, shown : SUBSET (Ids \X Views),
   refs   : SUBSET Ids,     \* sources not looked up yet
   source : SUBSET [id : Ids, view : Views, thread : Threads]]

Collecting ==
  [kind : {"collect"}, step : {"checkpoint", "vacuum", "done", "failed"},
   erased : SUBSET Ids]     \* history: content this request has to get rid of

Heads ==
  [granted : SUBSET Labels,  \* GrantedActors
   held    : SUBSET Labels,  \* history: had access at some moment since the start
   kept    : SUBSET Labels]  \* history: had access at every moment since

NoHead == [granted |-> {}, held |-> {}, kept |-> {}]

RequestsTypeOK ==
  /\ TypeOK
  /\ head \in Heads
  /\ job \in {NoJob} \cup Creating \cup Reading \cup Viewing \cup Collecting
  /\ residue \subseteq Ids \ payloads

RequestsInit == Init /\ job = NoJob /\ head = NoHead /\ residue = {}

Doing(kind) == job.kind = kind

\* The part of a step that is no write to the tables.
Reads == UNCHANGED <<vars, residue>>

GrantedOn(t) == {g[3] : g \in {h \in acl : h[1] = t}}
------------------------------------------------------------------------------
\* Other callers.

OpenThreads == {t \in Threads : Open(t)}

LostBy(t, p, a) ==
  \/ a \notin active' \/ t \notin OpenThreads'
  \/ <<t, p, a>> \in acl \ acl'

OtherCaller ==
  /\ Next
  /\ residue' = residue \cup (payloads \ payloads')
  /\ job' = IF Doing("create")
            THEN [job EXCEPT !.lost = @ \cup
                   {a \in job.chosen : LostBy(job.thread, job.owner, a)}]
            ELSE job
  /\ head' = IF Doing("view") /\ job.step = "grants"
             THEN [head EXCEPT !.held = @ \cup GrantedOn(job.thread)',
                               !.kept = @ \cap GrantedOn(job.thread)']
             ELSE head
------------------------------------------------------------------------------
\* POST /: CreateThread, then a grant for each actor in the form.

StartCreate(t, p, chosen) ==
  /\ job = NoJob
  /\ CreateThread(t, p)
  /\ job' = [kind |-> "create", thread |-> t, owner |-> p, chosen |-> chosen,
             todo |-> chosen,
             lost |-> {a \in chosen : a \notin active \/ principalOf[a] # p}]
  /\ UNCHANGED <<head, residue>>

GrantChosen(a) ==
  /\ Doing("create") /\ a \in job.todo
  /\ GrantOwnerActor(job.thread, job.owner, a)
  /\ job' = [job EXCEPT !.todo = @ \ {a}]
  /\ UNCHANGED <<head, residue>>

\* Bug: the loop ends at the first error.
RefusedEndsLoop(a) ==
  /\ Doing("create") /\ a \in job.todo
  /\ ~OwnerMayGrant(job.thread, job.owner, a)
  /\ job' = [job EXCEPT !.todo = {}]
  /\ Reads /\ UNCHANGED head

\* Any error of a grant is dropped, and the loop goes on: here a refusal,
GrantRefused(a) ==
  /\ Doing("create") /\ a \in job.todo
  /\ ~OwnerMayGrant(job.thread, job.owner, a)
  /\ job' = [job EXCEPT !.todo = @ \ {a}]
  /\ Reads /\ UNCHANGED head

\* and here a busy database or a failing disk, whoever the actor is.
GrantFails(a) ==
  /\ Doing("create") /\ a \in job.todo
  /\ job' = [job EXCEPT !.todo = @ \ {a}, !.lost = @ \cup {a}]
  /\ Reads /\ UNCHANGED head
------------------------------------------------------------------------------
\* get_thread, again and again with before_id.

Newest(ids) == {i \in ids : Cardinality({j \in ids : j > i}) < PageSize}

\* Bug: before_id itself is returned again.
PageFrom(t, before) == Newest({i \in IdsOf({t}) : i <= before})

\* e.id < before_id, newest first, at most PageSize.
Page(t, before) == Newest({i \in IdsOf({t}) : i < before})

Lowest(ids, otherwise) ==
  IF ids = {} THEN otherwise ELSE CHOOSE i \in ids : \A j \in ids : i <= j

StartRead(t, p, a) ==
  /\ job = NoJob
  /\ Authorized(t, p, a)
  /\ LET page == Newest(IdsOf({t})) IN
     /\ page # {}
     /\ job' = [kind |-> "read", thread |-> t, principal |-> p, actor |-> a,
                first |-> IdsOf({t}), seen |-> page, before |-> Lowest(page, 1),
                pages |-> 1, more |-> Cardinality(page) = PageSize]
  /\ Reads /\ UNCHANGED head

ReadMore ==
  /\ Doing("read") /\ job.more
  /\ Authorized(job.thread, job.principal, job.actor)
  /\ LET page == Page(job.thread, job.before) IN
     job' = [job EXCEPT !.seen = @ \cup page, !.before = Lowest(page, job.before),
                        !.pages = @ + 1, !.more = Cardinality(page) = PageSize]
  /\ Reads /\ UNCHANGED head

ReadForbidden ==
  /\ Doing("read") /\ job.more
  /\ ~Authorized(job.thread, job.principal, job.actor)
  /\ job' = NoJob
  /\ Reads /\ UNCHANGED head
------------------------------------------------------------------------------
\* GET /threads/{id}: the thread's row, its grants, its events, and for every
\* reference the source and then the source's owner.

StartView(t, p) ==
  /\ job = NoJob
  /\ OwnedBy(t, p)
  /\ job' = [kind |-> "view", thread |-> t, owner |-> p,
             hidden |-> {e.id : e \in {f \in events : Hidden(f)}},
             had |-> IdsOf({t}), step |-> "grants",
             shown |-> {}, refs |-> {}, source |-> {}]
  /\ head' = [NoHead EXCEPT !.held = GrantedOn(t), !.kept = GrantedOn(t)]
  /\ Reads

\* Bug: WHERE thread_id = ? is missing.
GrantsOfAnyThread(t) == {g[3] : g \in acl}

\* SELECT actor_label FROM thread_acl
GrantsRead(t) == GrantedOn(t)

ViewGrants ==
  /\ Doing("view") /\ job.step = "grants"
  /\ job' = [job EXCEPT !.step = "events"]
  /\ head' = [head EXCEPT !.granted = GrantsRead(job.thread)]
  /\ Reads

\* The list is final by now: it is forgotten here, for checking.
ViewEvents ==
  /\ Doing("view") /\ job.step = "events"
  /\ job' = [job EXCEPT !.step = "sources",
       !.shown = {<<e.id, ScanEvent(e)>> : e \in EventsOf({job.thread})},
       !.refs = {e.ref : e \in EventsOf({job.thread})} \ {NoRef}]
  /\ head' = NoHead
  /\ Reads

\* Bug: the payload is taken as it is.
SourceAsStored(r) ==
  {[id |-> e.id, view |-> IF e.id \in payloads THEN "content" ELSE "none",
    thread |-> e.thread] : e \in {f \in events : f.id = r}}

\* SELECT of the source: at most one row.
SourceRow(r) ==
  {[id |-> e.id, view |-> ScanEvent(e), thread |-> e.thread] :
     e \in {f \in events : f.id = r}}

ViewSource(r) ==
  /\ Doing("view") /\ job.source = {} /\ r \in job.refs
  /\ job' = [job EXCEPT !.refs = @ \ {r}, !.source = SourceRow(r)]
  /\ Reads /\ UNCHANGED head

\* Left out when its thread is gone or another owner's.
ViewSourceOwner ==
  /\ Doing("view") /\ job.source # {}
  /\ job' = [job EXCEPT !.source = {},
       !.shown = @ \cup {<<s.id, s.view>> :
                           s \in {x \in job.source : OwnedBy(x.thread, job.owner)}}]
  /\ Reads /\ UNCHANGED head
------------------------------------------------------------------------------
\* POST /gc.  secure_delete overwrites pages in the WAL; what the file and the
\* older WAL frames hold goes with a checkpoint that no reader keeps busy.

StartCollect(p) ==
  /\ job = NoJob
  /\ GarbageCollect(p)
  /\ residue' = residue \cup (payloads \ payloads')
  /\ job' = [kind |-> "collect", step |-> "checkpoint", erased |-> residue']
  /\ UNCHANGED head

\* Bug: the busy flag is not looked at.
CheckpointUnseen ==
  /\ Doing("collect") /\ job.step = "checkpoint"
  /\ residue' \in {{}, residue}
  /\ job' = [job EXCEPT !.step = "vacuum"]
  /\ UNCHANGED <<vars, head>>

Checkpoint ==
  /\ Doing("collect") /\ job.step = "checkpoint"
  /\ \/ residue' = {} /\ job' = [job EXCEPT !.step = "vacuum"]
     \/ UNCHANGED residue /\ job' = [job EXCEPT !.step = "failed"]
  /\ UNCHANGED <<vars, head>>

Vacuum ==
  /\ Doing("collect") /\ job.step = "vacuum"
  /\ \E step \in {"done", "failed"} : job' = [job EXCEPT !.step = step]
  /\ Reads /\ UNCHANGED head
------------------------------------------------------------------------------
Finished ==
  \/ Doing("create") /\ job.todo = {}
  \/ Doing("read") /\ ~job.more
  \/ Doing("view") /\ job.step = "sources" /\ job.refs = {} /\ job.source = {}
  \/ Doing("collect") /\ job.step \in {"done", "failed"}

\* The answer goes out, or the server dies: nothing else is kept of a request.
Reply == job # NoJob /\ job' = NoJob /\ head' = NoHead /\ Reads

RequestsNext ==
  \/ OtherCaller
  \/ \E t \in Threads, p \in Principals, chosen \in SUBSET Labels :
       StartCreate(t, p, chosen)
  \/ \E a \in Labels : GrantChosen(a) \/ GrantRefused(a) \/ GrantFails(a)
  \/ \E t \in Threads, p \in Principals, a \in Labels : StartRead(t, p, a)
  \/ ReadMore \/ ReadForbidden
  \/ \E t \in Threads, p \in Principals : StartView(t, p)
  \/ ViewGrants \/ ViewEvents \/ ViewSourceOwner \/ \E r \in Ids : ViewSource(r)
  \/ \E p \in Principals : StartCollect(p)
  \/ Checkpoint \/ Vacuum
  \/ Reply

RequestsSpec == RequestsInit /\ [][RequestsNext]_requestVars
------------------------------------------------------------------------------
\* After the form is worked off every chosen actor has access, except those
\* that were not the owner's active actors, or that somebody deactivated or
\* revoked, or whose thread somebody closed, while it ran, and those whose own
\* grant met a busy database or a failing disk (the form says nothing of
\* them): the dropped error of one actor costs no other one its grant.
ChosenAreGranted ==
  Doing("create") /\ Finished =>
    \A a \in job.chosen \ job.lost : <<job.thread, job.owner, a>> \in acl

\* Paging back through a thread gives the events it had at the first page,
\* newest first, each once, whatever is posted, marked or revoked meanwhile.
PagesCoverHistory ==
  Doing("read") =>
    /\ job.seen \subseteq job.first
    /\ \A i \in job.seen, j \in job.first \ job.seen : i > j
    /\ IF job.more THEN Cardinality(job.seen) = job.pages * PageSize
                   ELSE job.seen = job.first

\* The owner's page, put together from several moments: it shows no content
\* of an event hidden before the request, no event of another owner's thread,
\* and all of its thread's events unless the thread was collected.
PageHonoursMarks ==
  Doing("view") =>
    /\ \A x \in job.shown : x[2] = "content" => x[1] \notin job.hidden
    /\ \A x \in job.shown, e \in events : e.id = x[1] => OwnedBy(e.thread, job.owner)
    /\ Finished /\ job.thread \in threads =>
         \A i \in job.had : \E x \in job.shown : x[1] = i

\* The page lists who has access by a query of its own.  Nobody is listed whose
\* grant was taken away before the request, or who only has one on another
\* thread; and an actor that has access all along is listed, so the form below
\* the list does not offer it for granting again.
PageHonoursGrants ==
  Doing("view") /\ job.step = "events" =>
    /\ head.granted \subseteq head.held
    /\ head.kept \subseteq head.granted

\* "Garbage collection completed" is only said when nothing is left of the
\* content that this collection erased, nor of what an earlier one erased and
\* then failed to compact away.
DoneMeansErased == Doing("collect") /\ job.step = "done" => job.erased \cap residue = {}
==============================================================================

# neo-roundtable: TLA+ models, checks and proofs

neo-roundtable lets several AI actors of one human hold conversations in shared
threads. Actors read and post through an MCP endpoint with OAuth tokens; the
human, the *owner* of the threads, uses a small web UI; an administrator uses a
CLI. All state that matters is in one SQLite database. This directory specifies
that state and its operations, checks small instances with TLC and proves the
main results with TLAPS.

## The system

| component | where | state | operations | model |
|---|---|---|---|---|
| conversation store | `internal/store/store.go`, `owner.go` | tables `threads`, `thread_acl`, `events`, `event_payloads`, `event_deletions`, `gc_state` | create, grant, revoke, post, tombstone, mark, collect, read | `ThreadStore` |
| actor registry | `internal/store/actors.go` | table `actors` | register, rotate password, deactivate | `Actors` |
| OAuth state | `internal/store/oauthstate.go` | tables `oauth_codes`, `oauth_tokens` | put and consume codes, refresh, purge | `OAuth` |
| authorize and token handlers | `internal/server/oauth.go` | the grant a handler holds between two transactions | authorize, exchange, refresh | `OAuth` |
| failed-password limiter | `internal/server/limiter.go` | an in-memory table under a mutex | blocked, fail, reset | `Limiter` |
| client ids, redirect allowlist | `internal/server/oauth.go`, `server.go` | the allowlist of the running server (ids are signed payloads) | register, test in every handler | `Registration` |
| owner credentials and sessions | `owner.go`, `internal/server/web.go` | tables `owner_credentials`, `owner_sessions`, a cookie, open pages | set password, log in, log out | `Sessions` |
| owner web UI | `internal/server/web.go` | what a handler holds between its store calls | session and form test, then one or several store operations | `Sessions`, `Requests`, operations in `ThreadStore` |
| MCP endpoint | `internal/server/mcp.go` | the identity of each request | three tools, token test on every request | `MCPSession`, paging in `Requests` |
| CLI | `cmd/roundtable/main.go` | none of its own | opens the file, then one store operation, in its own process | in `ThreadStore`, `OAuth`, `Sessions`, `Migration`, `MCPSession` |
| schema migration | `store.go`, `migrate` | schema, `events_new` | on every open | `Migration`; `migrate-v0` in `ThreadStore` |
| compaction after a collection | `owner.go`, `GarbageCollect` | WAL and database file | checkpoint, VACUUM | `Requests` |
| server assembly, routing, request log | `internal/server/server.go` | the configuration | start | start with an allowlist, in `Registration` |

**Interactions.** The server and the CLI are separate processes on the same
file. A write is one `BEGIN IMMEDIATE` transaction (`tx`, `_txlock=immediate`),
so writes are serial and a failed one leaves nothing behind. What is not atomic
is what spans two transactions: an authorize request verifies the password and
later stores a code; a token request consumes a secret and later stores a pair;
a login verifies a password and later creates a session; the limiter is asked
before and told after the password check, with its mutex released in between;
an `/mcp` request tests its token and later runs its tool; the form for a new
thread, a client that pages, the owner's page and a collection with its
compaction take several transactions each; and `migrate` runs outside any.

**What is hard to test.** Rotation or deactivation between the two transactions
of a handler; retries of one code; the second at which a row expires; ids after
the newest events were collected; the many orders of post, tombstone, mark and
collect; cascades; references whose source is revoked, hidden or collected
later; V0 threads that have no owner at first; a crash or a second process between
two statements of `migrate`; tabs that outlive their session; a restart with
another allowlist while codes wait in the database. `PROJECT.json` lists each at its
line with the property that covers it, or why none does yet.

**What makes each part correct.**
*Store*: nothing crosses owners, ids are never reused, closed threads stay closed,
content leaves the database only while nobody is shown it.
*Registry*: a label belongs to one principal for ever, `owner` to nobody.
*OAuth*: an authorization is spent once, rotation and deactivation take effect,
valid secrets do not vanish.
*Limiter*: the overrun is bounded, the table is bounded, refusals end.
*Sessions*: a session is ended by its own owner, in time and for good; a form acts
for the owner who saw it.
*Registration and MCP*: tokens are for listed redirect URIs, messages for proved
passwords. *Migration*: no message is lost, the schema in use is the present one.
*Requests*: what a page, a form or a collection says is true of all its moments.

## Modules

`Actors` holds the registry (`principalOf`, `active`). `ThreadStore` and `OAuth`
extend it, each with its own part of the three CLI operations: `ThreadStore` adds
nothing, `OAuth` adds the password generation and the revocation of codes and
tokens. Both are the same transaction in the code.

`ThreadStore` has one variable per table or column: `threads`, `owner`,
`tombstoned`, `marked`, `acl`, `events`, `payloads`, `deletions`, `seq`
(`sqlite_sequence`), and `minted`, the thread ids drawn so far (a random id is
never drawn twice). One action per store operation, with the conditions of its
early returns as the guard; a call that returns an error changes nothing and is
no action, and neither is a clean no-op (a second tombstone). Messages have no
text: a payload is there or not. `GarbageCollect` is the whole transaction, its
cascades included; `gc_state` is raised and lowered inside it and never seen
raised. Readers are operators on a state: `ScanEvent` (what is shown of an event),
`Render`, `GetThread`, `GetOwnerThread` (the events shown to the caller, through
references included), and `ReadableBy`, all that a caller can reach through any of its
threads. `GetGCCounts` is translated from its own SQL, apart from the collection's.
`LegacyThreads` are V0 threads, without an owner until
`migrate-v0`; `PurgedBefore` are those of them with `purged_at`, a column that
every guard tests, the collection still acts on and no statement of this version
writes.

`EventLifecycle` is what the store promises, without owners or tables: ids issued
once and in order, events readable, then hidden for good, erased only while hidden,
removed only with their closed thread. `ThreadStore!ImplementsLifecycle` maps the
tables to it: `live` are the rows, `hidden` the events whose `ScanEvent` is one of
the two literals, `stored` the payloads, `closed` the threads that are not open.

`OAuth` models `oauth_codes`, `oauth_tokens` and, for every handler in flight, the
grant it holds between its transactions (`req`). Secrets are serial numbers. The
purge (`AfterPurge`) and the reads (`Valid`) compare `expires_at` each by itself, as
their statements do, and `ValidUntilSpent` says once more what is valid. The
redirect URI, the PKCE verifier and the client id are one binding test, which may fail.
`gen` and `lineage` in a grant, and `raced`, are history: which password was proved,
which authorization a secret descends from, which actors were rotated while a
handler held their grant. `StoreFails` is a failed second transaction, `Restart` the
death of the server.

`Limiter` splits a login attempt where the mutex is released: `Pass` is `blocked()`
answering no, `Fail` and `Reset` come after the password check. A row has an age
instead of a start time, capped at the window. A refused attempt changes nothing
and is no action.

`Registration` extends `OAuth` with the tests in front of it. `allowed` is the
allowlist of the running server, `registered` the client ids ever signed,
`redeemed` is history: lineages that had tokens. A client id is tested before a
code is consumed, its redirect URI after; a refresh token has no URI to test.
`StartServer` brings any other allowlist; codes and tokens stay.

`MCPSession` instantiates `Registration` and `ThreadStore` over one actors table.
The CLI's actor commands are one step of both. `Admit` is the token test of
`mcpHandler`, `PostMessage` the tool's transaction, later, for the identity in
`calls`; `Answer` stands for the tools that read and for every error.

`Sessions` has the two tables of the owner's login, the logins between
`AuthenticateOwner` and `CreateOwnerSession` (`login`), and one browser: its `cookie`
and the `pages` in its tabs, each with the form token it was rendered with. A form
travels with the cookie it was sent with (`posted`, by `Submit`); then it is `Admit`ted
past `requireOwner` and `verifyCSRF` (`requests`), `Refuse`d, or it is a `Logout`. What
a reply sets or clears the cookie to travels too (`replies`) and arrives late, out of
order or never (`Deliver`), so a logout's reply can wipe the cookie of a newer login.
`Logout` has the branch in which the error of `RevokeOwnerSession` is dropped: the
session stays and the cookie goes. A GET is one step. A row holds its remaining time
instead of `expires_at`. `late` is history: sessions made with a replaced password.

`Requests` extends `ThreadStore` with one request of several steps (`job`), between
which every other operation can come, as `OtherCaller`. Its four kinds are the
web form for a new thread, a client paging with `before_id`, the owner's page and a
collection followed by checkpoint and VACUUM. `residue` is the erased content that
the file or the WAL still holds; SQLite is modelled from how `GarbageCollect` uses
it: a checkpoint that succeeds with `secure_delete` on leaves none. In the form for a
new thread a grant goes through (`GrantChosen`), is refused (`GrantRefused`) or meets
another error, a busy database or a failing disk (`GrantFails`); the loop drops both
errors and goes on. The owner's page reads the thread, its grants, its events and each
source in queries of their own; `head` holds the list of actors with access while it is
compared with who had access, and is forgotten after that.

`Migration` is `OpenWithClock` and `migrate`, one action per statement that commits
by itself, for several processes. `events` and `fresh` are the tables `events` and
`events_new` with their shape: V0 keeps content in the row, a later schema has a
foreign key from `ref_id`. Statements that are all IF NOT EXISTS are one step, and so
are the columns that ALTER TABLE adds. An error closes the file (`Fail`). `cut` is
history: one of the three accidents named at `EventsSurviveUnlessCut`.

`MC*` modules declare model values and symmetry. The `*Proofs` modules hold the
theorems.

Operators preceded by a comment that starts with `Bug:` are not used by the
specifications: each is a plausible mistake in the definition that follows it, and
substituting it makes a property of a run fail.

## Runs

| run | instance | shows |
|---|---|---|
| `history` | 1 owner, 1 actor, 2 threads, 3 events | types; no orphans; one tombstone, last; what is pending is what is shown as marked; ids never reused; `ThreadStore` implements `EventLifecycle` |
| `owners` | 2 owners, 1 actor, 2 new and 2 V0 threads (one purged), 2 events | grants, references and collections stay within an owner, through `migrate-v0` too; a collection does what its page announced; `owner` messages are the owner's; closed threads frozen |
| `purged_label` | as `history` | *violated*: an event shows `[Purged]` before any collection |
| `oauth` | 2 handlers, 2 actors, 2 clients, 3 secrets, time 0..3 | rotation, deactivation, single use, cap on codes; a valid secret goes only by being spent or revoked |
| `oauth_race` | 2 handlers, 1 actor | *violated*: rotation revokes everything of the old password |
| `limiter` | 2 handlers, 3 labels, table of 2, limit 2, window 2 | overrun and table bounded; refusals end |
| `lockout` | the same | *violated*: a locked label stays locked until its window ends |
| `sessions` | 2 owners, 1 login past its check at a time, 2 sessions, one form under way, lifetime 2, 2 passwords each | a password change ends sessions; forms act for their owner; nobody else ends a running session; ended is ended; every session ends |
| `requests` | 1 owner, 1 actor, 2 threads, 2 events, pages of 1 | chosen actors are granted; pages cover the history; the owner's page shows nothing hidden before and lists who has access; "completed" means erased |
| `migration` | 2 processes, 2 old messages, 2 crashes, files of every earlier schema | which accidents lose messages, and that nothing else does; the schema in use is current |
| `migration_cut` | 1 process, 1 crash | *violated*: a restart loses no committed events |
| `mcp` | 1 actor, 1 client and URI, 1 handler, 2 calls, 1 event, 3 secrets, time 0..3 | who can have sent a message; what a shorter allowlist ends |

**Why the bounds are enough.** Two threads and three events give a reference
between threads, a reference to a reference, a tombstone after both, the
collection of the newest event followed by a new one. Properties relate at most
two events, two threads, two principals. Two owners with an actor and V0 threads
between them give every grant and reference across owners. In `oauth` code and
access token live one tick and the refresh token two; three secrets allow a code,
its pair and the pair's refresh, or two authorizations of two actors beside each
other; time passes the second at which each of them expires; two handlers race on any of
them. The table of the limiter is one smaller
than the number of labels. Two sessions of two owners give a stale tab, a lost
or late reply, a cookie that is overwritten and a secret that is refused before another
one is drawn; one form at a time is enough,
as a form changes only its own session, and one login past its password check, as logins
meet only in the cookie and in the replies, of which several are under way; the proofs
hold for any number. Pages of one event make a thread of two take two pages and a third,
empty one, with posts and collections between them. In `migration` an old message
has content or not, and two processes with two deaths reach every pair of
statements, one to be interrupted and one to find what it left. The path in `mcp`
is long (register the client, authorize, code, pair, refresh, call, post) and every
actor on it independent of others, so one of each suffices; two calls let one be
overtaken by a rotation and another come after it. `MaxEventId`, `MaxTime`,
`MaxSerial`, `MaxRotations`, `MaxPassword`, `MaxMessages`, `MaxCrashes` and `MaxCalls`
are bounds of the models, in the guards; the proofs hold for every value of them.

No run turns the deadlock check off: in every reachable state some operation is
possible.

**Fairness.** Only `Limiter` and `Sessions` assume any, weak fairness of `Tick`: time
passes. No handler has to return, no client has to retry and no purge has to run.
`RefusalEnds` holds although the sweep of a full table is done by whoever asks next,
`SessionsEnd` although nobody ever logs out.

## Disagreements between code and text

* `PurgedOnlyByGC` (`store.go:687`). A marked event without a payload counts as
  purged. A reference without a note never had one, so it shows `[Purged]` the
  moment it or its thread is marked, before any collection.
* `RotationRevokesAll` (`oauth.go:357`). A rotation between the password check and
  `PutCode`, or between a consume and `PutTokens`, does not revoke what the handler
  stores next. `RotationRevokesUnlessRaced` states what does hold.
* `LockedUntilWindowEnds` (`oauth.go:354`). A right password whose verification
  began before the label was locked deletes the row and with it the lockout.
* `EventsSurvive` (`store.go:282`). A crash between `DROP TABLE events` and the
  `RENAME` leaves all events in `events_new`; the next Open creates an empty
  `events`, finds nothing to migrate and succeeds. `docs/V0_CONTRACT.md:231` says that
  a restart loses no committed events.

Smaller ones, visible in the models and without a run of their own. A crash a
little earlier leaves `events_new` beside `events`, and every later Open fails on
`CREATE TABLE events_new` (`CreateNew`, the crash that `FailsOnlyWhenDisturbed`
excepts); the events are safe. The CLI prints "active sessions revoked"
(`main.go:134`) although a login past its password check still makes a session
(`late` in `RotationEndsSessionsUnlessRaced`). `handleToken` consumes a code before it
tests the client and the redirect URI, so another client's attempt spends it.

## Proofs

All theorems are about the specifications that TLC checks, for every value of the
constants. They assume the `ASSUME`s of the modules and no more: the null values
are outside their sets, V0 threads are threads, limits and lifetimes are positive,
the handlers of the limiter are finitely many, a page has at least one event and the
bound on messages covers those of the old file.

*ThreadStore.* `IInv` has nine conjuncts. Six are properties of runs or helpers
(`TypeOK`, `NoOrphans`, `IdsAreKeys`, `TombstoneIsLast`, `AclWithinOwner`,
`RefsStayWithinOwner`); three strengthen them. `FreshThreadsOwned`: only V0 threads
can lack an owner, so `migrate-v0` changes no owner that grants and references rely
on. `RefsPointBack`: a reference is below its own id even after its source is gone,
so no later event becomes its source. `OwnerReserved`: no actor has the reserved
label, so grants and posts cannot carry it. The proof has a lemma per group of
operations that disturb the same tables. From it follow the invariants, the action
properties `IdsNeverReused`, `ClosedThreadsFrozen` and `HumanProvenance`, and the
refinement `ImplementsLifecycle`: each action is an `Append`, a `Hide`, a
`HideThread`, a `Collect` or a stutter. `GCIsExact` is proved of the transaction alone:
`GCEffect` computes what it leaves, the other lemmas compare that with the rows of other
owners and with what the counts announced, whose queries select the same rows
(`CountsAgree`). `ReadingGrowsByGrantsOnly` (`ReadingCorrect`) is proved and in no run:
an instance that tells anything of it needs two actors beside two owners, which is more
than TLC does in a few minutes. It says that nothing old comes into a caller's reach but
by a grant to that caller or, for owners, by `migrate-v0`. It needs that events are of
threads that exist, that closed threads stay closed and that owners change in no other
way.

*OAuth.* `RotationRevokesUnlessRaced` is not inductive: a handler writes what it
holds. `HandlersCurrent` says the same of the grants in flight. Steps fall into
those that only remove rows, those that take hold of a grant, and those that store
rows for one. `ValidUntilSpent` compares every step with the second at which a row
expires: `RemovalStep` for what a step removes, `SpentInTime` for what a handler spends.
`LineageNeverForks` counts; its proof does not: `LineageHeldOnce` says that no two of the
rows and handlers that can turn into tokens are of one lineage, and that every lineage
in use was started, so a new one is in nobody's hands. `PendingCodesBounded` needs
that the table is finite.

*Limiter.* `FailuresBounded` is inductive with the types: `Pass` happens only below
the limit, `Fail` moves one guess from those under way to those counted.
`TableBounded` needs that the table is finite.

*Sessions.* `IInv` adds two facts to the properties. `SecretsDrawn`: rows, pages, forms
and replies under way and the cookie only know secrets that were drawn, a secret opens
one session, and a form is of a page in some tab. `PagesShowTheirOwner`: a page shows the
owner of the session its token belongs to; with the token test this is why a form acts
for the owner who saw it, and why a logout that ends a running session was rendered for
it (`EndedByItsOwnerOnly`). `EndedForever` follows from them, as a new secret is above
all earlier ones.

*Registration.* It only restricts `OAuth` (`RestrictsOAuth`), so the OAuth theorems
carry over. `AllowlistHonoured` needs `RedeemedOrListed`: tokens, and what a handler
is about to turn into tokens, are of an authorization that had tokens before or of
a listed URI. A start with another list keeps it because no handler survives.

*MCPSession.* The composition is shown to implement `Registration` and `ThreadStore`,
by instances of their proof modules, so that what was proved of the parts holds
of the whole. The invariant on top is `CallsTrusted`: a call in flight was let in for
an active actor whose present password had been proved, or was overtaken since,
the race of the OAuth handlers apart. It rests on OAuth's rotation theorem
(`AdmitTrusted`), and it is also what makes a post a step of the store: the identity
in a call is a registered one. `PostsCorrect` and `ServerHonoursList` follow.

*Requests.* `RequestsUseStore` shows that requests, their deaths and the other callers
implement `ThreadStore`: the store's theorems hold in the middle of a request. `Base`
is what every request relies on: the store's `IInv`, the types, and that erased content
and V0 threads are of ids given out, so nothing new takes their place. On top each kind
of request has an invariant of its own. `CreateInv`: an actor nothing spoke against, and
whose own grant met no error, can still be granted, and is once the loop is past it.
`HeadInv`: until the page asks for its grants, they lie between those that were there all
the time and those that were there at any. `CollectInv`: what was erased is in
no table, and after a good checkpoint not in the file. `ViewInv`: what the page gathered
is true of the tables or of events that are gone; ids only grow, so no later event
stands under a gathered id, and what is hidden stays so. `ReadInv`: what a client has
seen is the part of the first moment's ids from `before_id` up, and below it the
thread still has what it had then. A page moves that cut (`PageMovesCut`); that a page
has a lowest and a full one exactly `PageSize` ids is proved by well-founded induction
(`LeastExists`, `NewestIsFull`).

*Migration.* `IInv` is about the statements all processes are at. `OneBuilder`:
`events_new` admits one process from its CREATE to its RENAME. `Forward`: what a process
has tested or done about columns, foreign key and trigger stays so. `Alone`: with no
overlap, a process that found something to do is the only one with the file open,
because a store in use before it left nothing to find. `RowsKept` and `PayloadsKept`
say where the committed rows and their content are at each statement, until one of the
accidents in `cut`; `TriggerKept` when the trigger may be missing; `Undisturbed` that
what one statement tested still holds when the next one relies on it. The last gives
`FailsOnlyWhenDisturbed`: each of the seven statements that can fail is ruled out.

Every invariant and every action property that a run expects to hold is a theorem, and
`ReadingGrowsByGrantsOnly` besides. The
inductive invariants of `Requests` and `Migration` hold of the instances of their runs
as well, that of `Migration` also with three processes. Model-checked only are
`RefusalEnds` and `SessionsEnd`: liveness under fairness is out of the prover's reach.

## Not modelled

Titles, times in rows, message text and its length limits, password hashing, HTML
and headers, logging and routing, the MCP SDK's protocol: no state depends on them.
The signature of a client id and the comparison of redirect URIs with exact and
prefix entries are membership in a set; a changed public URL, and with it another
resource, is left out, as is the loss of the key file. `ListThreads`,
`ListOwnerThreads` and `ListOwnerActors` only list; of the owner's page the list of
actors with access is modelled, the offer of further ones, which is `ListOwnerActors`
without them, is not. An operation that fails inside SQLite rolls back. It is a stutter
where the caller stops with the error and holds nothing; where something was committed
before, or the caller goes on, the failure is a step: `StoreFails`, `LoginFails`, `Fail`,
a failed checkpoint or VACUUM, `GrantFails`, and a `Logout` whose revocation fails. How SQLite
recovers its WAL after a crash is taken from its promise: a commit is there or not.

## Plan

The code's stateful parts are modelled and the properties of the runs proved, liveness
apart. What is left is a refinement for `Migration`: an Open that is one step, with the
three accidents as losses of its own, as the abstract specification that the statements
of `migrate` implement.

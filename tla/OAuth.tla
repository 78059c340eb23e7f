-------------------------------- MODULE OAuth --------------------------------
(***************************************************************************)
(* Authorization codes and access/refresh tokens: the tables oauth_codes   *)
(* and oauth_tokens (oauthstate.go), the CLI's actor operations, and the   *)
(* two HTTP handlers that mint them (oauth.go).  A handler runs several    *)
(* transactions and holds what the first returned until the last: its      *)
(* state is in req, and the CLI, a separate process on the same database,  *)
(* may commit in between.                                                  *)
(*                                                                         *)
(* Secrets are random and stored hashed: a serial number stands for each.  *)
(* A label's principal never changes, and there is one resource, so rows   *)
(* carry neither.  gen and lineage are history: the password generation    *)
(* that the human proved and the authorization a secret descends from.     *)
(***************************************************************************)
EXTENDS Naturals, FiniteSets, Actors

CONSTANTS
  Clients,            \* client ids, each with one of its redirect URIs
  Requests,           \* handler invocations that can be in flight
  Idle,               \* no handler running
  CodeTTL, AccessTTL, RefreshTTL,
  MaxPendingCodes,
  MaxTime, MaxSerial, MaxRotations   \* bounds, for checking

ASSUME OAuthAssumption ==
  /\ {CodeTTL, AccessTTL, RefreshTTL} \subseteq Nat \ {0}
  /\ MaxPendingCodes \in Nat \ {0}
  /\ {MaxTime, MaxSerial, MaxRotations} \subseteq Nat

VARIABLES
  generation,   \* password_hash of a label, by how often it was rotated
  codes,        \* oauth_codes
  tokens,       \* oauth_tokens
  req,          \* what each handler holds between its transactions
  serial,       \* secrets issued so far
  now,          \* Unix time
  raced         \* history: actors rotated while a handler held their grant

vars == <<actorVars, generation, codes, tokens, req, serial, now, raced>>

Grants ==
  [actor : Labels, client : Clients, gen : 0..MaxRotations, lineage : 0..MaxSerial]

Rows ==
  [serial : 1..MaxSerial, kind : {"code", "access", "refresh"},
   grant : Grants, expires : Nat]

Handlers == [step : {"authenticated", "consumed"}, grant : Grants]

ASSUME IdleAssumption == Idle \notin Handlers

TypeOK ==
  /\ ActorsTypeOK
  /\ generation \in [Labels -> 0..MaxRotations]
  /\ codes \subseteq {k \in Rows : k.kind = "code"}
  /\ tokens \subseteq {k \in Rows : k.kind # "code"}
  /\ req \in [Requests -> Handlers \cup {Idle}]
  /\ serial \in 0..MaxSerial
  /\ now \in 0..MaxTime
  /\ raced \subseteq Labels

Init ==
  /\ ActorsInit
  /\ generation = [a \in Labels |-> 0]
  /\ codes = {} /\ tokens = {}
  /\ req = [r \in Requests |-> Idle]
  /\ serial = 0 /\ now = 0
  /\ raced = {}
------------------------------------------------------------------------------
\* Bug: a row goes one second early.
AfterEarlyPurge(S) == S \ {k \in S : k.expires <= now + 1}

\* What DELETE ... WHERE expires_at <= now leaves of a table.
AfterPurge(S) == S \ {k \in S : k.expires <= now}

PurgeExpired == codes' = AfterPurge(codes) /\ tokens' = AfterPurge(tokens)

\* The rows that SELECT ... AND expires_at > now finds, purged or not.
Valid(S) == {k \in S : k.expires > now}

At(r, step) == req[r] # Idle /\ req[r].step = step

Holds(r, a) == req[r] # Idle /\ req[r].grant.actor = a

Finish(r) == req' = [req EXCEPT ![r] = Idle]

\* What revokeActorState leaves of a table.
KeepOthers(S, a) == {k \in S : k.grant.actor # a}

RevokeActorState(a) ==
  codes' = KeepOthers(codes, a) /\ tokens' = KeepOthers(tokens, a)
------------------------------------------------------------------------------
\* The CLI.  Opening the database runs PurgeExpired, on every command.

RegisterActor(p, a) ==
  /\ InsertActor(p, a)
  /\ UNCHANGED <<generation, codes, tokens, req, serial, now, raced>>

\* Bug: the rotation forgets the codes and tokens.
SetHashOnly(a) ==
  /\ Activate(a)
  /\ generation[a] < MaxRotations
  /\ generation' = [generation EXCEPT ![a] = @ + 1]
  /\ UNCHANGED <<codes, tokens, req, serial, now, raced>>

SetActorPassword(a) ==
  /\ Activate(a)
  /\ generation[a] < MaxRotations
  /\ generation' = [generation EXCEPT ![a] = @ + 1]
  /\ RevokeActorState(a)
  /\ raced' = IF \E r \in Requests : Holds(r, a) THEN raced \cup {a} ELSE raced
  /\ UNCHANGED <<req, serial, now>>

DeactivateActor(a) ==
  /\ Deactivate(a)
  /\ RevokeActorState(a)
  /\ UNCHANGED <<generation, req, serial, now, raced>>

OpenDatabase ==
  /\ PurgeExpired
  /\ UNCHANGED <<actorVars, generation, req, serial, now, raced>>
------------------------------------------------------------------------------
\* POST /oauth/authorize: AuthenticateActor, then PutCode.

\* The human types the actor's present password.  A wrong one ends the
\* handler with nothing stored.
Authenticate(r, a, c) ==
  /\ req[r] = Idle
  /\ a \in active
  /\ req' = [req EXCEPT ![r] =
       [step  |-> "authenticated",
        grant |-> [actor |-> a, client |-> c, gen |-> generation[a], lineage |-> 0]]]
  /\ UNCHANGED <<actorVars, generation, codes, tokens, serial, now, raced>>

\* Bug: one code too many.
TooManyCodesLate == Cardinality(AfterPurge(codes)) > MaxPendingCodes

TooManyCodes == Cardinality(AfterPurge(codes)) >= MaxPendingCodes

\* A code starts a lineage of its own.
PutCode(r) ==
  /\ At(r, "authenticated")
  /\ ~TooManyCodes
  /\ serial < MaxSerial
  /\ serial' = serial + 1
  /\ codes' = AfterPurge(codes) \cup
       {[serial |-> serial', kind |-> "code", expires |-> now + CodeTTL,
         grant |-> [req[r].grant EXCEPT !.lineage = serial']]}
  /\ tokens' = AfterPurge(tokens)
  /\ Finish(r)
  /\ UNCHANGED <<actorVars, generation, now, raced>>

\* ErrBusy rolls the purge back too.
PutCodeBusy(r) ==
  /\ At(r, "authenticated")
  /\ TooManyCodes
  /\ Finish(r)
  /\ UNCHANGED <<actorVars, generation, codes, tokens, serial, now, raced>>
------------------------------------------------------------------------------
\* POST /oauth/token: ConsumeCode or ConsumeRefresh, then PutTokens.

Hold(r, k) == req' = [req EXCEPT ![r] = [step |-> "consumed", grant |-> k.grant]]

\* Bug: the code stays in the table.
ReadCode(r, c, k) ==
  /\ req[r] = Idle
  /\ k \in Valid(codes)
  /\ \/ c = k.grant.client /\ Hold(r, k)
     \/ UNCHANGED req
  /\ UNCHANGED <<actorVars, generation, codes, tokens, serial, now, raced>>

\* An attempt that fails the binding test (another client, another redirect
\* URI, one no longer allowed, a wrong verifier) fails after the code is gone.
ConsumeCode(r, c, k) ==
  /\ req[r] = Idle
  /\ k \in Valid(codes)
  /\ codes' = codes \ {k}
  /\ \/ c = k.grant.client /\ Hold(r, k)
     \/ UNCHANGED req
  /\ UNCHANGED <<actorVars, generation, tokens, serial, now, raced>>

\* Here another client's attempt leaves the token alone.
ConsumeRefresh(r, c, k) ==
  /\ req[r] = Idle
  /\ k \in Valid(tokens) /\ k.kind = "refresh"
  /\ k.grant.client = c
  /\ k.grant.actor \in active
  /\ tokens' = tokens \ {k}
  /\ Hold(r, k)
  /\ UNCHANGED <<actorVars, generation, codes, serial, now, raced>>

TokenRow(k, n, grant, ttl) ==
  [serial |-> n, kind |-> k, grant |-> grant, expires |-> now + ttl]

StorePair(r) ==
  /\ serial < MaxSerial
  /\ serial' = serial + 1
  /\ tokens' = AfterPurge(tokens) \cup
                 {TokenRow("access", serial', req[r].grant, AccessTTL),
                  TokenRow("refresh", serial', req[r].grant, RefreshTTL)}
  /\ codes' = AfterPurge(codes)
  /\ Finish(r)
  /\ UNCHANGED <<actorVars, generation, now, raced>>

\* Bug: the actor is not looked up again.
PutTokensBlindly(r) == At(r, "consumed") /\ StorePair(r)

\* The actor may have been deactivated since: it is tested again here.
PutTokens(r) ==
  /\ At(r, "consumed")
  /\ req[r].grant.actor \in active
  /\ StorePair(r)

PutTokensForbidden(r) ==
  /\ At(r, "consumed")
  /\ req[r].grant.actor \notin active
  /\ Finish(r)
  /\ UNCHANGED <<actorVars, generation, codes, tokens, serial, now, raced>>

\* The second transaction fails: 500, and what was consumed is gone.
StoreFails(r) ==
  /\ req[r] # Idle
  /\ Finish(r)
  /\ UNCHANGED <<actorVars, generation, codes, tokens, serial, now, raced>>

\* The server dies and starts again.
Restart ==
  /\ req' = [r \in Requests |-> Idle]
  /\ PurgeExpired
  /\ UNCHANGED <<actorVars, generation, serial, now, raced>>

Tick ==
  /\ now < MaxTime
  /\ now' = now + 1
  /\ UNCHANGED <<actorVars, generation, codes, tokens, req, serial, raced>>

Next ==
  \/ \E p \in Principals, a \in Labels : RegisterActor(p, a)
  \/ \E a \in Labels : SetActorPassword(a) \/ DeactivateActor(a)
  \/ OpenDatabase
  \/ \E r \in Requests, a \in Labels, c \in Clients : Authenticate(r, a, c)
  \/ \E r \in Requests, c \in Clients : \E k \in codes : ConsumeCode(r, c, k)
  \/ \E r \in Requests, c \in Clients : \E k \in tokens : ConsumeRefresh(r, c, k)
  \/ \E r \in Requests : \/ PutCode(r) \/ PutCodeBusy(r)
                         \/ PutTokens(r) \/ PutTokensForbidden(r)
                         \/ StoreFails(r)
  \/ Restart
  \/ Tick

Spec == Init /\ [][Next]_vars
------------------------------------------------------------------------------
\* Safety.

\* A rotation leaves no code or token proved with an earlier password, unless
\* a handler held a grant of the actor at that moment (V0_CONTRACT.md, actor
\* identity; SetActorPassword).
RotationRevokesUnlessRaced ==
  \A k \in codes \cup tokens :
    k.grant.actor \in raced \/ k.grant.gen = generation[k.grant.actor]

\* What the comment of SetActorPassword says: all of the actor's codes and
\* tokens are revoked, so only the present password's are ever in the tables.
RotationRevokesAll ==
  \A k \in codes \cup tokens : k.grant.gen = generation[k.grant.actor]

\* An inactive actor has no token at all, whatever was in flight when it was
\* deactivated: so reactivating it brings none back.
InactiveHasNoToken == \A k \in tokens : k.grant.actor \in active

\* What can still turn into tokens in one lineage.
Spendable(l) ==
  {k \in codes \cup tokens : k.kind # "access" /\ k.grant.lineage = l}

Exchanging(l) == {r \in Requests : At(r, "consumed") /\ req[r].grant.lineage = l}

\* One authorization is spent by one exchange at a time: replays, retries and
\* concurrent refreshes never fork it.
LineageNeverForks ==
  \A l \in 1..serial : Cardinality(Spendable(l)) + Cardinality(Exchanging(l)) <= 1

\* Expired or not, at most MaxPendingCodes codes are stored.
PendingCodesBounded == Cardinality(codes) <= MaxPendingCodes

\* A code or token leaves the tables before its expires_at only by being spent
\* or by the revocation of its own actor, and is never spent from then on: the
\* tests of the purges and of the handlers meet at the boundary second.
ValidUntilSpent ==
  [][/\ \A k \in (codes \cup tokens) \ (codes' \cup tokens') :
          k.expires > now =>
            \/ \E r \in Requests, c \in Clients :
                 ConsumeCode(r, c, k) \/ ConsumeRefresh(r, c, k)
            \/ SetActorPassword(k.grant.actor) \/ DeactivateActor(k.grant.actor)
     /\ \A r \in Requests, c \in Clients, k \in codes \cup tokens :
          ConsumeCode(r, c, k) \/ ConsumeRefresh(r, c, k) => k.expires > now]_vars
==============================================================================

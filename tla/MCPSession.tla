------------------------------ MODULE MCPSession ------------------------------
(***************************************************************************)
(* The whole path of an AI client: OAuth gives it a token, /mcp looks the  *)
(* token up on every request (mcp.go, mcpHandler), and the tool then runs  *)
(* its own transaction on the thread store for the identity the token      *)
(* carried.  Registration (and with it OAuth) and ThreadStore are composed *)
(* over one actors table; the CLI's actor commands are steps of both.      *)
(***************************************************************************)
EXTENDS Naturals, FiniteSets, Actors

CONSTANTS
  Clients, Requests, Idle, CodeTTL, AccessTTL, RefreshTTL, MaxPendingCodes,
  MaxTime, MaxSerial, MaxRotations, Redirects, RedirectOf,
  Threads, LegacyThreads, PurgedBefore, MaxEventId,
  MaxCalls   \* bound on /mcp requests in flight, for checking

VARIABLES
  generation, codes, tokens, req, serial, now, raced, allowed, registered, redeemed,
  minted, threads, owner, tombstoned, marked, acl, events, payloads, deletions, seq,
  calls      \* /mcp requests past the token check: the identity in the token;
             \* gen and overtaken are history, the password proved for it and a
             \* rotation or deactivation of the actor since the check

listVars  == <<allowed, registered, redeemed>>
authVars  == <<generation, codes, tokens, req, serial, now, raced, listVars>>
storeVars == <<minted, threads, owner, tombstoned, marked, acl, events, payloads,
               deletions, seq>>
sessionVars == <<actorVars, authVars, storeVars, calls>>

Auth  == INSTANCE Registration
Store == INSTANCE ThreadStore

ASSUME MCPAssumption ==
  /\ Auth!OAuthAssumption /\ Auth!IdleAssumption
  /\ Store!LegacyAssumption /\ Store!MaxEventIdAssumption

SessionInit == Auth!RegistrationInit /\ Store!Init /\ calls = {}
------------------------------------------------------------------------------
\* The CLI's actor commands, on the one table.

RegisterActor(p, a) ==
  /\ Auth!RegisterActor(p, a) /\ Store!RegisterActor(p, a)
  /\ UNCHANGED <<listVars, calls>>

Overtake(a) ==
  calls' = {IF c.actor = a THEN [c EXCEPT !.overtaken = TRUE] ELSE c : c \in calls}

SetActorPassword(a) ==
  /\ Auth!SetActorPassword(a) /\ Store!SetActorPassword(a)
  /\ Overtake(a)
  /\ UNCHANGED listVars

DeactivateActor(a) ==
  /\ Auth!DeactivateActor(a) /\ Store!DeactivateActor(a)
  /\ Overtake(a)
  /\ UNCHANGED listVars

\* The handlers under /oauth, purges, time.
OAuthStep ==
  /\ \/ \E c \in Clients : Auth!HandleRegister(c)
     \/ \E r \in Requests :
          \/ \E a \in Labels, c \in Clients : Auth!HandleAuthorize(r, a, c)
          \/ \E c \in Clients : \/ \E k \in codes : Auth!ExchangeCode(r, c, k)
                                \/ \E k \in tokens : Auth!ExchangeRefresh(r, c, k)
          \/ Auth!AnswerWithTokens(r)
     \/ Auth!OtherStep /\ UNCHANGED listVars
  /\ UNCHANGED <<storeVars, calls>>

\* The server dies and comes back.
Restart(list) == Auth!StartServer(list) /\ calls' = {} /\ UNCHANGED storeVars

\* The owner and the CLI on the store: everything but an actor's post.
StoreStep ==
  /\ \/ \E t \in Threads, p \in Principals :
          \/ Store!CreateThread(t, p) \/ Store!PostOwnerMessage(t, p)
          \/ Store!TombstoneThread(t, p) \/ Store!MarkThreadDeleted(t, p)
          \/ \E i \in Store!Ids : Store!MarkMessageDeleted(t, p, i)
     \/ \E t \in Threads, a \in Labels :
          \/ Store!Grant(t, a) \/ Store!Revoke(t, a)
          \/ \E p \in Principals :
               Store!GrantOwnerActor(t, p, a) \/ Store!RevokeOwnerActor(t, p, a)
     \/ \E p \in Principals : Store!MigrateV0Threads(p) \/ Store!GarbageCollect(p)
  /\ UNCHANGED <<authVars, calls>>
------------------------------------------------------------------------------
\* AccessIdentity's SELECT: the access tokens it answers for.
ValidTokens ==
  {k \in Auth!Valid(tokens) : k.kind = "access" /\ k.grant.actor \in active}

\* verify() accepts the Bearer token.
Admit(k) ==
  /\ Cardinality(calls) < MaxCalls
  /\ k \in ValidTokens
  /\ calls' = calls \cup
       {[principal |-> principalOf[k.grant.actor], actor |-> k.grant.actor,
         gen |-> k.grant.gen, overtaken |-> FALSE]}
  /\ UNCHANGED <<actorVars, authVars, storeVars>>

\* post_message, as the identity the call came in with.
PostMessage(c, t, r, content) ==
  /\ Store!PostMessage(t, c.principal, c.actor, r, content)
  /\ calls' = calls \ {c}
  /\ UNCHANGED authVars

\* A reading tool, or an error: nothing is written.
Answer(c) ==
  /\ calls' = calls \ {c}
  /\ UNCHANGED <<actorVars, authVars, storeVars>>

SessionNext ==
  \/ \E p \in Principals, a \in Labels : RegisterActor(p, a)
  \/ \E a \in Labels : SetActorPassword(a) \/ DeactivateActor(a)
  \/ OAuthStep \/ StoreStep
  \/ \E list \in SUBSET Redirects : Restart(list)
  \/ \E k \in tokens : Admit(k)
  \/ \E c \in calls :
       \/ Answer(c)
       \/ \E t \in Threads, r \in 0..MaxEventId, content \in BOOLEAN :
            PostMessage(c, t, r, content)

SessionSpec == SessionInit /\ [][SessionNext]_sessionVars
------------------------------------------------------------------------------
\* Every message of an actor was sent by somebody who proved the actor's
\* present password while the actor was active.  The one way around it is a
\* call that was past the token check when the password was set or the actor
\* deactivated, and for the password the race of the OAuth handlers.
PostsProvePassword ==
  [][\A e \in events' \ events :
       e.actor # OwnerLabel =>
         \E c \in calls :
           /\ c.principal = e.principal /\ c.actor = e.actor
           /\ \/ c.overtaken
              \/ /\ e.actor \in active
                 /\ c.gen = generation[e.actor] \/ e.actor \in raced]_sessionVars

\* Codes outlive the server that checked their redirect URI, and the operator
\* may start the next one without it: from then on no authorization made for
\* it turns into tokens, only what had tokens already goes on.
ListIsHonoured == [][Auth!OnlyListedGain]_sessionVars

==============================================================================

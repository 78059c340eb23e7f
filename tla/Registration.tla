----------------------------- MODULE Registration -----------------------------
(***************************************************************************)
(* Which clients may use the OAuth endpoints (oauth.go, registration, and  *)
(* server.go, New).  Registration keeps no state: a client id is signed    *)
(* and carries its redirect URIs, so every endpoint tests it anew, against *)
(* the allowlist this server was started with.  The operator may start the *)
(* next one with another list, while codes and tokens wait in the          *)
(* database.  The signing key survives restarts.                           *)
(*                                                                         *)
(* The allowlist is the set of redirect URIs it admits, be it by an exact  *)
(* entry or by a prefix.                                                   *)
(***************************************************************************)
EXTENDS OAuth

CONSTANTS
  Redirects,   \* redirect URIs
  RedirectOf   \* a function: which of those in its client id a client uses

VARIABLES
  allowed,      \* the redirect URIs the running server admits
  registered,   \* the client ids that were ever signed
  redeemed      \* history: lineages that have had tokens

registrationVars == <<vars, allowed, registered, redeemed>>

RegistrationInit ==
  /\ Init
  /\ allowed = Redirects /\ registered = {} /\ redeemed = {}
------------------------------------------------------------------------------
\* POST /oauth/register.  A second id of the same client is as good.
HandleRegister(c) ==
  /\ c \notin registered
  /\ RedirectOf[c] \in allowed
  /\ registered' = registered \cup {c}
  /\ UNCHANGED <<vars, allowed, redeemed>>

\* verifyClientID, then the redirect URI.
CheckRedirect(c) == c \in registered /\ RedirectOf[c] \in allowed

\* POST /oauth/authorize up to the password.
HandleAuthorize(r, a, c) ==
  /\ CheckRedirect(c)
  /\ Authenticate(r, a, c)
  /\ UNCHANGED <<allowed, registered, redeemed>>

\* Bug: the redirect URI was checked when the code was asked for.
ExchangeCodeUnchecked(r, c, k) ==
  /\ c \in registered
  /\ ConsumeCode(r, c, k)
  /\ UNCHANGED <<allowed, registered, redeemed>>

\* POST /oauth/token with a code: a bad client id is refused before the code
\* is consumed, a redirect URI that is not allowed any more after.
ExchangeCode(r, c, k) ==
  /\ c \in registered
  /\ ConsumeCode(r, c, k)
  /\ req'[r] # Idle => CheckRedirect(c)
  /\ UNCHANGED <<allowed, registered, redeemed>>

\* With a refresh token there is no redirect URI to look at.
ExchangeRefresh(r, c, k) ==
  /\ c \in registered
  /\ ConsumeRefresh(r, c, k)
  /\ UNCHANGED <<allowed, registered, redeemed>>

AnswerWithTokens(r) ==
  /\ PutTokens(r)
  /\ redeemed' = redeemed \cup {req[r].grant.lineage}
  /\ UNCHANGED <<allowed, registered>>

\* The server dies, or is stopped, and is started with some allowlist.
StartServer(list) ==
  /\ Restart
  /\ allowed' = list
  /\ UNCHANGED <<registered, redeemed>>

ClientStep ==
  \/ \E c \in Clients : HandleRegister(c)
  \/ \E r \in Requests, a \in Labels, c \in Clients : HandleAuthorize(r, a, c)
  \/ \E r \in Requests, c \in Clients :
       \/ \E k \in codes : ExchangeCode(r, c, k)
       \/ \E k \in tokens : ExchangeRefresh(r, c, k)
  \/ \E r \in Requests : AnswerWithTokens(r)
  \/ \E list \in SUBSET Redirects : StartServer(list)

\* The rest of OAuth does not look at the client.
ActorCommand ==
  \/ \E p \in Principals, a \in Labels : RegisterActor(p, a)
  \/ \E a \in Labels : SetActorPassword(a) \/ DeactivateActor(a)

OtherStep ==
  \/ OpenDatabase \/ Tick
  \/ \E r \in Requests : \/ PutCode(r) \/ PutCodeBusy(r)
                         \/ PutTokensForbidden(r) \/ StoreFails(r)

RegistrationNext ==
  \/ ClientStep
  \/ (ActorCommand \/ OtherStep) /\ UNCHANGED <<allowed, registered, redeemed>>

RegistrationSpec == RegistrationInit /\ [][RegistrationNext]_registrationVars
------------------------------------------------------------------------------
\* Tokens are new only for a redirect URI that is on the list, or continue an
\* authorization that had tokens before.
OnlyListedGain ==
  \A k \in tokens' \ tokens :
    RedirectOf[k.grant.client] \in allowed \/ k.grant.lineage \in redeemed
==============================================================================

-------------------------- MODULE RegistrationProofs --------------------------
(***************************************************************************)
(* Registration only restricts OAuth, and an allowlist is honoured from    *)
(* the start of the server that has it, for every number of clients,       *)
(* redirect URIs and restarts.                                             *)
(***************************************************************************)
EXTENDS Registration, OAuthProofs

\* What already had tokens may go on, wherever it is.
RedeemedOrListed ==
  /\ \A k \in tokens : k.grant.lineage \in redeemed
  /\ \A r \in Requests :
       At(r, "consumed") =>
         \/ req[r].grant.lineage \in redeemed
         \/ RedirectOf[req[r].grant.client] \in allowed

\* Every step of Registration is one of OAuth, or leaves it alone.
LEMMA StepOfOAuth == [RegistrationNext]_registrationVars => [Next]_vars
<1> SUFFICES ASSUME RegistrationNext PROVE [Next]_vars
  BY DEF registrationVars
<1>1. CASE ClientStep
  BY <1>1
  DEF ClientStep, Next, HandleRegister, HandleAuthorize, ExchangeCode, ExchangeRefresh,
      AnswerWithTokens, StartServer
<1>2. CASE ActorCommand \/ OtherStep
  BY <1>2 DEF ActorCommand, OtherStep, Next
<1> QED BY <1>1, <1>2 DEF RegistrationNext

\* Registration implements OAuth: every theorem about OAuth holds of it too.
THEOREM RestrictsOAuth == RegistrationSpec => Spec
  BY StepOfOAuth, PTL DEF RegistrationSpec, RegistrationInit, Spec
------------------------------------------------------------------------------
\* Steps that neither start a server, nor take hold of a row, nor store tokens.
LEMMA QuietListed ==
  ASSUME RedeemedOrListed,
         tokens' \subseteq tokens, redeemed' = redeemed, allowed' = allowed,
         \A r \in Requests : At(r, "consumed")' => req'[r] = req[r]
  PROVE  RedeemedOrListed'
  BY DEF RedeemedOrListed, At

\* Code and refresh token are taken hold of in different ways: the one is
\* tested, the other descends from tokens.
LEMMA ExchangeListed ==
  ASSUME TypeOK, RedeemedOrListed, NEW r \in Requests, NEW c \in Clients,
         \/ \E k \in codes : ExchangeCode(r, c, k)
         \/ \E k \in tokens : ExchangeRefresh(r, c, k)
  PROVE  RedeemedOrListed'
<1>1. /\ tokens' \subseteq tokens /\ UNCHANGED <<redeemed, allowed>>
      /\ \A q \in Requests \ {r} : req'[q] = req[q]
  BY DEF ExchangeCode, ExchangeRefresh, ConsumeCode, ConsumeRefresh, Hold, TypeOK
<1>2. At(r, "consumed")' =>
        \/ req'[r].grant.lineage \in redeemed
        \/ RedirectOf[req'[r].grant.client] \in allowed
  <2>1. ASSUME NEW k \in codes, ExchangeCode(r, c, k), req'[r] # Idle
        PROVE  RedirectOf[req'[r].grant.client] \in allowed
    <3>1. req[r] = Idle /\ req' # req
      BY <2>1 DEF ExchangeCode, ConsumeCode
    <3>2. c = k.grant.client /\ req'[r].grant = k.grant
      BY <2>1, <3>1 DEF ExchangeCode, ConsumeCode, Hold, TypeOK
    <3> QED BY <2>1, <3>2 DEF ExchangeCode, CheckRedirect
  <2>2. ASSUME NEW k \in tokens, ExchangeRefresh(r, c, k)
        PROVE  req'[r].grant.lineage \in redeemed
    BY <2>2 DEF ExchangeRefresh, ConsumeRefresh, Hold, TypeOK, RedeemedOrListed
  <2> QED BY <2>1, <2>2 DEF At
<1> QED BY <1>1, <1>2 DEF RedeemedOrListed, At

LEMMA AnswerListed ==
  ASSUME TypeOK, RedeemedOrListed, NEW r \in Requests, AnswerWithTokens(r)
  PROVE  RedeemedOrListed'
<1>1. /\ \A k \in tokens' : k \in tokens \/ k.grant = req[r].grant
      /\ redeemed' = redeemed \cup {req[r].grant.lineage} /\ allowed' = allowed
      /\ \A q \in Requests : At(q, "consumed")' => req'[q] = req[q]
  BY DEF AnswerWithTokens, PutTokens, StorePair, TokenRow, AfterPurge, Finish, At, TypeOK
<1> QED BY <1>1 DEF RedeemedOrListed, At

LEMMA ListedStep ==
  TypeOK /\ RedeemedOrListed /\ [RegistrationNext]_registrationVars => RedeemedOrListed'
<1> SUFFICES ASSUME TypeOK, RedeemedOrListed, [RegistrationNext]_registrationVars
             PROVE  RedeemedOrListed'
  OBVIOUS
<1>1. CASE UNCHANGED registrationVars
  BY <1>1 DEF registrationVars, vars, RedeemedOrListed, At
<1>2. ASSUME NEW c \in Clients, HandleRegister(c) PROVE RedeemedOrListed'
  BY <1>2 DEF HandleRegister, vars, RedeemedOrListed, At
<1>3. ASSUME NEW r \in Requests, NEW a \in Labels, NEW c \in Clients, HandleAuthorize(r, a, c)
      PROVE  RedeemedOrListed'
  BY <1>3, QuietListed DEF HandleAuthorize, Authenticate, At, TypeOK
<1>4. ASSUME NEW list, StartServer(list) PROVE RedeemedOrListed'
  BY <1>4 DEF StartServer, Restart, PurgeExpired, AfterPurge, At, RedeemedOrListed
<1>5. CASE (ActorCommand \/ OtherStep) /\ UNCHANGED <<allowed, registered, redeemed>>
  <2>1. tokens' \subseteq tokens /\ \A r \in Requests : At(r, "consumed")' => req'[r] = req[r]
    <3>1. CASE ActorCommand
      BY <3>1
      DEF ActorCommand, RegisterActor, SetActorPassword, DeactivateActor, RevokeActorState,
          KeepOthers
    <3>2. CASE OtherStep
      BY <3>2
      DEF OtherStep, OpenDatabase, Tick, PutCode, PutCodeBusy, PutTokensForbidden, StoreFails,
          PurgeExpired, AfterPurge, Finish, At, TypeOK
    <3> QED BY <1>5, <3>1, <3>2
  <2> QED BY <1>5, <2>1, QuietListed
<1> QED
  BY <1>1, <1>2, <1>3, <1>4, <1>5, ExchangeListed, AnswerListed DEF RegistrationNext, ClientStep

\* Tokens, and the grants on their way to tokens, are of an authorization that
\* had tokens before or whose redirect URI is on the list.
THEOREM ListedInvariance == RegistrationSpec => [](TypeOK /\ RedeemedOrListed)
<1>1. RegistrationInit => RedeemedOrListed
  BY DEF RegistrationInit, Init, RedeemedOrListed, At
<1> QED BY <1>1, ListedStep, RestrictsOAuth, TypeCorrect, PTL DEF RegistrationSpec

\* A step that stores tokens answers a handler that holds a listed grant.
THEOREM AllowlistHonoured == RegistrationSpec => [][OnlyListedGain]_registrationVars
<1>1. RedeemedOrListed /\ [RegistrationNext]_registrationVars =>
        [OnlyListedGain]_registrationVars
  <2> SUFFICES ASSUME RedeemedOrListed, RegistrationNext PROVE OnlyListedGain
    OBVIOUS
  <2>1. ASSUME NEW r \in Requests, AnswerWithTokens(r) PROVE OnlyListedGain
    <3>1. \A k \in tokens' : k \in tokens \/ k.grant = req[r].grant
      BY <2>1 DEF AnswerWithTokens, PutTokens, StorePair, TokenRow, AfterPurge
    <3>2. At(r, "consumed")
      BY <2>1 DEF AnswerWithTokens, PutTokens
    <3> QED BY <3>1, <3>2 DEF OnlyListedGain, RedeemedOrListed
  <2>2. CASE tokens' \subseteq tokens
    BY <2>2 DEF OnlyListedGain
  <2>3. \/ tokens' \subseteq tokens
        \/ \E r \in Requests : AnswerWithTokens(r)
    <3>1. CASE ClientStep
      BY <3>1
      DEF ClientStep, HandleRegister, vars, HandleAuthorize, Authenticate, ExchangeCode,
          ConsumeCode, ExchangeRefresh, ConsumeRefresh, StartServer, Restart, PurgeExpired,
          AfterPurge
    <3>2. CASE ActorCommand \/ OtherStep
      BY <3>2
      DEF ActorCommand, RegisterActor, SetActorPassword, DeactivateActor, RevokeActorState,
          KeepOthers, OtherStep, OpenDatabase, Tick, PutCode, PutCodeBusy, PutTokensForbidden,
          StoreFails, PurgeExpired, AfterPurge
    <3> QED BY <3>1, <3>2 DEF RegistrationNext
  <2> QED BY <2>1, <2>2, <2>3
<1> QED BY <1>1, ListedInvariance, PTL DEF RegistrationSpec
==============================================================================

--------------------------- MODULE MCPSessionProofs ---------------------------
(***************************************************************************)
(* The whole server keeps what its parts were proved to keep: SessionSpec  *)
(* implements Registration, with it OAuth, and ThreadStore.  The theorems  *)
(* about the parts are those of RegistrationProofs and ThreadStoreProofs,  *)
(* instantiated with the variables of MCPSession.                          *)
(***************************************************************************)
EXTENDS MCPSession, TLAPS

AuthP  == INSTANCE RegistrationProofs
StoreP == INSTANCE ThreadStoreProofs

\* What the instances assume is assumed here.
LEMMA Assumptions ==
  /\ AuthP!OAuthAssumption /\ AuthP!IdleAssumption
  /\ StoreP!LegacyAssumption /\ StoreP!MaxEventIdAssumption
  BY MCPAssumption
  DEF Auth!OAuthAssumption, Auth!IdleAssumption, Auth!Handlers, Auth!Grants,
      AuthP!OAuthAssumption, AuthP!IdleAssumption, AuthP!Handlers, AuthP!Grants,
      Store!LegacyAssumption, Store!MaxEventIdAssumption,
      StoreP!LegacyAssumption, StoreP!MaxEventIdAssumption
------------------------------------------------------------------------------
\* A step of the server, seen from OAuth: /mcp and the thread store are not.
LEMMA AuthStep == SessionNext => [Auth!RegistrationNext]_(Auth!registrationVars)
<1> SUFFICES ASSUME SessionNext PROVE [Auth!RegistrationNext]_(Auth!registrationVars)
  OBVIOUS
<1> DEFINE Quiet == UNCHANGED <<actorVars, authVars>>
<1>0. Quiet => UNCHANGED Auth!registrationVars
  BY DEF actorVars, authVars, listVars, Auth!registrationVars, Auth!vars, Auth!actorVars
<1>1. ASSUME NEW p \in Principals, NEW a \in Labels, RegisterActor(p, a)
      PROVE  Auth!RegistrationNext
  BY <1>1 DEF RegisterActor, listVars, Auth!RegistrationNext, Auth!ActorCommand
<1>2. ASSUME NEW a \in Labels, SetActorPassword(a) \/ DeactivateActor(a)
      PROVE  Auth!RegistrationNext
  BY <1>2
  DEF SetActorPassword, DeactivateActor, listVars, Auth!RegistrationNext, Auth!ActorCommand
<1>3. CASE OAuthStep
  BY <1>3 DEF OAuthStep, listVars, Auth!RegistrationNext, Auth!ClientStep
<1>4. ASSUME NEW list \in SUBSET Redirects, Restart(list)
      PROVE  Auth!RegistrationNext
  BY <1>4 DEF Restart, Auth!RegistrationNext, Auth!ClientStep
<1>5. CASE StoreStep
  <2>1. UNCHANGED authVars
    BY <1>5 DEF StoreStep
  <2>2. UNCHANGED actorVars
    BY <1>5
    DEF StoreStep, actorVars, Store!actorVars, Store!CreateThread, Store!PostOwnerMessage,
        Store!TombstoneThread, Store!MarkThreadDeleted, Store!MarkMessageDeleted,
        Store!Grant, Store!Revoke, Store!RemoveGrant, Store!GrantOwnerActor, Store!OwnerMayGrant,
        Store!RevokeOwnerActor, Store!MigrateV0Threads, Store!GarbageCollect
  <2> QED BY <1>0, <2>1, <2>2
<1>6. ASSUME NEW k \in tokens, Admit(k) PROVE Quiet
  BY <1>6 DEF Admit
<1>7. ASSUME NEW c \in calls, Answer(c) PROVE Quiet
  BY <1>7 DEF Answer
<1>8. ASSUME NEW c \in calls, NEW t \in Threads, NEW r \in 0..MaxEventId,
             NEW content \in BOOLEAN, PostMessage(c, t, r, content)
      PROVE  Quiet
  BY <1>8 DEF PostMessage, Store!PostMessage, Store!actorVars, actorVars
<1> QED BY <1>0, <1>1, <1>2, <1>3, <1>4, <1>5, <1>6, <1>7, <1>8 DEF SessionNext


\* AuthP's operators are Auth's: the two instances substitute the same.
LEMMA AuthSame ==
  /\ Auth!RegistrationInit => AuthP!RegistrationInit
  /\ [Auth!RegistrationNext]_(Auth!registrationVars) =>
       [AuthP!RegistrationNext]_(AuthP!registrationVars)
<1>1. Auth!RegistrationInit => AuthP!RegistrationInit
  BY DEF Auth!RegistrationInit, Auth!Init, Auth!ActorsInit,
         AuthP!RegistrationInit, AuthP!Init, AuthP!ActorsInit
<1>2. Auth!RegistrationNext => AuthP!RegistrationNext
  <2>1. Auth!ClientStep => AuthP!ClientStep
    BY Zenon DEF
      Auth!actorVars, Auth!vars, Auth!AfterPurge, Auth!PurgeExpired, Auth!Valid, Auth!At,
      Auth!Finish,
      Auth!Authenticate, Auth!Hold, Auth!ConsumeCode, Auth!ConsumeRefresh, Auth!TokenRow,
      Auth!StorePair, Auth!PutTokens, Auth!Restart, Auth!HandleRegister,
      Auth!CheckRedirect, Auth!HandleAuthorize, Auth!ExchangeCode, Auth!ExchangeRefresh,
      Auth!AnswerWithTokens, Auth!StartServer, Auth!ClientStep,
      AuthP!actorVars, AuthP!vars, AuthP!AfterPurge, AuthP!PurgeExpired, AuthP!Valid, AuthP!At,
      AuthP!Finish, AuthP!Authenticate, AuthP!Hold, AuthP!ConsumeCode,
      AuthP!ConsumeRefresh, AuthP!TokenRow, AuthP!StorePair, AuthP!PutTokens,
      AuthP!Restart, AuthP!HandleRegister, AuthP!CheckRedirect, AuthP!HandleAuthorize,
      AuthP!ExchangeCode, AuthP!ExchangeRefresh, AuthP!AnswerWithTokens, AuthP!StartServer,
      AuthP!ClientStep
  <2>2. Auth!ActorCommand => AuthP!ActorCommand
    BY Zenon DEF
      Auth!actorVars, Auth!Registered, Auth!Reserved, Auth!InsertActor, Auth!Activate,
      Auth!Deactivate, Auth!Holds, Auth!KeepOthers, Auth!RevokeActorState,
      Auth!RegisterActor, Auth!SetActorPassword, Auth!DeactivateActor, Auth!ActorCommand,
      AuthP!actorVars, AuthP!Registered, AuthP!Reserved, AuthP!InsertActor, AuthP!Activate,
      AuthP!Deactivate, AuthP!Holds, AuthP!KeepOthers, AuthP!RevokeActorState,
      AuthP!RegisterActor, AuthP!SetActorPassword, AuthP!DeactivateActor,
      AuthP!ActorCommand
  <2>3. ASSUME NEW r \in Requests
        PROVE  /\ Auth!PutCode(r) => AuthP!PutCode(r)
               /\ Auth!PutCodeBusy(r) => AuthP!PutCodeBusy(r)
               /\ Auth!PutTokensForbidden(r) => AuthP!PutTokensForbidden(r)
               /\ Auth!StoreFails(r) => AuthP!StoreFails(r)
    <3>1. /\ \A S : Auth!AfterPurge(S) = AuthP!AfterPurge(S)
          /\ \A x : Auth!At(r, x) <=> AuthP!At(r, x)
          /\ Auth!Finish(r) <=> AuthP!Finish(r)
      BY Zenon DEF Auth!AfterPurge, AuthP!AfterPurge, Auth!At, AuthP!At, Auth!Finish,
                   AuthP!Finish
    <3>2. Auth!TooManyCodes <=> AuthP!TooManyCodes
      BY Zenon, <3>1
      DEF Auth!TooManyCodes, AuthP!TooManyCodes, Auth!Cardinality, AuthP!Cardinality
    <3>3. Auth!PutCode(r) => AuthP!PutCode(r)
      BY Zenon, <3>1, <3>2
      DEF Auth!PutCode, AuthP!PutCode, Auth!actorVars, AuthP!actorVars
    <3>4. Auth!PutCodeBusy(r) => AuthP!PutCodeBusy(r)
      BY Zenon, <3>1, <3>2
      DEF Auth!PutCodeBusy, AuthP!PutCodeBusy, Auth!actorVars, AuthP!actorVars
    <3>5. Auth!PutTokensForbidden(r) => AuthP!PutTokensForbidden(r)
      BY Zenon, <3>1
      DEF Auth!PutTokensForbidden, AuthP!PutTokensForbidden, Auth!actorVars,
          AuthP!actorVars
    <3>6. Auth!StoreFails(r) => AuthP!StoreFails(r)
      BY Zenon, <3>1
      DEF Auth!StoreFails, AuthP!StoreFails, Auth!actorVars, AuthP!actorVars
    <3> QED BY <3>3, <3>4, <3>5, <3>6
  <2>4. (Auth!OpenDatabase => AuthP!OpenDatabase) /\ (Auth!Tick => AuthP!Tick)
    BY Zenon DEF
      Auth!actorVars, Auth!AfterPurge, Auth!PurgeExpired, Auth!OpenDatabase, Auth!Tick,
      AuthP!actorVars, AuthP!AfterPurge, AuthP!PurgeExpired, AuthP!OpenDatabase, AuthP!Tick
  <2>5. Auth!OtherStep => AuthP!OtherStep
    BY <2>3, <2>4 DEF Auth!OtherStep, AuthP!OtherStep
  <2> QED BY <2>1, <2>2, <2>5 DEF Auth!RegistrationNext, AuthP!RegistrationNext
<1>3. UNCHANGED Auth!registrationVars => UNCHANGED AuthP!registrationVars
  BY DEF Auth!registrationVars, Auth!vars, Auth!actorVars,
         AuthP!registrationVars, AuthP!vars, AuthP!actorVars
<1> QED BY <1>1, <1>2, <1>3

\* The server implements Registration.
THEOREM ServerRegisters == SessionSpec => AuthP!RegistrationSpec
<1>1. SessionInit => AuthP!RegistrationInit
  BY AuthSame DEF SessionInit
<1>2. [SessionNext]_sessionVars => [AuthP!RegistrationNext]_(AuthP!registrationVars)
  <2>1. UNCHANGED sessionVars => UNCHANGED Auth!registrationVars
    BY DEF sessionVars, actorVars, authVars, listVars, Auth!registrationVars, Auth!vars,
           Auth!actorVars
  <2> QED BY <2>1, AuthStep, AuthSame
<1> QED BY <1>1, <1>2, PTL DEF SessionSpec, AuthP!RegistrationSpec

\* So what OAuth promises holds of the server: rotation and deactivation revoke,
\* an authorization is spent once, and the table of codes stays bounded.
THEOREM ServerKeepsOAuth ==
  SessionSpec => [](/\ AuthP!TypeOK
                    /\ AuthP!RotationRevokesUnlessRaced
                    /\ AuthP!InactiveHasNoToken
                    /\ AuthP!LineageNeverForks
                    /\ AuthP!PendingCodesBounded)
<1>1. AuthP!RegistrationSpec => AuthP!Spec
  BY AuthP!RestrictsOAuth, Assumptions, NoPrincipalAssumption, OwnerLabelAssumption
<1>2. AuthP!Spec => []AuthP!TypeOK
  BY AuthP!TypeCorrect, Assumptions, NoPrincipalAssumption, OwnerLabelAssumption
<1>3. AuthP!Spec => []AuthP!RotationRevokesUnlessRaced
  BY AuthP!RotationCorrect, Assumptions, NoPrincipalAssumption, OwnerLabelAssumption
<1>4. AuthP!Spec => []AuthP!LineageNeverForks
  BY AuthP!LineageCorrect, Assumptions, NoPrincipalAssumption, OwnerLabelAssumption
<1>5. AuthP!Spec => []AuthP!InactiveHasNoToken
  BY AuthP!InactiveCorrect, Assumptions, NoPrincipalAssumption, OwnerLabelAssumption
<1>6. AuthP!Spec => []AuthP!PendingCodesBounded
  BY AuthP!PendingCodesCorrect, Assumptions, NoPrincipalAssumption, OwnerLabelAssumption
<1> QED BY <1>1, <1>2, <1>3, <1>4, <1>5, <1>6, ServerRegisters, PTL

\* Codes outlive the server that checked their redirect URI; a token response
\* under another allowlist is for a listed URI or continues older tokens.
THEOREM ServerHonoursList == SessionSpec => ListIsHonoured
<1>1. AuthP!RegistrationSpec => [][AuthP!OnlyListedGain]_(AuthP!registrationVars)
  BY AuthP!AllowlistHonoured, Assumptions, NoPrincipalAssumption, OwnerLabelAssumption
<1>2. [AuthP!OnlyListedGain]_(AuthP!registrationVars) => [Auth!OnlyListedGain]_sessionVars
  BY DEF AuthP!OnlyListedGain, Auth!OnlyListedGain, AuthP!registrationVars, AuthP!vars
<1> QED BY <1>1, <1>2, ServerRegisters, PTL DEF ListIsHonoured
------------------------------------------------------------------------------
\* A call in flight was let in for an active actor whose present password had
\* been proved, or was overtaken since.
CallsTrusted ==
  \A c \in calls :
    /\ c \in [principal : Principals, actor : Labels, gen : 0..MaxRotations,
             overtaken : BOOLEAN]
    /\ \/ c.overtaken
       \/ /\ c.actor \in active
          /\ c.gen = generation[c.actor] \/ c.actor \in raced

\* Steps that neither admit a call nor touch an actor.
LEMMA TrustKept ==
  ASSUME CallsTrusted, calls' \subseteq calls, active \subseteq active', raced \subseteq raced',
         generation' = generation
  PROVE  CallsTrusted'
  BY DEF CallsTrusted

\* Rotation and deactivation overtake the actor's calls, and no others.
LEMMA OvertakeTrusted ==
  ASSUME CallsTrusted, AuthP!TypeOK, NEW a \in Labels, SetActorPassword(a) \/ DeactivateActor(a)
  PROVE  CallsTrusted'
<1>1. /\ \A x \in Labels \ {a} : /\ x \in active => x \in active'
                                 /\ generation'[x] = generation[x]
      /\ raced \subseteq raced'
  BY DEF SetActorPassword, DeactivateActor, Auth!SetActorPassword, Auth!DeactivateActor,
         Auth!Activate, Auth!Deactivate, AuthP!TypeOK
<1>2. calls' = {IF c.actor = a THEN [c EXCEPT !.overtaken = TRUE] ELSE c : c \in calls}
  BY DEF SetActorPassword, DeactivateActor, Overtake
<1> DEFINE Typed == [principal : Principals, actor : Labels, gen : 0..MaxRotations,
                     overtaken : BOOLEAN]
           Trusted(c) == \/ c.overtaken
                         \/ /\ c.actor \in active'
                            /\ c.gen = generation'[c.actor] \/ c.actor \in raced'
<1>3. ASSUME NEW c \in calls, c.actor = a
      PROVE  [c EXCEPT !.overtaken = TRUE] \in Typed /\ Trusted([c EXCEPT !.overtaken = TRUE])
  BY DEF CallsTrusted
<1>4. ASSUME NEW c \in calls, c.actor # a PROVE c \in Typed /\ Trusted(c)
  BY <1>1, <1>4 DEF CallsTrusted
<1>5. \A d \in calls' : d \in Typed /\ Trusted(d)
  BY <1>2, <1>3, <1>4
<1> QED BY <1>5 DEF CallsTrusted

\* AccessIdentity answers for tokens of active actors only, and OAuth keeps
\* none of an earlier password, the race apart.
LEMMA AdmitTrusted ==
  ASSUME CallsTrusted, AuthP!TypeOK, AuthP!RotationRevokesUnlessRaced,
         NEW k \in tokens, Admit(k)
  PROVE  CallsTrusted'
<1>1. /\ k.grant.actor \in active /\ k.grant.actor \in Labels
      /\ principalOf[k.grant.actor] \in Principals /\ k.grant.gen \in 0..MaxRotations
      /\ k.grant.gen = generation[k.grant.actor] \/ k.grant.actor \in raced
  BY DEF Admit, ValidTokens, AuthP!TypeOK, AuthP!ActorsTypeOK, AuthP!Rows, AuthP!Grants,
         AuthP!RotationRevokesUnlessRaced
<1> DEFINE new == [principal |-> principalOf[k.grant.actor], actor |-> k.grant.actor,
                   gen |-> k.grant.gen, overtaken |-> FALSE]
<1>2. calls' = calls \cup {new} /\ UNCHANGED <<active, generation, raced>>
  BY DEF Admit, actorVars, authVars
<1>3. /\ new \in [principal : Principals, actor : Labels, gen : 0..MaxRotations,
                overtaken : BOOLEAN]
      /\ new.actor \in active
      /\ new.gen = generation[new.actor] \/ new.actor \in raced
  BY <1>1
<1> HIDE DEF new
<1> QED BY <1>2, <1>3 DEF CallsTrusted

LEMMA TrustStep ==
  CallsTrusted /\ AuthP!TypeOK /\ AuthP!RotationRevokesUnlessRaced /\ [SessionNext]_sessionVars
    => CallsTrusted'
<1> SUFFICES ASSUME CallsTrusted, AuthP!TypeOK, AuthP!RotationRevokesUnlessRaced,
                    [SessionNext]_sessionVars
             PROVE  CallsTrusted'
  OBVIOUS
<1>1. CASE UNCHANGED sessionVars
  BY <1>1 DEF sessionVars, actorVars, authVars, CallsTrusted
<1>2. ASSUME NEW p \in Principals, NEW a \in Labels, RegisterActor(p, a)
      PROVE  CallsTrusted'
  BY <1>2, TrustKept DEF RegisterActor, Auth!RegisterActor, Auth!InsertActor
<1>3. CASE OAuthStep
  BY <1>3, TrustKept
  DEF OAuthStep, Auth!actorVars, Auth!HandleRegister, Auth!vars, Auth!HandleAuthorize,
      Auth!Authenticate, Auth!ExchangeCode, Auth!ConsumeCode, Auth!ExchangeRefresh,
      Auth!ConsumeRefresh, Auth!AnswerWithTokens, Auth!PutTokens, Auth!StorePair,
      Auth!OtherStep, Auth!OpenDatabase, Auth!Tick, Auth!PutCode, Auth!PutCodeBusy,
      Auth!PutTokensForbidden, Auth!StoreFails
<1>4. ASSUME NEW list \in SUBSET Redirects, Restart(list) PROVE CallsTrusted'
  BY <1>4 DEF Restart, CallsTrusted
<1>5. CASE StoreStep
  <2>1. UNCHANGED <<authVars, calls>>
    BY <1>5 DEF StoreStep
  <2>2. UNCHANGED active
    BY <1>5
    DEF StoreStep, Store!actorVars, Store!CreateThread, Store!PostOwnerMessage,
        Store!TombstoneThread, Store!MarkThreadDeleted, Store!MarkMessageDeleted,
        Store!Grant, Store!Revoke, Store!RemoveGrant, Store!GrantOwnerActor, Store!OwnerMayGrant,
        Store!RevokeOwnerActor, Store!MigrateV0Threads, Store!GarbageCollect
  <2> QED BY <2>1, <2>2, TrustKept DEF authVars
<1>6. ASSUME NEW c \in calls, Answer(c) PROVE CallsTrusted'
  BY <1>6, TrustKept DEF Answer, actorVars, authVars
<1>7. ASSUME NEW c \in calls, NEW t \in Threads, NEW r \in 0..MaxEventId,
             NEW content \in BOOLEAN, PostMessage(c, t, r, content)
      PROVE  CallsTrusted'
  BY <1>7, TrustKept DEF PostMessage, Store!PostMessage, Store!actorVars, authVars
<1> QED
  BY <1>1, <1>2, <1>3, <1>4, <1>5, <1>6, <1>7, OvertakeTrusted, AdmitTrusted DEF SessionNext

\* Every /mcp request that is past the token check is of a proved password.
THEOREM CallsCorrect == SessionSpec => []CallsTrusted
<1>1. SessionInit => CallsTrusted
  BY DEF SessionInit, CallsTrusted
<1> QED BY <1>1, TrustStep, ServerKeepsOAuth, PTL DEF SessionSpec
------------------------------------------------------------------------------
\* Seen from the store: OAuth is not there, and a post of the store comes from
\* a call.
LEMMA StoreStepOrNone == CallsTrusted /\ SessionNext => [Store!Next]_(Store!vars)
<1> SUFFICES ASSUME CallsTrusted, SessionNext PROVE [Store!Next]_(Store!vars)
  OBVIOUS
<1> DEFINE Quiet == UNCHANGED <<actorVars, storeVars>>
<1>0. Quiet => UNCHANGED Store!vars
  BY DEF actorVars, storeVars, Store!vars, Store!threadVars, Store!eventVars, Store!actorVars
<1>1. ASSUME NEW p \in Principals, NEW a \in Labels, RegisterActor(p, a)
      PROVE  Store!Next
  BY <1>1 DEF RegisterActor, Store!Next
<1>2. ASSUME NEW a \in Labels, SetActorPassword(a) \/ DeactivateActor(a)
      PROVE  Store!Next
  BY <1>2 DEF SetActorPassword, DeactivateActor, Store!Next
<1>3. CASE OAuthStep
  <2>1. UNCHANGED storeVars
    BY <1>3 DEF OAuthStep
  <2>2. UNCHANGED actorVars
    BY <1>3
    DEF OAuthStep, actorVars, Auth!actorVars, Auth!HandleRegister, Auth!vars,
        Auth!HandleAuthorize, Auth!Authenticate, Auth!ExchangeCode, Auth!ConsumeCode,
        Auth!ExchangeRefresh, Auth!ConsumeRefresh, Auth!AnswerWithTokens, Auth!PutTokens,
        Auth!StorePair, Auth!OtherStep, Auth!OpenDatabase, Auth!Tick, Auth!PutCode,
        Auth!PutCodeBusy, Auth!PutTokensForbidden, Auth!StoreFails
  <2> QED BY <1>0, <2>1, <2>2
<1>4. ASSUME NEW list \in SUBSET Redirects, Restart(list) PROVE Quiet
  BY <1>4 DEF Restart, Auth!StartServer, Auth!Restart, Auth!actorVars, actorVars
<1>5. CASE StoreStep
  BY <1>5 DEF StoreStep, Store!Next
<1>6. ASSUME NEW k \in tokens, Admit(k) PROVE Quiet
  BY <1>6 DEF Admit
<1>7. ASSUME NEW c \in calls, Answer(c) PROVE Quiet
  BY <1>7 DEF Answer
<1>8. ASSUME NEW c \in calls, NEW t \in Threads, NEW r \in 0..MaxEventId,
             NEW content \in BOOLEAN, PostMessage(c, t, r, content)
      PROVE  Store!Next
  <2>1. Store!PostMessage(t, c.principal, c.actor, r, content)
    BY <1>8 DEF PostMessage
  <2>2. c.principal \in Principals /\ c.actor \in Labels
    BY DEF CallsTrusted
  <2>3. r \in Store!Ids \cup {Store!NoRef}
    BY MCPAssumption DEF Store!Ids, Store!NoRef, Store!MaxEventIdAssumption
  <2> QED BY <2>1, <2>2, <2>3 DEF Store!Next
<1> QED BY <1>0, <1>1, <1>2, <1>3, <1>4, <1>5, <1>6, <1>7, <1>8 DEF SessionNext

\* StoreP's operators are Store's.
LEMMA StoreSame ==
  /\ Store!Init => StoreP!Init
  /\ [Store!Next]_(Store!vars) => [StoreP!Next]_(StoreP!vars)
<1>1. Store!Init => StoreP!Init
  BY DEF Store!Init, Store!ActorsInit, StoreP!Init, StoreP!ActorsInit
<1>2. Store!Next => StoreP!Next
  BY Zenon DEF
      Store!actorVars, Store!Registered, Store!Reserved, Store!InsertActor, Store!Activate,
      Store!Deactivate, Store!threadVars, Store!eventVars, Store!vars, Store!Ids,
      Store!NoRef, Store!Open, Store!Authorized, Store!OwnedBy, Store!EventsOf,
      Store!IdsOf, Store!NextId, Store!Append, Store!RegisterActor, Store!SetActorPassword,
      Store!DeactivateActor, Store!CreateThread, Store!Grant, Store!RemoveGrant,
      Store!Revoke, Store!GrantOwnerActor, Store!OwnerMayGrant, Store!RevokeOwnerActor,
      Store!MigrateV0Threads, Store!SourceReadable, Store!PostMessage, Store!PostOwnerMessage,
      Store!TombstoneThread, Store!MarkMessageDeleted, Store!MarkThreadDeleted,
      Store!Doomed, Store!ErasedPayloads, Store!CascadedIds, Store!GarbageCollect,
      Store!Next,
      StoreP!actorVars, StoreP!Registered, StoreP!Reserved, StoreP!InsertActor,
      StoreP!Activate, StoreP!Deactivate, StoreP!threadVars, StoreP!eventVars, StoreP!vars,
      StoreP!Ids, StoreP!NoRef, StoreP!Open, StoreP!Authorized, StoreP!OwnedBy,
      StoreP!EventsOf, StoreP!IdsOf, StoreP!NextId, StoreP!Append, StoreP!RegisterActor,
      StoreP!SetActorPassword, StoreP!DeactivateActor, StoreP!CreateThread, StoreP!Grant,
      StoreP!RemoveGrant, StoreP!Revoke, StoreP!GrantOwnerActor, StoreP!OwnerMayGrant,
      StoreP!RevokeOwnerActor, StoreP!MigrateV0Threads, StoreP!SourceReadable, StoreP!PostMessage,
      StoreP!PostOwnerMessage, StoreP!TombstoneThread, StoreP!MarkMessageDeleted,
      StoreP!MarkThreadDeleted, StoreP!Doomed, StoreP!ErasedPayloads, StoreP!CascadedIds,
      StoreP!GarbageCollect, StoreP!Next
<1>3. UNCHANGED Store!vars => UNCHANGED StoreP!vars
  BY DEF Store!vars, Store!threadVars, Store!eventVars, Store!actorVars,
         StoreP!vars, StoreP!threadVars, StoreP!eventVars, StoreP!actorVars
<1> QED BY <1>1, <1>2, <1>3

\* The server implements the thread store: whatever holds of it holds here.
THEOREM ServerKeepsStore == SessionSpec => StoreP!Spec
<1>1. SessionInit => StoreP!Init
  BY StoreSame DEF SessionInit
<1>2. CallsTrusted /\ [SessionNext]_sessionVars => [StoreP!Next]_(StoreP!vars)
  <2>1. UNCHANGED sessionVars => UNCHANGED Store!vars
    BY DEF sessionVars, actorVars, storeVars, Store!vars, Store!threadVars, Store!eventVars,
           Store!actorVars
  <2> QED BY <2>1, StoreStepOrNone, StoreSame
<1> QED BY <1>1, <1>2, CallsCorrect, PTL DEF SessionSpec, StoreP!Spec

\* An actor's message needs its password, all the way from the login form to
\* the events table; what slips through was in flight during the rotation.
THEOREM PostsCorrect == SessionSpec => PostsProvePassword
<1> DEFINE Proved(e) ==
      \E c \in calls :
        /\ c.principal = e.principal /\ c.actor = e.actor
        /\ \/ c.overtaken
           \/ /\ e.actor \in active
              /\ c.gen = generation[e.actor] \/ e.actor \in raced
<1>1. ASSUME CallsTrusted, SessionNext, NEW e \in events' \ events, e.actor # OwnerLabel
      PROVE  Proved(e)
  <2>1. ASSUME NEW c \in calls, NEW t \in Threads, NEW r \in 0..MaxEventId,
               NEW content \in BOOLEAN, PostMessage(c, t, r, content)
        PROVE  Proved(e)
    <3>1. e.principal = c.principal /\ e.actor = c.actor
      BY <1>1, <2>1 DEF PostMessage, Store!PostMessage, Store!Append
    <3> QED BY <1>1, <3>1 DEF CallsTrusted
  <2>2. CASE StoreStep
    <3>1. ASSUME NEW t \in Threads, NEW p \in Principals,
                 Store!PostOwnerMessage(t, p) \/ Store!TombstoneThread(t, p)
          PROVE  e.actor = OwnerLabel
      BY <1>1, <3>1 DEF Store!PostOwnerMessage, Store!TombstoneThread, Store!Append
    <3>2. ASSUME NEW p \in Principals, Store!GarbageCollect(p)
          PROVE  FALSE
      BY <1>1, <3>2 DEF Store!GarbageCollect
    <3>3. \/ events' = events
          \/ \E t \in Threads, p \in Principals :
               Store!PostOwnerMessage(t, p) \/ Store!TombstoneThread(t, p)
          \/ \E p \in Principals : Store!GarbageCollect(p)
      BY <2>2
      DEF StoreStep, Store!eventVars, Store!CreateThread, Store!MarkThreadDeleted,
          Store!MarkMessageDeleted, Store!Grant, Store!Revoke, Store!GrantOwnerActor,
          Store!OwnerMayGrant, Store!RevokeOwnerActor, Store!MigrateV0Threads
    <3> QED BY <1>1, <3>1, <3>2, <3>3
  <2>3. \/ events' = events \/ StoreStep
        \/ \E c \in calls, t \in Threads, r \in 0..MaxEventId, content \in BOOLEAN :
             PostMessage(c, t, r, content)
    BY <1>1
    DEF SessionNext, RegisterActor, Store!RegisterActor, SetActorPassword,
        Store!SetActorPassword, DeactivateActor, Store!DeactivateActor, Store!eventVars,
        OAuthStep, Restart, Admit, Answer, storeVars
  <2> QED BY <1>1, <2>1, <2>2, <2>3
<1>2. CallsTrusted /\ [SessionNext]_sessionVars =>
        [\A e \in events' \ events : e.actor # OwnerLabel => Proved(e)]_sessionVars
  BY <1>1
<1> QED BY <1>2, CallsCorrect, PTL DEF SessionSpec, PostsProvePassword
==============================================================================

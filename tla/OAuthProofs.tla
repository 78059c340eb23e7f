----------------------------- MODULE OAuthProofs -----------------------------
(***************************************************************************)
(* Theorems about OAuth, for every set of actors, clients and handlers and *)
(* every lifetime and bound.                                               *)
(***************************************************************************)
EXTENDS OAuth, FiniteSetTheorems, TLAPS

\* What a handler holds was proved with the present password, unless the
\* actor was rotated meanwhile: PutCode and PutTokens write it to the tables.
HandlersCurrent ==
  \A r \in Requests :
    req[r] # Idle =>
      \/ req[r].grant.actor \in raced
      \/ req[r].grant.gen = generation[req[r].grant.actor]

IInv ==
  /\ TypeOK
  /\ RotationRevokesUnlessRaced
  /\ HandlersCurrent
  /\ InactiveHasNoToken
------------------------------------------------------------------------------
\* An empty database and no handler satisfy the invariant.
LEMMA InitInv == Init => IInv
  BY OAuthAssumption, NoPrincipalAssumption
  DEF Init, IInv, TypeOK, RotationRevokesUnlessRaced, HandlersCurrent,
      InactiveHasNoToken, ActorsInit, ActorsTypeOK

\* Steps that write no code, no token and no new grant: purges, failures and
\* the ends of handlers.
LEMMA ShrinkStep ==
  ASSUME IInv, codes' \subseteq codes, tokens' \subseteq tokens,
         req' \in [Requests -> Handlers \cup {Idle}],
         \A r \in Requests : req'[r] \in {req[r], Idle},
         now' \in 0..MaxTime,
         UNCHANGED <<actorVars, generation, serial, raced>>
  PROVE  IInv'
<1>1. TypeOK'
  BY DEF IInv, TypeOK, ActorsTypeOK, actorVars
<1>2. RotationRevokesUnlessRaced' /\ InactiveHasNoToken'
  BY DEF IInv, RotationRevokesUnlessRaced, InactiveHasNoToken, actorVars
<1>3. HandlersCurrent'
  BY DEF IInv, HandlersCurrent
<1> QED BY <1>1, <1>2, <1>3 DEF IInv

\* A purge only removes rows.
LEMMA PurgeShrinks ==
  ASSUME PurgeExpired
  PROVE  codes' \subseteq codes /\ tokens' \subseteq tokens
  BY DEF PurgeExpired, AfterPurge

LEMMA HousekeepingInv ==
  ASSUME IInv, OpenDatabase \/ Restart \/ Tick
  PROVE  IInv'
<1>1. CASE OpenDatabase
  <2>1. codes' \subseteq codes /\ tokens' \subseteq tokens
    BY <1>1, PurgeShrinks DEF OpenDatabase
  <2> QED BY <1>1, <2>1, ShrinkStep DEF OpenDatabase, IInv, TypeOK
<1>2. CASE Restart
  <2>1. codes' \subseteq codes /\ tokens' \subseteq tokens
    BY <1>2, PurgeShrinks DEF Restart
  <2> QED BY <1>2, <2>1, ShrinkStep DEF Restart, IInv, TypeOK
<1>3. CASE Tick
  <2>1. now' \in 0..MaxTime
    BY <1>3, OAuthAssumption DEF Tick, IInv, TypeOK
  <2> QED BY <1>3, <2>1, ShrinkStep DEF Tick, IInv, TypeOK
<1> QED BY <1>1, <1>2, <1>3

\* Handlers that end without storing anything.
LEMMA EndInv ==
  ASSUME IInv, NEW r \in Requests,
         PutCodeBusy(r) \/ PutTokensForbidden(r) \/ StoreFails(r)
  PROVE  IInv'
<1>1. Finish(r) /\ UNCHANGED <<actorVars, generation, codes, tokens, serial, now, raced>>
  BY DEF PutCodeBusy, PutTokensForbidden, StoreFails
<1>2. req' \in [Requests -> Handlers \cup {Idle}]
  BY <1>1 DEF Finish, IInv, TypeOK
<1>3. \A q \in Requests : req'[q] \in {req[q], Idle}
  BY <1>1 DEF Finish, IInv, TypeOK
<1>4. now' \in 0..MaxTime
  BY <1>1 DEF IInv, TypeOK
<1> QED BY <1>1, <1>2, <1>3, <1>4, ShrinkStep
------------------------------------------------------------------------------
\* Registration inserts an active label and touches no grant.
LEMMA RegisterInv ==
  ASSUME IInv, NEW p \in Principals, NEW a \in Labels, RegisterActor(p, a)
  PROVE  IInv'
<1>1. TypeOK'
  BY NoPrincipalAssumption DEF RegisterActor, InsertActor, IInv, TypeOK, ActorsTypeOK
<1>2. RotationRevokesUnlessRaced' /\ HandlersCurrent' /\ InactiveHasNoToken'
  BY DEF RegisterActor, InsertActor, IInv, RotationRevokesUnlessRaced,
         HandlersCurrent, InactiveHasNoToken
<1> QED BY <1>1, <1>2 DEF IInv

\* A rotation deletes the actor's rows; what handlers hold of the actor is
\* noted in raced.
LEMMA RotateInv ==
  ASSUME IInv, NEW a \in Labels, SetActorPassword(a)
  PROVE  IInv'
<1>1. TypeOK'
  BY OAuthAssumption, NoPrincipalAssumption
  DEF SetActorPassword, Activate, Registered, RevokeActorState, KeepOthers,
      IInv, TypeOK, ActorsTypeOK
<1>2. \A b \in Labels : b # a => generation'[b] = generation[b]
  BY DEF SetActorPassword, IInv, TypeOK
<1>3. \A k \in codes' \cup tokens' :
        k \in codes \cup tokens /\ k.grant.actor # a /\ k.grant.actor \in Labels
  BY DEF SetActorPassword, RevokeActorState, KeepOthers, IInv, TypeOK, Rows, Grants
<1>4. raced \subseteq raced'
  BY DEF SetActorPassword
<1>5. RotationRevokesUnlessRaced'
  BY <1>2, <1>3, <1>4 DEF IInv, RotationRevokesUnlessRaced
<1>6. HandlersCurrent'
  <2> SUFFICES ASSUME NEW r \in Requests, req'[r] # Idle
               PROVE  \/ req'[r].grant.actor \in raced'
                      \/ req'[r].grant.gen = generation'[req'[r].grant.actor]
    BY DEF HandlersCurrent
  <2>1. req' = req
    BY DEF SetActorPassword
  <2>2. req[r].grant.actor \in Labels
    BY <2>1 DEF IInv, TypeOK, Handlers, Grants
  <2>3. CASE req[r].grant.actor = a
    BY <2>1, <2>3 DEF SetActorPassword, Holds
  <2>4. CASE req[r].grant.actor # a
    BY <1>2, <1>4, <2>1, <2>2, <2>4 DEF IInv, HandlersCurrent
  <2> QED BY <2>3, <2>4
<1>7. InactiveHasNoToken'
  BY DEF SetActorPassword, Activate, RevokeActorState, KeepOthers, IInv, InactiveHasNoToken
<1> QED BY <1>1, <1>5, <1>6, <1>7 DEF IInv

\* A deactivation deletes the actor's rows.
LEMMA DeactivateInv ==
  ASSUME IInv, NEW a \in Labels, DeactivateActor(a)
  PROVE  IInv'
<1>1. TypeOK'
  BY DEF DeactivateActor, Deactivate, RevokeActorState, KeepOthers, IInv, TypeOK, ActorsTypeOK
<1>2. RotationRevokesUnlessRaced' /\ HandlersCurrent'
  BY DEF DeactivateActor, RevokeActorState, KeepOthers, IInv,
         RotationRevokesUnlessRaced, HandlersCurrent
<1>3. InactiveHasNoToken'
  BY DEF DeactivateActor, Deactivate, RevokeActorState, KeepOthers, IInv, InactiveHasNoToken
<1> QED BY <1>1, <1>2, <1>3 DEF IInv
------------------------------------------------------------------------------
\* A handler takes hold of a grant that is current.
LEMMA TakeStep ==
  ASSUME IInv, NEW r \in Requests, NEW h \in Handlers,
         req' = [req EXCEPT ![r] = h],
         h.grant.actor \in raced \/ h.grant.gen = generation[h.grant.actor],
         codes' \subseteq codes, tokens' \subseteq tokens,
         UNCHANGED <<actorVars, generation, serial, now, raced>>
  PROVE  IInv'
<1>1. TypeOK'
  BY DEF IInv, TypeOK, ActorsTypeOK, actorVars
<1>2. RotationRevokesUnlessRaced' /\ InactiveHasNoToken'
  BY DEF IInv, RotationRevokesUnlessRaced, InactiveHasNoToken, actorVars
<1>3. HandlersCurrent'
  BY DEF IInv, HandlersCurrent, TypeOK
<1> QED BY <1>1, <1>2, <1>3 DEF IInv

LEMMA AuthenticateInv ==
  ASSUME IInv, NEW r \in Requests, NEW a \in Labels, NEW c \in Clients,
         Authenticate(r, a, c)
  PROVE  IInv'
<1> DEFINE g == [actor |-> a, client |-> c, gen |-> generation[a], lineage |-> 0]
           h == [step |-> "authenticated", grant |-> g]
<1>1. h \in Handlers
  BY OAuthAssumption DEF Handlers, Grants, IInv, TypeOK
<1>2. h.grant.gen = generation[h.grant.actor]
  OBVIOUS
<1>3. req' = [req EXCEPT ![r] = h]
      /\ UNCHANGED <<actorVars, generation, codes, tokens, serial, now, raced>>
  BY DEF Authenticate
<1> HIDE DEF h
<1> QED BY <1>1, <1>2, <1>3, TakeStep

\* Consuming a row turns it into a grant that a handler holds.
LEMMA ConsumeInv ==
  ASSUME IInv, NEW r \in Requests, NEW c \in Clients, NEW k \in codes \cup tokens,
         ConsumeCode(r, c, k) \/ ConsumeRefresh(r, c, k)
  PROVE  IInv'
<1> DEFINE h == [step |-> "consumed", grant |-> k.grant]
<1>1. h \in Handlers
  BY DEF Handlers, IInv, TypeOK, Rows
<1>2. h.grant.actor \in raced \/ h.grant.gen = generation[h.grant.actor]
  BY DEF IInv, RotationRevokesUnlessRaced
<1>3. codes' \subseteq codes /\ tokens' \subseteq tokens
      /\ UNCHANGED <<actorVars, generation, serial, now, raced>>
  BY DEF ConsumeCode, ConsumeRefresh
<1>4. req' = req \/ req' = [req EXCEPT ![r] = h]
  BY DEF ConsumeCode, ConsumeRefresh, Hold
<1> HIDE DEF h
<1>5. CASE req' = req
  <2>1. now' \in 0..MaxTime /\ req' \in [Requests -> Handlers \cup {Idle}]
    BY <1>3, <1>5 DEF IInv, TypeOK
  <2> QED BY <1>3, <1>5, <2>1, ShrinkStep
<1>6. CASE req' = [req EXCEPT ![r] = h]
  BY <1>1, <1>2, <1>3, <1>6, TakeStep
<1> QED BY <1>4, <1>5, <1>6
------------------------------------------------------------------------------
\* A handler stores rows for the grant it holds.  Tokens need an active actor.
LEMMA StoreStep ==
  ASSUME IInv, NEW r \in Requests, req[r] # Idle, Finish(r),
         NEW C \in SUBSET {k \in Rows : k.kind = "code"},
         NEW K \in SUBSET {k \in Rows : k.kind # "code"},
         \A k \in C \cup K : /\ k.grant.actor = req[r].grant.actor
                             /\ k.grant.gen = req[r].grant.gen,
         \A k \in K : k.grant.actor \in active,
         codes' \subseteq codes \cup C, tokens' \subseteq tokens \cup K,
         serial' \in 0..MaxSerial,
         UNCHANGED <<actorVars, generation, now, raced>>
  PROVE  IInv'
<1>1. TypeOK'
  BY DEF Finish, IInv, TypeOK, ActorsTypeOK, actorVars
<1>2. RotationRevokesUnlessRaced'
  <2>1. \A k \in C \cup K :
          k.grant.actor \in raced \/ k.grant.gen = generation[k.grant.actor]
    BY DEF IInv, HandlersCurrent
  <2> QED BY <2>1 DEF IInv, RotationRevokesUnlessRaced
<1>3. HandlersCurrent'
  BY DEF Finish, IInv, HandlersCurrent, TypeOK
<1>4. InactiveHasNoToken'
  BY DEF IInv, InactiveHasNoToken, actorVars
<1> QED BY <1>1, <1>2, <1>3, <1>4 DEF IInv

LEMMA PutCodeInv ==
  ASSUME IInv, NEW r \in Requests, PutCode(r)
  PROVE  IInv'
<1>1. req[r] \in Handlers /\ req[r] # Idle
  BY DEF PutCode, At, IInv, TypeOK
<1> DEFINE g == [req[r].grant EXCEPT !.lineage = serial + 1]
           k == [serial |-> serial + 1, kind |-> "code",
                 expires |-> now + CodeTTL, grant |-> g]
<1>2. serial + 1 \in 1..MaxSerial /\ serial' = serial + 1
  BY OAuthAssumption DEF PutCode, IInv, TypeOK
<1>3. g \in Grants /\ g.actor = req[r].grant.actor /\ g.gen = req[r].grant.gen
  BY <1>1, <1>2 DEF Handlers, Grants
<1>4. now + CodeTTL \in Nat
  BY OAuthAssumption DEF IInv, TypeOK
<1>5. k \in Rows /\ k.kind = "code"
  BY <1>2, <1>3, <1>4 DEF Rows
<1>6. codes' \subseteq codes \cup {k}
  BY <1>2 DEF PutCode, AfterPurge
<1>7. tokens' \subseteq tokens
  BY DEF PutCode, AfterPurge
<1>8. Finish(r) /\ UNCHANGED <<actorVars, generation, now, raced>>
  BY DEF PutCode
<1>9. k.grant.actor = req[r].grant.actor /\ k.grant.gen = req[r].grant.gen
  BY <1>3
<1> HIDE DEF k
<1> DEFINE C == {k}
           K == {}
<1>10. /\ C \in SUBSET {x \in Rows : x.kind = "code"}
       /\ K \in SUBSET {x \in Rows : x.kind # "code"}
  BY <1>5
<1>11. /\ \A x \in C \cup K : /\ x.grant.actor = req[r].grant.actor
                             /\ x.grant.gen = req[r].grant.gen
       /\ \A x \in K : x.grant.actor \in active
  BY <1>9
<1>12. codes' \subseteq codes \cup C /\ tokens' \subseteq tokens \cup K
  BY <1>6, <1>7
<1>13. serial' \in 0..MaxSerial
  BY <1>2, OAuthAssumption
<1> HIDE DEF C, K
<1> QED BY <1>1, <1>8, <1>10, <1>11, <1>12, <1>13, StoreStep

LEMMA PutTokensInv ==
  ASSUME IInv, NEW r \in Requests, PutTokens(r)
  PROVE  IInv'
<1>1. req[r] \in Handlers /\ req[r] # Idle /\ req[r].grant.actor \in active
  BY DEF PutTokens, At, IInv, TypeOK
<1> DEFINE x == TokenRow("access", serial + 1, req[r].grant, AccessTTL)
           y == TokenRow("refresh", serial + 1, req[r].grant, RefreshTTL)
<1>2. serial + 1 \in 1..MaxSerial /\ serial' = serial + 1
  BY OAuthAssumption DEF PutTokens, StorePair, IInv, TypeOK
<1>3. now + AccessTTL \in Nat /\ now + RefreshTTL \in Nat
  BY OAuthAssumption DEF IInv, TypeOK
<1>4. req[r].grant \in Grants
  BY <1>1 DEF Handlers
<1>5. x \in Rows /\ x.kind # "code" /\ x.grant = req[r].grant
  BY <1>2, <1>3, <1>4 DEF Rows, TokenRow
<1>6. y \in Rows /\ y.kind # "code" /\ y.grant = req[r].grant
  BY <1>2, <1>3, <1>4 DEF Rows, TokenRow
<1>7. tokens' \subseteq tokens \cup {x, y}
  BY <1>2 DEF PutTokens, StorePair, AfterPurge
<1>8. codes' \subseteq codes
  BY DEF PutTokens, StorePair, AfterPurge
<1>9. Finish(r) /\ UNCHANGED <<actorVars, generation, now, raced>>
  BY DEF PutTokens, StorePair
<1> HIDE DEF x, y
<1> DEFINE C == {}
           K == {x, y}
<1>10. /\ C \in SUBSET {k \in Rows : k.kind = "code"}
       /\ K \in SUBSET {k \in Rows : k.kind # "code"}
  BY <1>5, <1>6
<1>11. /\ \A k \in C \cup K : /\ k.grant.actor = req[r].grant.actor
                             /\ k.grant.gen = req[r].grant.gen
       /\ \A k \in K : k.grant.actor \in active
  BY <1>1, <1>5, <1>6
<1>12. codes' \subseteq codes \cup C /\ tokens' \subseteq tokens \cup K
  BY <1>7, <1>8
<1>13. serial' \in 0..MaxSerial
  BY <1>2, OAuthAssumption
<1> HIDE DEF C, K
<1> QED BY <1>1, <1>9, <1>10, <1>11, <1>12, <1>13, StoreStep
------------------------------------------------------------------------------
LEMMA NextInv == IInv /\ [Next]_vars => IInv'
<1> SUFFICES ASSUME IInv, [Next]_vars PROVE IInv'
  OBVIOUS
<1>1. CASE \E p \in Principals, a \in Labels : RegisterActor(p, a)
  BY <1>1, RegisterInv
<1>2. CASE \E a \in Labels : SetActorPassword(a) \/ DeactivateActor(a)
  BY <1>2, RotateInv, DeactivateInv
<1>3. CASE OpenDatabase \/ Restart \/ Tick
  BY <1>3, HousekeepingInv
<1>4. CASE \E r \in Requests, a \in Labels, c \in Clients : Authenticate(r, a, c)
  BY <1>4, AuthenticateInv
<1>5. CASE \E r \in Requests, c \in Clients : \E k \in codes : ConsumeCode(r, c, k)
  BY <1>5, ConsumeInv
<1>6. CASE \E r \in Requests, c \in Clients : \E k \in tokens : ConsumeRefresh(r, c, k)
  BY <1>6, ConsumeInv
<1>7. CASE \E r \in Requests : PutCode(r) \/ PutTokens(r)
  BY <1>7, PutCodeInv, PutTokensInv
<1>8. CASE \E r \in Requests : PutCodeBusy(r) \/ PutTokensForbidden(r) \/ StoreFails(r)
  BY <1>8, EndInv
<1>9. CASE UNCHANGED vars
  BY <1>9 DEF vars, actorVars, IInv, TypeOK, ActorsTypeOK,
         RotationRevokesUnlessRaced, HandlersCurrent, InactiveHasNoToken
<1> QED BY <1>1, <1>2, <1>3, <1>4, <1>5, <1>6, <1>7, <1>8, <1>9 DEF Next

\* The inductive invariant holds throughout.
THEOREM Invariance == Spec => []IInv
  BY InitInv, NextInv, PTL DEF Spec

\* Every variable keeps its type: the code, token and handler records are
\* what the tables and the Go structs can hold.
THEOREM TypeCorrect == Spec => []TypeOK
<1>1. IInv => TypeOK
  BY DEF IInv
<1> QED BY <1>1, Invariance, PTL

\* However requests and rotations interleave, a code or token of an earlier
\* password can only be one that a handler held while it was rotated.
THEOREM RotationCorrect == Spec => []RotationRevokesUnlessRaced
<1>1. IInv => RotationRevokesUnlessRaced
  BY DEF IInv
<1> QED BY <1>1, Invariance, PTL

\* A deactivated actor has no token, whatever handlers were in flight.
THEOREM InactiveCorrect == Spec => []InactiveHasNoToken
<1>1. IInv => InactiveHasNoToken
  BY DEF IInv
<1> QED BY <1>1, Invariance, PTL
------------------------------------------------------------------------------
\* Lineages.  One authorization is, at any moment, one code, or one grant held
\* between its consumption and the new tokens, or one refresh token: what holds
\* it is unique, and every lineage in use has been started.
SpendableRow(k) == k \in codes \cup tokens /\ k.kind # "access"

LineageHeldOnce ==
  /\ \A k \in codes \cup tokens : k.grant.lineage \in 1..serial
  /\ \A r \in Requests : At(r, "consumed") => req[r].grant.lineage \in 1..serial
  /\ \A k, j \in codes \cup tokens :
       SpendableRow(k) /\ SpendableRow(j) /\ k.grant.lineage = j.grant.lineage => k = j
  /\ \A q, r \in Requests :
       /\ At(q, "consumed") /\ At(r, "consumed")
       /\ req[q].grant.lineage = req[r].grant.lineage
       => q = r
  /\ \A k \in codes \cup tokens, r \in Requests :
       SpendableRow(k) /\ At(r, "consumed") => k.grant.lineage # req[r].grant.lineage

\* Steps that store nothing and consume nothing.
LEMMA LineageShrinks ==
  ASSUME LineageHeldOnce, codes' \subseteq codes, tokens' \subseteq tokens,
         \A r \in Requests : At(r, "consumed")' => req'[r] = req[r],
         serial' = serial
  PROVE  LineageHeldOnce'
  BY DEF LineageHeldOnce, SpendableRow, At

\* A row that is consumed passes its lineage on to the handler.
LEMMA LineageConsumed ==
  ASSUME IInv, LineageHeldOnce, NEW r \in Requests, NEW c \in Clients,
         NEW k \in codes \cup tokens,
         \/ k \in codes /\ ConsumeCode(r, c, k)
         \/ k \in tokens /\ ConsumeRefresh(r, c, k)
  PROVE  LineageHeldOnce'
<1>1. /\ codes' \subseteq codes /\ tokens' \subseteq tokens
      /\ k \notin codes' \cup tokens'
      /\ SpendableRow(k)
      /\ serial' = serial
  BY DEF ConsumeCode, ConsumeRefresh, SpendableRow, IInv, TypeOK
<1>2. req' = req \/ Hold(r, k)
  BY DEF ConsumeCode, ConsumeRefresh
<1>3. CASE req' = req
  BY <1>1, <1>3, LineageShrinks DEF At
<1>4. CASE Hold(r, k)
  <2>1. /\ req'[r].grant = k.grant
        /\ \A q \in Requests : q # r => req'[q] = req[q]
    BY <1>4 DEF Hold, IInv, TypeOK
  <2>2. \A q \in Requests : q # r /\ At(q, "consumed")' =>
          /\ At(q, "consumed")
          /\ req'[q].grant.lineage = req[q].grant.lineage
          /\ req[q].grant.lineage # k.grant.lineage
    BY <1>1, <2>1 DEF At, LineageHeldOnce
  <2>3. /\ \A x \in codes' \cup tokens' : x.grant.lineage \in 1..serial'
        /\ \A q \in Requests : At(q, "consumed")' => req'[q].grant.lineage \in 1..serial'
    BY <1>1, <2>1, <2>2 DEF LineageHeldOnce
  <2>4. \A x, y \in codes' \cup tokens' :
          SpendableRow(x)' /\ SpendableRow(y)' /\ x.grant.lineage = y.grant.lineage => x = y
    BY <1>1 DEF LineageHeldOnce, SpendableRow
  <2>5. \A p, q \in Requests :
          /\ At(p, "consumed")' /\ At(q, "consumed")'
          /\ req'[p].grant.lineage = req'[q].grant.lineage
          => p = q
    BY <2>1, <2>2 DEF LineageHeldOnce
  <2>6. \A x \in codes' \cup tokens', q \in Requests :
          SpendableRow(x)' /\ At(q, "consumed")' => x.grant.lineage # req'[q].grant.lineage
    BY <1>1, <2>1, <2>2 DEF LineageHeldOnce, SpendableRow
  <2> QED BY <2>3, <2>4, <2>5, <2>6 DEF LineageHeldOnce
<1> QED BY <1>2, <1>3, <1>4

\* A code starts a lineage that nothing else can have.
LEMMA LineageStarted ==
  ASSUME IInv, LineageHeldOnce, NEW r \in Requests, PutCode(r)
  PROVE  LineageHeldOnce'
<1> DEFINE code == [serial |-> serial', kind |-> "code", expires |-> now + CodeTTL,
                    grant |-> [req[r].grant EXCEPT !.lineage = serial']]
<1>1. serial \in Nat /\ serial' = serial + 1
  BY DEF PutCode, IInv, TypeOK
<1>2. code.grant.lineage = serial'
  BY DEF PutCode, At, IInv, TypeOK, Handlers, Grants
<1>3. codes' \cup tokens' \subseteq codes \cup tokens \cup {code}
  BY DEF PutCode, AfterPurge
<1>4. \A q \in Requests : At(q, "consumed")' => At(q, "consumed") /\ req'[q] = req[q]
  BY DEF PutCode, Finish, At, IInv, TypeOK
<1> HIDE DEF code
<1>5. \A x \in codes' \cup tokens' :
        x = code \/ (x \in codes \cup tokens /\ x.grant.lineage \in 1..serial)
  BY <1>3 DEF LineageHeldOnce
<1>6. \A q \in Requests : At(q, "consumed")' => req'[q].grant.lineage \in 1..serial
  BY <1>4 DEF LineageHeldOnce
<1>7. serial' \notin 1..serial /\ 1..serial \subseteq 1..serial' /\ serial' \in 1..serial'
  BY <1>1
<1>8. \A x \in codes' \cup tokens' : x.grant.lineage \in 1..serial'
  BY <1>2, <1>5, <1>7
<1>9. \A x, y \in codes' \cup tokens' :
        SpendableRow(x)' /\ SpendableRow(y)' /\ x.grant.lineage = y.grant.lineage => x = y
  BY <1>2, <1>5, <1>7 DEF LineageHeldOnce, SpendableRow
<1>10. \A p, q \in Requests :
         /\ At(p, "consumed")' /\ At(q, "consumed")'
         /\ req'[p].grant.lineage = req'[q].grant.lineage
         => p = q
  BY <1>4 DEF LineageHeldOnce
<1>11. \A x \in codes' \cup tokens', q \in Requests :
         SpendableRow(x)' /\ At(q, "consumed")' => x.grant.lineage # req'[q].grant.lineage
  BY <1>2, <1>4, <1>5, <1>6, <1>7 DEF LineageHeldOnce, SpendableRow
<1> QED BY <1>6, <1>7, <1>8, <1>9, <1>10, <1>11 DEF LineageHeldOnce

\* The handler gives its lineage to one refresh token and ends.
LEMMA LineageStored ==
  ASSUME IInv, LineageHeldOnce, NEW r \in Requests, PutTokens(r)
  PROVE  LineageHeldOnce'
<1> DEFINE g == req[r].grant
           x == TokenRow("access", serial', g, AccessTTL)
           y == TokenRow("refresh", serial', g, RefreshTTL)
<1>1. serial \in Nat /\ serial' = serial + 1 /\ At(r, "consumed")
  BY DEF PutTokens, StorePair, IInv, TypeOK
<1>2. /\ x.grant = g /\ y.grant = g
      /\ x.kind = "access"
  BY DEF TokenRow
<1>3. codes' \cup tokens' \subseteq codes \cup tokens \cup {x, y}
  BY DEF PutTokens, StorePair, AfterPurge
<1>4. \A q \in Requests : At(q, "consumed")' => /\ At(q, "consumed") /\ req'[q] = req[q]
                                                /\ q # r
  BY DEF PutTokens, StorePair, Finish, At, IInv, TypeOK
<1>5. g.lineage \in 1..serial
  BY <1>1 DEF LineageHeldOnce
<1>6. \A k \in codes \cup tokens : SpendableRow(k) => k.grant.lineage # g.lineage
  BY <1>1 DEF LineageHeldOnce
<1>7. \A q \in Requests : At(q, "consumed") /\ q # r => req[q].grant.lineage # g.lineage
  BY <1>1 DEF LineageHeldOnce
<1>8. 1..serial \subseteq 1..serial'
  BY <1>1
<1> HIDE DEF g, x, y
<1>9. \A k \in codes' \cup tokens' :
        SpendableRow(k)' => k = y \/ (SpendableRow(k) /\ k.grant.lineage # g.lineage)
  BY <1>2, <1>3, <1>6 DEF SpendableRow
<1>10. /\ \A k \in codes' \cup tokens' : k.grant.lineage \in 1..serial'
       /\ \A q \in Requests : At(q, "consumed")' => req'[q].grant.lineage \in 1..serial'
  BY <1>2, <1>3, <1>4, <1>5, <1>8 DEF LineageHeldOnce
<1>11. \A j, k \in codes' \cup tokens' :
         SpendableRow(j)' /\ SpendableRow(k)' /\ j.grant.lineage = k.grant.lineage => j = k
  BY <1>2, <1>9 DEF LineageHeldOnce, SpendableRow
<1>12. \A p, q \in Requests :
         /\ At(p, "consumed")' /\ At(q, "consumed")'
         /\ req'[p].grant.lineage = req'[q].grant.lineage
         => p = q
  BY <1>4 DEF LineageHeldOnce
<1>13. \A k \in codes' \cup tokens', q \in Requests :
         SpendableRow(k)' /\ At(q, "consumed")' => k.grant.lineage # req'[q].grant.lineage
  BY <1>2, <1>4, <1>7, <1>9 DEF LineageHeldOnce, SpendableRow
<1> QED BY <1>10, <1>11, <1>12, <1>13 DEF LineageHeldOnce
------------------------------------------------------------------------------
\* The other steps remove rows, end handlers or start them.
LEMMA LineageKept ==
  ASSUME IInv, LineageHeldOnce,
         \/ \E p \in Principals, a \in Labels : RegisterActor(p, a)
         \/ \E a \in Labels : SetActorPassword(a) \/ DeactivateActor(a)
         \/ OpenDatabase \/ Restart \/ Tick
         \/ \E r \in Requests, a \in Labels, c \in Clients : Authenticate(r, a, c)
         \/ \E r \in Requests : PutCodeBusy(r) \/ PutTokensForbidden(r) \/ StoreFails(r)
         \/ UNCHANGED vars
  PROVE  LineageHeldOnce'
<1>1. codes' \subseteq codes /\ tokens' \subseteq tokens /\ serial' = serial
  BY DEF RegisterActor, SetActorPassword, DeactivateActor, RevokeActorState, KeepOthers,
         OpenDatabase, Restart, Tick, PurgeExpired, AfterPurge, Authenticate,
         PutCodeBusy, PutTokensForbidden, StoreFails, vars
<1>2. \A r \in Requests : At(r, "consumed")' => req'[r] = req[r]
  <2>1. CASE req' = req
    BY <2>1
  <2>2. CASE Restart
    BY <2>2 DEF Restart, At
  <2>3. ASSUME NEW r \in Requests, Finish(r) PROVE <1>2!:
    BY <2>3 DEF Finish, At, IInv, TypeOK
  <2>4. ASSUME NEW r \in Requests, NEW a \in Labels, NEW c \in Clients, Authenticate(r, a, c)
        PROVE  <1>2!:
    BY <2>4 DEF Authenticate, At, IInv, TypeOK
  <2> QED BY <2>1, <2>2, <2>3, <2>4
          DEF RegisterActor, SetActorPassword, DeactivateActor, OpenDatabase, Tick,
              PutCodeBusy, PutTokensForbidden, StoreFails, vars
<1> QED BY <1>1, <1>2, LineageShrinks

LEMMA LineageNext == IInv /\ LineageHeldOnce /\ [Next]_vars => LineageHeldOnce'
<1> SUFFICES ASSUME IInv, LineageHeldOnce, [Next]_vars PROVE LineageHeldOnce'
  OBVIOUS
<1>1. CASE \E r \in Requests, c \in Clients :
             (\E k \in codes : ConsumeCode(r, c, k)) \/ (\E k \in tokens : ConsumeRefresh(r, c, k))
  BY <1>1, LineageConsumed
<1>2. CASE \E r \in Requests : PutCode(r) \/ PutTokens(r)
  BY <1>2, LineageStarted, LineageStored
<1> QED BY <1>1, <1>2, LineageKept DEF Next

\* What holds a lineage is unique, so counting finds at most one.
LEMMA HeldOnceCounts == LineageHeldOnce => LineageNeverForks
<1> SUFFICES ASSUME LineageHeldOnce, NEW l \in 1..serial
             PROVE  Cardinality(Spendable(l)) + Cardinality(Exchanging(l)) <= 1
  BY DEF LineageNeverForks
<1>1. ASSUME NEW S, \A x, y \in S : x = y
      PROVE  S = {} \/ \E x : S = {x}
  BY <1>1
<1>2. Spendable(l) = {} \/ \E k : Spendable(l) = {k}
  BY <1>1 DEF LineageHeldOnce, Spendable, SpendableRow
<1>3. Exchanging(l) = {} \/ \E r : Exchanging(l) = {r}
  BY <1>1 DEF LineageHeldOnce, Exchanging
<1>4. Spendable(l) = {} \/ Exchanging(l) = {}
  BY DEF LineageHeldOnce, Spendable, Exchanging, SpendableRow
<1>5. Cardinality({}) = 0 /\ \A x : Cardinality({x}) = 1
  BY FS_EmptySet, FS_Singleton
<1>6. /\ Cardinality(Spendable(l)) \in {0, 1}
      /\ Cardinality(Exchanging(l)) \in {0, 1}
      /\ Cardinality(Spendable(l)) = 0 \/ Cardinality(Exchanging(l)) = 0
  BY <1>2, <1>3, <1>4, <1>5
<1> QED BY <1>6

\* One authorization is spent by one exchange at a time: no replay, retry,
\* failure or concurrent refresh leaves two things to exchange.
THEOREM LineageCorrect == Spec => []LineageNeverForks
<1>1. Init => LineageHeldOnce
  BY DEF Init, LineageHeldOnce, At
<1> QED BY <1>1, Invariance, LineageNext, HeldOnceCounts, PTL DEF Spec
------------------------------------------------------------------------------
\* The table of codes is finite, so that its rows can be counted.
CodesBounded == IsFiniteSet(codes) /\ PendingCodesBounded

LEMMA CodesNext == CodesBounded /\ [Next]_vars => CodesBounded'
<1> SUFFICES ASSUME CodesBounded, [Next]_vars PROVE CodesBounded'
  OBVIOUS
<1>1. CASE codes' \subseteq codes
  BY <1>1, FS_Subset, FS_CardinalityType, OAuthAssumption
  DEF CodesBounded, PendingCodesBounded
<1>2. ASSUME NEW r \in Requests, PutCode(r) PROVE CodesBounded'
  <2> DEFINE k == [serial |-> serial', kind |-> "code", expires |-> now + CodeTTL,
                   grant |-> [req[r].grant EXCEPT !.lineage = serial']]
  <2>1. codes' = AfterPurge(codes) \cup {k} /\ ~TooManyCodes
    BY <1>2 DEF PutCode
  <2>2. IsFiniteSet(AfterPurge(codes)) /\ Cardinality(AfterPurge(codes)) \in Nat
    BY FS_Subset, FS_CardinalityType DEF CodesBounded, AfterPurge
  <2>3. Cardinality(AfterPurge(codes)) + 1 <= MaxPendingCodes
    BY <2>1, <2>2, OAuthAssumption DEF TooManyCodes
  <2> HIDE DEF k
  <2>4. IsFiniteSet(codes') /\ Cardinality(codes') <= Cardinality(AfterPurge(codes)) + 1
    <3>1. /\ IsFiniteSet(AfterPurge(codes) \cup {k})
          /\ Cardinality(AfterPurge(codes) \cup {k}) \in
               {Cardinality(AfterPurge(codes)), Cardinality(AfterPurge(codes)) + 1}
      BY <2>2, FS_AddElement, Zenon
    <3>2. codes' = AfterPurge(codes) \cup {k}
      BY <2>1
    <3> HIDE DEF k
    <3> QED BY <2>2, <3>1, <3>2
  <2>5. Cardinality(codes') \in Nat
    BY <2>4, FS_CardinalityType
  <2> QED BY <2>2, <2>3, <2>4, <2>5, OAuthAssumption DEF CodesBounded, PendingCodesBounded
<1>3. codes' \subseteq codes \/ \E r \in Requests : PutCode(r)
  BY DEF Next, vars, RegisterActor, SetActorPassword, DeactivateActor, RevokeActorState,
         KeepOthers, OpenDatabase, Restart, Tick, PurgeExpired, AfterPurge, Authenticate,
         ConsumeCode, ConsumeRefresh, PutCodeBusy, PutTokens, StorePair,
         PutTokensForbidden, StoreFails
<1> QED BY <1>1, <1>2, <1>3

\* However many humans approve at once, the table of codes stays within its
\* limit: the count and the insert are one transaction.
THEOREM PendingCodesCorrect == Spec => []PendingCodesBounded
<1>1. Init => CodesBounded
  BY FS_EmptySet, OAuthAssumption DEF Init, CodesBounded, PendingCodesBounded
<1>2. CodesBounded => PendingCodesBounded
  BY DEF CodesBounded
<1> QED BY <1>1, <1>2, CodesNext, PTL DEF Spec
------------------------------------------------------------------------------
\* What a step does to a row that it removes before its time.
LEMMA RemovalStep ==
  ASSUME [Next]_vars, IInv,
         NEW k \in (codes \cup tokens) \ (codes' \cup tokens'), k.expires > now
  PROVE  \/ \E r \in Requests, c \in Clients : ConsumeCode(r, c, k) \/ ConsumeRefresh(r, c, k)
         \/ SetActorPassword(k.grant.actor) \/ DeactivateActor(k.grant.actor)
<1>0. k \in AfterPurge(codes) \cup AfterPurge(tokens)
  <2>1. now \in Nat /\ k.expires \in Nat
    BY OAuthAssumption DEF IInv, TypeOK, Rows
  <2>2. ~(k.expires <= now)
    BY <2>1
  <2> QED BY <2>2 DEF AfterPurge
<1>1. CASE \E p \in Principals, a \in Labels : RegisterActor(p, a)
  BY <1>1 DEF RegisterActor
<1>2. ASSUME NEW a \in Labels, SetActorPassword(a) \/ DeactivateActor(a)
      PROVE  k.grant.actor = a
  BY <1>2 DEF SetActorPassword, DeactivateActor, RevokeActorState, KeepOthers
<1>3. CASE OpenDatabase \/ Restart \/ Tick
  BY <1>0, <1>3 DEF OpenDatabase, Restart, Tick, PurgeExpired
<1>4. CASE \E r \in Requests, a \in Labels, c \in Clients : Authenticate(r, a, c)
  BY <1>4 DEF Authenticate
<1>5. ASSUME NEW r \in Requests, NEW c \in Clients, NEW x \in codes, ConsumeCode(r, c, x)
      PROVE  x = k
  BY <1>5 DEF ConsumeCode
<1>6. ASSUME NEW r \in Requests, NEW c \in Clients, NEW x \in tokens, ConsumeRefresh(r, c, x)
      PROVE  x = k
  BY <1>6 DEF ConsumeRefresh
<1>7. CASE \E r \in Requests : PutCode(r) \/ PutTokens(r)
  BY <1>0, <1>7 DEF PutCode, PutTokens, StorePair
<1>8. CASE \E r \in Requests : PutCodeBusy(r) \/ PutTokensForbidden(r) \/ StoreFails(r)
  BY <1>8 DEF PutCodeBusy, PutTokensForbidden, StoreFails
<1>9. CASE UNCHANGED vars
  BY <1>9 DEF vars
<1> QED BY <1>1, <1>2, <1>3, <1>4, <1>5, <1>6, <1>7, <1>8, <1>9 DEF Next

\* The handlers' SELECT does not find a row at or after its expires_at.
LEMMA SpentInTime ==
  ASSUME NEW r \in Requests, NEW c \in Clients, NEW k \in codes \cup tokens,
         ConsumeCode(r, c, k) \/ ConsumeRefresh(r, c, k)
  PROVE  k.expires > now
  BY DEF ConsumeCode, ConsumeRefresh, Valid

\* Up to its expires_at a code or token leaves the tables only by being spent
\* or revoked: no purge, no other actor's rotation and no failure takes it
\* away; and after it nothing is spent, purged or not.
THEOREM ValidCorrect == Spec => ValidUntilSpent
<1>1. IInv /\ [Next]_vars =>
        [/\ \A k \in (codes \cup tokens) \ (codes' \cup tokens') :
              k.expires > now =>
                \/ \E r \in Requests, c \in Clients :
                     ConsumeCode(r, c, k) \/ ConsumeRefresh(r, c, k)
                \/ SetActorPassword(k.grant.actor) \/ DeactivateActor(k.grant.actor)
         /\ \A r \in Requests, c \in Clients, k \in codes \cup tokens :
              ConsumeCode(r, c, k) \/ ConsumeRefresh(r, c, k) => k.expires > now]_vars
  BY RemovalStep, SpentInTime
<1> QED BY <1>1, Invariance, PTL DEF Spec, ValidUntilSpent
==============================================================================

---------------------------- MODULE SessionsProofs ----------------------------
(***************************************************************************)
(* The safety properties of Sessions hold for every number of owners,      *)
(* logins, sessions and passwords.                                         *)
(***************************************************************************)
EXTENDS Sessions, TLAPS

\* Secrets are drawn once: whatever holds one only knows those that were, and
\* a secret opens one session.  A form comes from a page that was shown.
SecretsDrawn ==
  /\ \A x \in sessions : x.secret <= serial
  /\ \A page \in pages : page.token <= serial
  /\ \A v \in replies : v <= serial
  /\ \A m \in posted : m.page \in pages /\ m.cookie <= serial
  /\ cookie <= serial
  /\ \A x, y \in sessions : x.secret = y.secret => x = y

\* A page shows the owner of the session it was rendered for, as long as
\* there is one.
PagesShowTheirOwner ==
  \A page \in pages, x \in sessions : x.secret = page.token => x.owner = page.shows

IInv ==
  /\ TypeOK
  /\ SecretsDrawn
  /\ PagesShowTheirOwner
  /\ RotationEndsSessionsUnlessRaced
  /\ FormsActForTheirViewer

LEMMA InitInv == Init => IInv
  BY SessionsAssumption
  DEF Init, IInv, TypeOK, SecretsDrawn, PagesShowTheirOwner,
      RotationEndsSessionsUnlessRaced, FormsActForTheirViewer
------------------------------------------------------------------------------
\* Steps that draw no secret and render no page: rows go, and what the browser
\* and the network hold is made of what they held.
LEMMA ShrinkStep ==
  ASSUME IInv,
         sessions' \subseteq sessions,
         password' \in [Principals -> 0..MaxPassword],
         \A x \in sessions' : password'[x.owner] = password[x.owner],
         login' \in [Logins -> Attempts \cup {Idle}],
         UNCHANGED <<serial, late, pages>>,
         cookie' \in {cookie} \cup replies,
         replies' \subseteq replies \cup {0},
         posted' \subseteq posted \cup [page : pages, cookie : {cookie}],
         requests' \subseteq requests
  PROVE  IInv'
<1> USE DEF IInv
<1>1. serial \in Nat /\ 0 \in 0..MaxSerial /\ 0 <= serial
  BY SessionsAssumption DEF TypeOK
<1>2. posted' \subseteq Forms
  BY DEF TypeOK, Forms
<1>3. TypeOK'
  BY <1>1, <1>2 DEF TypeOK
<1>4. SecretsDrawn'
  <2>1. cookie' <= serial /\ \A v \in replies' : v <= serial
    BY <1>1 DEF SecretsDrawn
  <2>2. \A m \in posted' : m.page \in pages /\ m.cookie <= serial
    BY DEF SecretsDrawn
  <2> QED BY <2>1, <2>2 DEF SecretsDrawn
<1>5. PagesShowTheirOwner'
  BY DEF PagesShowTheirOwner
<1>6. RotationEndsSessionsUnlessRaced'
  BY DEF RotationEndsSessionsUnlessRaced
<1>7. FormsActForTheirViewer'
  BY DEF FormsActForTheirViewer
<1> QED BY <1>3, <1>4, <1>5, <1>6, <1>7
------------------------------------------------------------------------------
LEMMA CreateInv == ASSUME IInv, NEW l \in Logins, CreateSession(l) PROVE IInv'
<1> DEFINE s == serial + 1
           row == NewRow(l, s)
<1>1. /\ serial \in Nat /\ s \in Nat /\ s \in Serials /\ s > serial /\ serial' = s
      /\ login[l] \in Attempts /\ row \in Rows
      /\ row.secret = s /\ row.owner = login[l].owner /\ row.opener = login[l].checked
  BY SessionsAssumption DEF IInv, TypeOK, CreateSession, NewRow, Rows, Attempts, Serials
<1>2. /\ sessions' = sessions \cup {row}
      /\ late \subseteq late' /\ late' \subseteq Serials
      /\ row.opener = password[row.owner] \/ s \in late'
      /\ replies' = replies \cup {s}
      /\ login' = [login EXCEPT ![l] = Idle]
      /\ UNCHANGED <<password, cookie, pages, posted, requests>>
  BY <1>1 DEF CreateSession, IInv, TypeOK, browserVars
<1> HIDE DEF s, row
<1>3. TypeOK'
  <2>1. replies' \subseteq 0..MaxSerial /\ serial' \in 0..MaxSerial
    <3>1. s \in 0..MaxSerial /\ replies \subseteq 0..MaxSerial
      BY <1>1, SessionsAssumption DEF IInv, TypeOK, Serials
    <3> QED BY <1>1, <1>2, <3>1
  <2>2. login' \in [Logins -> Attempts \cup {Idle}]
    BY <1>2 DEF IInv, TypeOK
  <2> QED BY <1>1, <1>2, <2>1, <2>2 DEF IInv, TypeOK
<1>4. \A x \in sessions : x.secret \in Nat \ {0} /\ x.secret <= serial /\ x.secret # s
  BY <1>1, SessionsAssumption DEF IInv, TypeOK, SecretsDrawn, Rows, Serials
<1>5. \A page \in pages : page.token \in Nat /\ page.token <= serial /\ page.token # s
  BY <1>1, SessionsAssumption DEF IInv, TypeOK, SecretsDrawn, Pages, Serials
<1>6. SecretsDrawn'
  <2>1. cookie' <= serial' /\ \A v \in replies' : v <= serial'
    BY <1>1, <1>2, SessionsAssumption DEF IInv, TypeOK, SecretsDrawn, Serials
  <2>2. \A x \in sessions' : x.secret <= serial'
    BY <1>1, <1>2, <1>4
  <2>3. \A page \in pages' : page.token <= serial'
    BY <1>1, <1>2, <1>5
  <2>4. \A x, y \in sessions' : x.secret = y.secret => x = y
    BY <1>1, <1>2, <1>4 DEF IInv, SecretsDrawn
  <2>5. \A m \in posted' : m.page \in pages' /\ m.cookie <= serial'
    <3>1. \A m \in posted : m.cookie \in Nat
      BY SessionsAssumption DEF IInv, TypeOK, Forms
    <3> QED BY <1>1, <1>2, <3>1 DEF IInv, SecretsDrawn
  <2> QED BY <2>1, <2>2, <2>3, <2>4, <2>5 DEF SecretsDrawn
<1>7. PagesShowTheirOwner'
  BY <1>1, <1>2, <1>5 DEF IInv, PagesShowTheirOwner
<1>8. RotationEndsSessionsUnlessRaced'
  BY <1>1, <1>2 DEF IInv, RotationEndsSessionsUnlessRaced
<1>9. FormsActForTheirViewer'
  BY <1>2 DEF IInv, FormsActForTheirViewer
<1> QED BY <1>3, <1>6, <1>7, <1>8, <1>9 DEF IInv
------------------------------------------------------------------------------
\* A page is rendered for the owner of the cookie's session.
LEMMA ViewInv == ASSUME IInv, View PROVE IInv'
<1>1. TypeOK'
  BY SessionsAssumption
  DEF IInv, TypeOK, View, ClearIfRefused, Accepted, Pages, Rows, Serials
<1>2. SecretsDrawn'
  <2>1. serial \in Nat
    BY SessionsAssumption DEF IInv, TypeOK
  <2> QED BY <2>1 DEF IInv, SecretsDrawn, View, ClearIfRefused, Accepted
<1>3. PagesShowTheirOwner'
  BY DEF IInv, SecretsDrawn, PagesShowTheirOwner, View, Accepted
<1>4. RotationEndsSessionsUnlessRaced' /\ FormsActForTheirViewer'
  BY DEF IInv, View, RotationEndsSessionsUnlessRaced, FormsActForTheirViewer
<1> QED BY <1>1, <1>2, <1>3, <1>4 DEF IInv

\* The token of the page is the cookie, so the owners are the same.
LEMMA AdmitInv == ASSUME IInv, NEW m \in posted, Admit(m) PROVE IInv'
<1>1. TypeOK'
  BY DEF IInv, TypeOK, Admit, Accepted, Rows, Forms, browserVars
<1>2. FormsActForTheirViewer'
  BY DEF IInv, SecretsDrawn, PagesShowTheirOwner, FormsActForTheirViewer, Admit,
         Accepted, TokenMatches
<1>3. SecretsDrawn' /\ PagesShowTheirOwner'
  BY DEF IInv, Admit, SecretsDrawn, PagesShowTheirOwner, browserVars
<1>4. RotationEndsSessionsUnlessRaced'
  BY DEF IInv, Admit, RotationEndsSessionsUnlessRaced
<1> QED BY <1>1, <1>2, <1>3, <1>4 DEF IInv

\* Time changes nothing of a row but what is left of it.
Older(x) == [x EXCEPT !.left = IF @ > 0 THEN @ - 1 ELSE 0]

LEMMA OlderFacts ==
  ASSUME NEW x \in Rows
  PROVE  /\ Older(x) \in Rows
         /\ Older(x).secret = x.secret /\ Older(x).owner = x.owner
         /\ Older(x).opener = x.opener
         /\ Older(x).left > 0 => x.left > 0
  BY SessionsAssumption DEF Older, Rows

LEMMA TickInv == ASSUME IInv, Tick PROVE IInv'
<1>1. /\ sessions' = {Older(x) : x \in sessions}
      /\ UNCHANGED <<password, serial, login, cookie, pages, posted, requests, replies, late>>
  BY DEF Tick, Older, browserVars
<1>2. \A x \in sessions :
        /\ Older(x) \in Rows
        /\ Older(x).secret = x.secret /\ Older(x).owner = x.owner
        /\ Older(x).opener = x.opener
        /\ Older(x).left > 0 => x.left > 0
  BY OlderFacts DEF IInv, TypeOK
<1>3. TypeOK'
  BY <1>1, <1>2 DEF IInv, TypeOK
<1>4. SecretsDrawn'
  BY <1>1, <1>2 DEF IInv, SecretsDrawn
<1>5. PagesShowTheirOwner'
  BY <1>1, <1>2 DEF IInv, PagesShowTheirOwner
<1>6. RotationEndsSessionsUnlessRaced' /\ FormsActForTheirViewer'
  BY <1>1, <1>2 DEF IInv, RotationEndsSessionsUnlessRaced, FormsActForTheirViewer
<1> QED BY <1>3, <1>4, <1>5, <1>6 DEF IInv
------------------------------------------------------------------------------
LEMMA NextInv == IInv /\ [Next]_vars => IInv'
<1> SUFFICES ASSUME IInv, [Next]_vars PROVE IInv'
  OBVIOUS
<1> USE DEF browserVars
<1>1. CASE UNCHANGED vars
  BY <1>1 DEF vars, IInv, TypeOK, SecretsDrawn, PagesShowTheirOwner,
     RotationEndsSessionsUnlessRaced, FormsActForTheirViewer
<1>2. ASSUME NEW p \in Principals, SetOwnerPassword(p) PROVE IInv'
  <2>1. /\ password' \in [Principals -> 0..MaxPassword]
        /\ \A x \in sessions' : password'[x.owner] = password[x.owner]
    BY <1>2, SessionsAssumption DEF SetOwnerPassword, IInv, TypeOK, Rows
  <2> QED BY <1>2, <2>1, ShrinkStep DEF SetOwnerPassword, IInv, TypeOK
<1>3. ASSUME NEW l \in Logins, NEW p \in Principals, Authenticate(l, p) PROVE IInv'
  <2>1. login' \in [Logins -> Attempts \cup {Idle}]
    BY <1>3, SessionsAssumption DEF Authenticate, IInv, TypeOK, Attempts
  <2> QED BY <1>3, <2>1, ShrinkStep DEF Authenticate, IInv, TypeOK
<1>4. ASSUME NEW l \in Logins, LoginFails(l) PROVE IInv'
  <2>1. login' \in [Logins -> Attempts \cup {Idle}]
    BY <1>4 DEF LoginFails, IInv, TypeOK
  <2> QED BY <1>4, <2>1, ShrinkStep DEF LoginFails, IInv, TypeOK
<1>5. ASSUME NEW v \in 0..MaxSerial, Deliver(v) PROVE IInv'
  BY <1>5, ShrinkStep DEF Deliver, IInv, TypeOK
<1>6. ASSUME NEW page \in pages, Submit(page) PROVE IInv'
  BY <1>6, ShrinkStep DEF Submit, IInv, TypeOK
<1>7. ASSUME NEW m \in posted, Refuse(m) PROVE IInv'
  BY <1>7, ShrinkStep DEF Refuse, ClearIfRefused, IInv, TypeOK
<1>8. ASSUME NEW m \in posted, NEW revoked \in BOOLEAN, Logout(m, revoked) PROVE IInv'
  BY <1>8, ShrinkStep DEF Logout, IInv, TypeOK
<1>9. ASSUME NEW r \in requests, Act(r) PROVE IInv'
  BY <1>9, ShrinkStep DEF Act, IInv, TypeOK
<1>10. CASE PurgeExpired
  BY <1>10, ShrinkStep DEF PurgeExpired, IInv, TypeOK
<1>11. CASE Restart
  BY <1>11, ShrinkStep DEF Restart, IInv, TypeOK
<1>12. ASSUME NEW l \in Logins, CreateSession(l) PROVE IInv'
  BY <1>12, CreateInv
<1>13. ASSUME NEW m \in posted, Admit(m) PROVE IInv'
  BY <1>13, AdmitInv
<1> QED
  BY <1>1, <1>2, <1>3, <1>4, <1>5, <1>6, <1>7, <1>8, <1>9, <1>10, <1>11, <1>12, <1>13,
     ViewInv, TickInv DEF Next

\* Everything below rests on this invariant of the login and its sessions.
THEOREM Invariance == Spec => []IInv
  BY InitInv, NextInv, PTL DEF Spec

\* Type correctness of the tables, the logins in flight and the browser.
THEOREM TypeCorrect == Spec => []TypeOK
  BY Invariance, PTL DEF IInv

\* SetOwnerPassword ends every session of its owner; only a login that was
\* past the password check leaves one behind.
THEOREM RotationCorrect == Spec => []RotationEndsSessionsUnlessRaced
  BY Invariance, PTL DEF IInv

\* verifyCSRF: a form acts for the owner whose page it was filled in on.
THEOREM FormsCorrect == Spec => []FormsActForTheirViewer
  BY Invariance, PTL DEF IInv
------------------------------------------------------------------------------
\* What became of the rows: they went, aged, or got company.
LEMMA RowsStep ==
  ASSUME Next
  PROVE  \/ Tick
         \/ sessions' \subseteq sessions
         \/ \E l \in Logins : CreateSession(l)
  BY DEF Next, SetOwnerPassword, Authenticate, LoginFails, Deliver, View, Submit, Admit,
         Refuse, Logout, Act, PurgeExpired, Restart

LEMMA EndedStep ==
  ASSUME IInv, Next, NEW s \in 1..serial, Accepted(s) = {}
  PROVE  Accepted(s)' = {}
<1>1. ASSUME NEW l \in Logins, CreateSession(l) PROVE Accepted(s)' = {}
  <2>1. NewRow(l, serial + 1).secret # s
    BY SessionsAssumption DEF NewRow, IInv, TypeOK
  <2> QED BY <1>1, <2>1 DEF CreateSession, Accepted
<1>2. CASE Tick
  <2>1. sessions' = {Older(x) : x \in sessions}
    BY <1>2 DEF Tick, Older
  <2>2. \A x \in sessions :
          Older(x).secret = x.secret /\ (Older(x).left > 0 => x.left > 0)
    BY OlderFacts DEF IInv, TypeOK
  <2> QED BY <2>1, <2>2 DEF Accepted
<1>3. CASE sessions' \subseteq sessions
  BY <1>3 DEF Accepted
<1> QED BY <1>1, <1>2, <1>3, RowsStep

\* ValidateOwnerSession: a secret that was refused once is refused for ever,
\* whichever of logout, rotation, expiry and purge ended its session.
THEOREM EndedCorrect == Spec => EndedForever
<1>1. IInv /\ [Next]_vars =>
        [\A s \in 1..serial : Accepted(s) = {} => Accepted(s)' = {}]_vars
  BY EndedStep
<1> QED BY <1>1, Invariance, PTL DEF Spec, EndedForever
------------------------------------------------------------------------------
\* A row that time had not run out for goes with a new password of its owner,
\* or with a form whose token is its secret; that page showed its owner.
LEMMA SparedStep ==
  ASSUME IInv, Next, NEW x \in sessions, x.left > 0,
         \A y \in sessions' : y.secret # x.secret
  PROVE  \/ password'[x.owner] # password[x.owner]
         \/ \E m \in posted \ posted' :
              m.page.token = x.secret /\ m.page.shows = x.owner
<1>1. x \in Rows
  BY DEF IInv, TypeOK
<1>2. ASSUME NEW p \in Principals, SetOwnerPassword(p)
      PROVE  password'[x.owner] # password[x.owner]
  <2>1. x.owner = p
    BY <1>2 DEF SetOwnerPassword
  <2> QED BY <1>2, <2>1, SessionsAssumption DEF SetOwnerPassword, IInv, TypeOK
<1>3. ASSUME NEW m \in posted, NEW revoked \in BOOLEAN, Logout(m, revoked)
      PROVE  \E n \in posted \ posted' :
               n.page.token = x.secret /\ n.page.shows = x.owner
  <2>1. x.secret = m.cookie /\ TokenMatches(m) /\ posted' = {}
    BY <1>3 DEF Logout
  <2>2. m.page.token = x.secret /\ m.page \in pages
    BY <2>1 DEF TokenMatches, IInv, SecretsDrawn
  <2>3. m.page.shows = x.owner
    BY <2>2 DEF IInv, PagesShowTheirOwner
  <2> QED BY <2>1, <2>2, <2>3
<1>4. ~Tick
  <2> SUFFICES ASSUME Tick PROVE FALSE
    OBVIOUS
  <2>1. Older(x) \in sessions'
    BY DEF Tick, Older
  <2> QED BY <2>1, <1>1, OlderFacts
<1>5. ~PurgeExpired /\ ~Restart
  BY DEF PurgeExpired, Restart
<1>6. ~(sessions \subseteq sessions')
  OBVIOUS
<1> QED
  BY <1>2, <1>3, <1>4, <1>5, <1>6
  DEF Next, Authenticate, CreateSession, LoginFails, Deliver, View, Submit, Admit,
      Refuse, Act

\* A session that still runs is ended by its owner and nobody else: stale tabs,
\* forms and replies overtaken by another login, and purges spare it.
THEOREM SparedCorrect == Spec => EndedByItsOwnerOnly
<1> DEFINE Spared ==
             \A x \in sessions :
               x.left > 0 /\ (\A y \in sessions' : y.secret # x.secret) =>
                 \/ password'[x.owner] # password[x.owner]
                 \/ \E m \in posted \ posted' :
                      m.page.token = x.secret /\ m.page.shows = x.owner
<1>1. IInv /\ [Next]_vars => [Spared]_vars
  BY SparedStep
<1> QED BY <1>1, Invariance, PTL DEF Spec, EndedByItsOwnerOnly
==============================================================================

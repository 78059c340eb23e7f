------------------------------- MODULE Sessions -------------------------------
(***************************************************************************)
(* The owner's password, the web sessions it opens (owner.go) and the      *)
(* handlers every page goes through (web.go): login, requireOwner, the     *)
(* CSRF test and logout.  One browser: its cookie, and the pages it still  *)
(* shows, each with the form token it was rendered with.  A form takes its *)
(* time to the server with the cookie it was sent with, and so does every  *)
(* Set-Cookie on the way back; the work of a request comes after the       *)
(* statement that checked it, and anything can happen in between.          *)
(*                                                                         *)
(* A secret is its serial number and a password its generation.  The HMAC  *)
(* of a secret is the secret's serial: the key survives restarts.          *)
(***************************************************************************)
EXTENDS Naturals, FiniteSets

CONSTANTS
  Principals,   \* owners
  Logins,       \* login requests that can be in flight
  Idle,         \* no such request
  TTL,          \* lifetime of a session (sessionTTL)
  MaxSerial,    \* bound on sessions created, for checking
  MaxPassword   \* bound on passwords set per owner, for checking

ASSUME SessionsAssumption ==
  /\ {TTL, MaxSerial, MaxPassword} \subseteq Nat
  /\ TTL > 0

VARIABLES
  password,   \* owner_credentials: the generation set last, 0 for no row
  sessions,   \* owner_sessions
  serial,     \* secrets drawn so far
  login,      \* logins past AuthenticateOwner
  cookie,     \* the browser's secret, 0 for none
  pages,      \* pages in the browser's tabs: token and the owner they show
  posted,     \* the form on its way, with the cookie it was sent with
  requests,   \* POSTs past requireOwner and the CSRF test
  replies,    \* Set-Cookie headers on their way: a secret, or 0 to clear it
  late        \* history: sessions created after their password was replaced

browserVars == <<cookie, pages>>
vars == <<password, sessions, serial, login, browserVars, posted, requests, replies, late>>

Serials == 1..MaxSerial
Pages == [token : Serials, shows : Principals]
Forms == [page : Pages, cookie : 0..MaxSerial]

\* left is the time to expires_at; opener is history: the password checked.
Rows ==
  [secret : Serials, owner : Principals, left : 0..TTL, opener : 1..MaxPassword]

Attempts == [owner : Principals, checked : 1..MaxPassword]

ASSUME IdleAssumption == Idle \notin Attempts

TypeOK ==
  /\ password \in [Principals -> 0..MaxPassword]
  /\ sessions \subseteq Rows
  /\ serial \in 0..MaxSerial
  /\ login \in [Logins -> Attempts \cup {Idle}]
  /\ cookie \in 0..MaxSerial
  /\ pages \subseteq Pages
  /\ posted \subseteq Forms
  /\ requests \subseteq [actsAs : Principals, page : Pages]
  /\ replies \subseteq 0..MaxSerial
  /\ late \subseteq Serials

Init ==
  /\ password = [p \in Principals |-> 0]
  /\ sessions = {} /\ serial = 0
  /\ login = [l \in Logins |-> Idle]
  /\ cookie = 0 /\ pages = {}
  /\ posted = {} /\ requests = {} /\ replies = {}
  /\ late = {}
------------------------------------------------------------------------------
\* ValidateOwnerSession: the rows that secret s is accepted for.
Accepted(s) == {x \in sessions : x.secret = s /\ x.left > 0}

\* Bug: old sessions stay.
SetPasswordOnly(p) ==
  /\ password[p] < MaxPassword
  /\ password' = [password EXCEPT ![p] = @ + 1]
  /\ UNCHANGED <<sessions, serial, login, browserVars, posted, requests, replies, late>>

SetOwnerPassword(p) ==
  /\ password[p] < MaxPassword
  /\ password' = [password EXCEPT ![p] = @ + 1]
  /\ sessions' = {x \in sessions : x.owner # p}
  /\ UNCHANGED <<serial, login, browserVars, posted, requests, replies, late>>

\* Bug: an owner without a password gets in.
AuthenticateUnknown(l, p) ==
  /\ login[l] = Idle
  /\ Accepted(cookie) = {}
  /\ login' = [login EXCEPT ![l] = [owner |-> p, checked |-> password[p]]]
  /\ UNCHANGED <<password, sessions, serial, browserVars, posted, requests, replies, late>>

\* The right password.  A wrong one changes nothing, and neither does a
\* browser whose cookie is accepted: it is sent to the first page.
Authenticate(l, p) ==
  /\ login[l] = Idle
  /\ Accepted(cookie) = {}
  /\ password[p] > 0
  /\ login' = [login EXCEPT ![l] = [owner |-> p, checked |-> password[p]]]
  /\ UNCHANGED <<password, sessions, serial, browserVars, posted, requests, replies, late>>

NewRow(l, s) ==
  [secret |-> s, owner |-> login[l].owner, left |-> TTL, opener |-> login[l].checked]

\* Bug: a session is renewed under the secret the browser had before.
CreateSessionUnderOldSecret(l) ==
  /\ login[l] # Idle /\ serial < MaxSerial
  /\ LET s == IF cookie > 0 THEN cookie ELSE serial + 1 IN
     /\ sessions' = {x \in sessions : x.secret # s} \cup {NewRow(l, s)}
     /\ late' = IF login[l].checked = password[login[l].owner] THEN late ELSE late \cup {s}
     /\ replies' = replies \cup {s}
     /\ serial' = IF cookie > 0 THEN serial ELSE serial + 1
  /\ login' = [login EXCEPT ![l] = Idle]
  /\ UNCHANGED <<password, browserVars, posted, requests>>

\* CreateOwnerSession, without a second look at the password, and the reply
\* with the cookie.
CreateSession(l) ==
  /\ login[l] # Idle /\ serial < MaxSerial
  /\ LET s == serial + 1 IN
     /\ sessions' = sessions \cup {NewRow(l, s)}
     /\ late' = IF login[l].checked = password[login[l].owner] THEN late ELSE late \cup {s}
     /\ replies' = replies \cup {s}
     /\ serial' = s
  /\ login' = [login EXCEPT ![l] = Idle]
  /\ UNCHANGED <<password, browserVars, posted, requests>>

\* CreateOwnerSession fails: 500, and the browser stays as it is.
LoginFails(l) ==
  /\ login[l] # Idle
  /\ login' = [login EXCEPT ![l] = Idle]
  /\ UNCHANGED <<password, sessions, serial, browserVars, posted, requests, replies, late>>

\* The browser takes what a reply says, late, out of order, over the cookie of
\* another login, or never.  A secret is sent once; replies that clear the
\* cookie are sent by as many tabs as ask, so 0 stands for any number of them.
Deliver(v) ==
  /\ v \in replies
  /\ cookie' = v
  /\ replies' = replies \ ({v} \ {0})
  /\ UNCHANGED <<password, sessions, serial, login, pages, posted, requests, late>>

\* requireOwner's answer to a cookie that is not accepted.
ClearIfRefused(c) ==
  replies' = IF c > 0 /\ Accepted(c) = {} THEN replies \cup {0} ELSE replies

\* Bug: every page view renews the session.
ViewRenewing ==
  /\ cookie > 0
  /\ pages' = pages \cup {[token |-> cookie, shows |-> x.owner] : x \in Accepted(cookie)}
  /\ sessions' = {IF x.secret = cookie THEN [x EXCEPT !.left = TTL] ELSE x : x \in sessions}
  /\ UNCHANGED <<password, serial, login, cookie, posted, requests, replies, late>>

\* A GET page.
View ==
  /\ cookie > 0
  /\ pages' = pages \cup {[token |-> cookie, shows |-> x.owner] : x \in Accepted(cookie)}
  /\ ClearIfRefused(cookie)
  /\ UNCHANGED <<password, sessions, serial, login, cookie, posted, requests, late>>

\* A form of a page in some tab is sent.  One at a time until its handler is
\* done, for checking.
Submit(page) ==
  /\ posted = {} /\ requests = {}
  /\ posted' = {[page |-> page, cookie |-> cookie]}
  /\ UNCHANGED <<password, sessions, serial, login, browserVars, requests, replies, late>>

\* Bug: any token of the server's own will do.
TokenOfAnySession(m) == m.cookie > 0

\* verifyCSRF
TokenMatches(m) == m.cookie > 0 /\ m.page.token = m.cookie

\* A form passes requireOwner and verifyCSRF.
Admit(m) ==
  /\ Accepted(m.cookie) # {}
  /\ TokenMatches(m)
  /\ requests' = {[actsAs |-> x.owner, page |-> m.page] : x \in Accepted(m.cookie)}
  /\ posted' = {}
  /\ UNCHANGED <<password, sessions, serial, login, browserVars, replies, late>>

\* To the login page without a session, 403 without the right token.
Refuse(m) ==
  /\ Accepted(m.cookie) = {} \/ ~TokenMatches(m)
  /\ ClearIfRefused(m.cookie)
  /\ posted' = {}
  /\ UNCHANGED <<password, sessions, serial, login, browserVars, requests, late>>

\* The handler's call to the store, as the principal found by requireOwner.
Act(r) ==
  /\ requests' = requests \ {r}
  /\ UNCHANGED <<password, sessions, serial, login, browserVars, posted, replies, late>>

\* Bug: the session is revoked without a look at the token.
LogoutUnchecked(m, revoked) ==
  /\ sessions' = IF revoked THEN {x \in sessions : x.secret # m.cookie} ELSE sessions
  /\ replies' = replies \cup {0}
  /\ posted' = {}
  /\ UNCHANGED <<password, serial, login, browserVars, requests, late>>

\* POST /logout: only its own form's token ends the session, an error of the
\* DELETE is dropped (revoked is FALSE), and the reply clears the cookie in any
\* case, whichever the browser has by then.
Logout(m, revoked) ==
  /\ sessions' = IF revoked /\ TokenMatches(m)
                 THEN {x \in sessions : x.secret # m.cookie} ELSE sessions
  /\ replies' = replies \cup {0}
  /\ posted' = {}
  /\ UNCHANGED <<password, serial, login, browserVars, requests, late>>

PurgeExpired ==
  /\ sessions' = {x \in sessions : x.left > 0}
  /\ UNCHANGED <<password, serial, login, browserVars, posted, requests, replies, late>>

\* The server dies and comes back, by way of Open.
Restart ==
  /\ login' = [l \in Logins |-> Idle] /\ requests' = {}
  /\ sessions' = {x \in sessions : x.left > 0}
  /\ UNCHANGED <<password, serial, browserVars, posted, replies, late>>

Tick ==
  /\ \E x \in sessions : x.left > 0
  /\ sessions' = {[x EXCEPT !.left = IF @ > 0 THEN @ - 1 ELSE 0] : x \in sessions}
  /\ UNCHANGED <<password, serial, login, browserVars, posted, requests, replies, late>>

Next ==
  \/ \E p \in Principals : SetOwnerPassword(p)
  \/ \E l \in Logins, p \in Principals : Authenticate(l, p)
  \/ \E l \in Logins : CreateSession(l) \/ LoginFails(l)
  \/ \E v \in 0..MaxSerial : Deliver(v)
  \/ View
  \/ \E page \in pages : Submit(page)
  \/ \E m \in posted : Admit(m) \/ Refuse(m) \/ \E revoked \in BOOLEAN : Logout(m, revoked)
  \/ \E r \in requests : Act(r)
  \/ PurgeExpired
  \/ Restart
  \/ Tick

\* Only time is sure to pass.
Spec == Init /\ [][Next]_vars /\ WF_vars(Tick)
------------------------------------------------------------------------------
\* Setting a password ends every session of its owner; the one that can still
\* be there was created by a login that had checked the password before.
RotationEndsSessionsUnlessRaced ==
  \A x \in sessions : x.opener = password[x.owner] \/ x.secret \in late

\* What is submitted is done as the owner whose page was filled in, or not at
\* all: tabs of several owners may be open, and the cookie is another one.
FormsActForTheirViewer ==
  \A r \in requests : r.actsAs = r.page.shows

\* Up to its time a session is ended by its own owner and nobody else: by a new
\* password, or by a logout form of a page that was rendered for it.  A stale
\* tab, a form overtaken by another login and a purge leave it alone.
EndedByItsOwnerOnly ==
  [][\A x \in sessions :
       x.left > 0 /\ (\A y \in sessions' : y.secret # x.secret) =>
         \/ password'[x.owner] # password[x.owner]
         \/ \E m \in posted \ posted' :
              m.page.token = x.secret /\ m.page.shows = x.owner]_vars

\* A secret that was refused once, for whatever reason, stays refused.
EndedForever ==
  [][\A s \in 1..serial : Accepted(s) = {} => Accepted(s)' = {}]_vars

\* Every session ends, whatever becomes of its cookie: also one whose login
\* reply was lost or overwritten, or that a logout dropped without ending it.
SessionsEnd == \A s \in Serials : serial >= s ~> Accepted(s) = {}
==============================================================================

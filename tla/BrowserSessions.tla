---------------------------- MODULE BrowserSessions ----------------------------
(***************************************************************************)
(* The session cookie of one browser: sign-in (by password, or by a        *)
(* hand-off code), GET /me, logout and the global guard.  The browser may  *)
(* hold two nairon_session cookies, the host-only one this code sets and a *)
(* stale one of the parent domain, and sends both.  Its tabs send requests *)
(* side by side; an answer reaches the browser later, in any order, or     *)
(* never, and only then do its Set-Cookie headers take effect.  A JWT is   *)
(* its claims: whose it is, and the second it was signed in.               *)
(***************************************************************************)
EXTENDS Naturals, FiniteSets

CONSTANTS
  Users,            \* User ids
  Tabs,             \* requests of the browser under way at once
  Lifetime,         \* expiresIn of the JWT, maxAge of the cookie (30 days)
  MaxTime,          \* a bound on the clock, in seconds
  HasParentDomain,  \* the host has a parent domain a cookie may be set for
  None              \* no user, no token

ASSUME NoneIsNoId == None \notin Users /\ None \notin [user : Users, iat : Nat]
ASSUME DurationsAreNat == Lifetime \in Nat \ {0} /\ MaxTime \in Nat
ASSUME HasParentDomainIsBoolean == HasParentDomain \in BOOLEAN

VARIABLES
  clock,     \* the time, in seconds
  active,    \* the users with an account that is not deactivated
  host,      \* the host-only cookie
  parent,    \* the cookie of the parent domain
  call,      \* [Tabs -> request under way, or its answer]
  received,  \* the token last answered for each person, if it has not expired: apps
             \* put it into Bearer headers
  (* history, read by properties only *)
  last,      \* who signed in last; None if that person has logged out since
  stray,     \* a /me answer that need not be for that person came in since
  leftAt,    \* [Users -> when the account was deactivated]
  late       \* the tokens of sign-ins that read the account before that

jar == <<host, parent>>
history == <<last, stray, leftAt, late>>
vars == <<clock, active, jar, call, received, history>>

Token == [user : Users, iat : Nat]
Carried(h, p) == {h, p} \ {None}

\* "account" and "me" wait for the database, "sign" has read an active account;
\* "signedIn", "restored" and "loggedOut" are answers on their way.  `left` are the tokens still to
\* try, `twins` says that the request carried two.  History: `crossed`, a sign-in
\* or a logout was answered since the request was sent, or the cookies it carried
\* were astray; `older`, a newer token was passed over; `seen`, the account was
\* active when it was read.
CallRecord ==
  [pc : {"idle", "account", "sign", "me", "signedIn", "restored", "loggedOut"},
   user : Users \cup {None}, left : SUBSET Token, twins : BOOLEAN,
   token : Token \cup {None}, crossed : BOOLEAN, older : BOOLEAN,
   seen : BOOLEAN]

NoCall == [pc |-> "idle", user |-> None, left |-> {}, twins |-> FALSE,
           token |-> None, crossed |-> FALSE, older |-> FALSE,
           seen |-> FALSE]

TypeOK ==
  /\ clock \in Nat
  /\ active \subseteq Users
  /\ host \in Token \cup {None}
  /\ parent \in Token \cup {None}
  /\ call \in [Tabs -> CallRecord]
  /\ received \subseteq Token
  /\ last \in Users \cup {None}
  /\ stray \in BOOLEAN
  /\ leftAt \in [Users -> Nat]
  /\ late \subseteq Token

\* The tokens tried first.
Newest(S) == {t \in S : \A x \in S : x.iat <= t.iat}

\* A host-only cookie is newer than a parent-domain one: the latter was set by
\* an earlier configuration of the gateway.
Init ==
  /\ clock = 1
  /\ active = Users
  /\ host \in [user : Users, iat : {1}] \cup {None}
  /\ parent \in IF HasParentDomain THEN [user : Users, iat : {0}] \cup {None} ELSE {None}
  /\ call = [b \in Tabs |-> NoCall]
  /\ received = Carried(host, parent)
  /\ last = IF host # None THEN host.user ELSE IF parent # None THEN parent.user ELSE None
  /\ stray = FALSE
  /\ leftAt = [u \in Users |-> 0]
  /\ late = {}

-----------------------------------------------------------------------------
(* Sign-in *)

\* The right password, or a hand-off code that was just spent, names u.
BeginSignIn(b, u) ==
  /\ call[b].pc = "idle"
  /\ call' = [call EXCEPT ![b] = [NoCall EXCEPT !.pc = "account", !.user = u]]
  /\ UNCHANGED <<clock, active, jar, received, history>>

\* Mutant: deactivatedAt is not looked at.
SignInAnyone(b) ==
  /\ call[b].pc = "account"
  /\ call' = [call EXCEPT ![b] = [@ EXCEPT !.pc = "sign", !.seen = call[b].user \in active]]
  /\ UNCHANGED <<clock, active, jar, received, history>>

\* The account is read.  sessionForUser, for a hand-off code, does the same.
SignIn(b) ==
  /\ call[b].pc = "account"
  /\ call' = [call EXCEPT ![b] =
       IF call[b].user \in active THEN [@ EXCEPT !.pc = "sign", !.seen = TRUE] ELSE NoCall]
  /\ UNCHANGED <<clock, active, jar, received, history>>

\* The token is signed: iat is the time of signing, after the password was
\* compared; the account is not read again.
SignToken(b) ==
  LET t == [user |-> call[b].user, iat |-> clock]
      stale == call[b].seen /\ t.user \notin active
  IN /\ call[b].pc = "sign"
     /\ call' = [call EXCEPT ![b] = [NoCall EXCEPT !.pc = "signedIn", !.token = t]]
     /\ late' = IF stale THEN late \cup {t} ELSE late
     /\ UNCHANGED <<clock, active, jar, received, last, stray, leftAt>>

-----------------------------------------------------------------------------
(* GET /me *)

\* Without a cookie the answer is 401 and nothing changes.
BeginMe(b) ==
  LET sent == Carried(host, parent)
  IN /\ call[b].pc = "idle"
     /\ sent # {}
     /\ call' = [call EXCEPT ![b] =
                   [NoCall EXCEPT !.pc = "me", !.left = sent, !.crossed = stray,
                                  !.twins = Cardinality(sent) > 1]]
     /\ UNCHANGED <<clock, active, jar, received, history>>

Verifies(t) == clock < t.iat + Lifetime

\* Mutant: the values in the order the browser sends them, the stale one first.
SessionTokensAsSent(S) == {t \in S : \A x \in S : t.iat <= x.iat}

\* sessionTokens: newest first; the order of two of the same second is the
\* header's.
SessionTokens(S) == Newest(S)

\* One turn of the loop, for one token.  getMe answers every error alike: a
\* token that does not verify, an account that is gone, a database that fails.
GetMe(b) ==
  /\ call[b].pc = "me"
  /\ \E t \in SessionTokens(call[b].left) :
       \/ /\ Verifies(t) /\ t.user \in active
          /\ call' = [call EXCEPT ![b] = [@ EXCEPT !.pc = "restored", !.left = {}, !.token = t]]
       \/ call' = [call EXCEPT ![b] =
               IF call[b].left = {t} THEN NoCall
               ELSE [@ EXCEPT !.left = call[b].left \ {t}, !.older = TRUE]]
  /\ UNCHANGED <<clock, active, jar, received, history>>

-----------------------------------------------------------------------------
(* Logout, and answers *)

Logout(b) ==
  /\ call[b].pc = "idle"
  /\ call' = [call EXCEPT ![b] = [NoCall EXCEPT !.pc = "loggedOut"]]
  /\ UNCHANGED <<clock, active, jar, received, history>>

\* The apps go on with the token they were answered.
Replace(t) == {x \in received : x.user # t.user} \cup {t}

\* Request b is over.  If it was a sign-in or a logout, every /me crossed it.
Done(b, act) ==
  call' = [x \in Tabs |->
             IF x = b THEN NoCall
             ELSE IF act /\ call[x].pc \in {"me", "restored"} THEN [call[x] EXCEPT !.crossed = TRUE]
             ELSE call[x]]

\* Mutant: the cookie is emptied, not cleared.
EmptyStaleParentCookie ==
  parent' = IF HasParentDomain THEN [user |-> None, iat |-> 0] ELSE parent

\* clearStaleParentCookie: only a host with a parent domain can hold that twin.
ClearStaleParentCookie == parent' = IF HasParentDomain THEN None ELSE parent

\* login and exchange set the cookie and clear the parent's.
ReceiveSignedIn(b) ==
  LET t == call[b].token
  IN /\ call[b].pc = "signedIn"
     /\ host' = t
     /\ ClearStaleParentCookie
     /\ received' = Replace(t)
     /\ last' = t.user /\ stray' = FALSE
     /\ Done(b, TRUE)
     /\ UNCHANGED <<clock, active, leftAt, late>>

\* /me sets the cookie to the token it answered for, whichever it was, and
\* clears the parent's if it was sent two.
ReceiveRestored(b) ==
  LET t == call[b].token
  IN /\ call[b].pc = "restored"
     /\ host' = t
     /\ IF call[b].twins THEN ClearStaleParentCookie ELSE UNCHANGED parent
     /\ received' = Replace(t)
     /\ stray' = (stray \/ call[b].crossed \/ call[b].older)
     /\ Done(b, FALSE)
     /\ UNCHANGED <<clock, active, last, leftAt, late>>

\* Mutant: only the host's cookie is cleared.
ReceiveHostOnlyLogout(b) ==
  /\ call[b].pc = "loggedOut"
  /\ host' = None
  /\ last' = None /\ stray' = FALSE
  /\ Done(b, TRUE)
  /\ UNCHANGED <<clock, active, parent, received, leftAt, late>>

ReceiveLoggedOut(b) ==
  /\ call[b].pc = "loggedOut"
  /\ host' = None
  /\ ClearStaleParentCookie
  /\ last' = None /\ stray' = FALSE
  /\ Done(b, TRUE)
  /\ UNCHANGED <<clock, active, received, leftAt, late>>

\* The server dies, or the answer is lost: no cookie changes.
Lose(b) ==
  /\ call[b].pc # "idle"
  /\ Done(b, FALSE)
  /\ UNCHANGED <<clock, active, jar, received, history>>

\* A cookie's maxAge is its token's lifetime, counted from when it was set: it
\* does not go before its token expires, and the parent's goes first.
ExpireCookie ==
  /\ \/ parent # None /\ ~Verifies(parent) /\ parent' = None /\ UNCHANGED host
     \/ /\ parent = None
        /\ host # None /\ ~Verifies(host) /\ host' = None /\ UNCHANGED parent
  /\ UNCHANGED <<clock, active, call, received, history>>

-----------------------------------------------------------------------------
(* The global guard, accounts and time *)

\* The guard verifies the token in the Authorization header; it never looks at
\* the account.
AuthGuard(t) == Verifies(t)

\* GET /profile answers the token's claims.
GetProfile(t) == AuthGuard(t) /\ UNCHANGED vars

Deactivate(u) ==
  /\ u \in active
  /\ active' = active \ {u}
  /\ leftAt' = [leftAt EXCEPT ![u] = clock]
  /\ UNCHANGED <<clock, jar, call, received, last, stray, late>>

Reactivate(u) ==
  /\ u \notin active
  /\ active' = active \cup {u}
  /\ leftAt' = [leftAt EXCEPT ![u] = 0]
  /\ UNCHANGED <<clock, jar, call, received, last, stray, late>>

\* A token that has expired is as good as none.
Tick ==
  /\ clock < MaxTime
  /\ clock' = clock + 1
  /\ received' = {t \in received : clock' < t.iat + Lifetime}
  /\ late' = {t \in late : clock' < t.iat + Lifetime}
  /\ UNCHANGED <<active, jar, call, last, stray, leftAt>>

Next ==
  \/ \E b \in Tabs :
       \/ \E u \in Users : BeginSignIn(b, u)
       \/ SignIn(b) \/ SignToken(b)
       \/ BeginMe(b) \/ GetMe(b) \/ Logout(b)
       \/ ReceiveSignedIn(b) \/ ReceiveRestored(b) \/ ReceiveLoggedOut(b) \/ Lose(b)
  \/ ExpireCookie
  \/ \E t \in received : GetProfile(t)
  \/ \E u \in Users : Deactivate(u) \/ Reactivate(u)
  \/ Tick

Spec == Init /\ [][Next]_vars

-----------------------------------------------------------------------------
(* Properties *)

\* The cookie a browser would be judged by is that of the last person who signed
\* in, and there is none after a logout, unless a /me answer came in since that
\* was sent before, or that passed over the newer of two tokens (signIn, logout
\* and their clearing of the stale twin).
SessionIsTheLast ==
  ~stray => \A t \in Newest(Carried(host, parent)) : t.user = last

\* /me answers for the person who signed in last, whichever cookies the browser
\* sent along, if it was asked since and no newer token failed (sessionTokens:
\* "prefer the newest token").
MeAnswersForTheLast ==
  \A b \in Tabs :
    call[b].pc = "restored" /\ ~call[b].crossed /\ ~call[b].older =>
      call[b].token.user = last

\* The guard never looks at the account, but however often /me renews the cookie
\* it admits a deactivated person for less than a token's life after that, unless
\* the token was signed by a sign-in that had read the account before.
GuardWindow ==
  \A t \in received \ late :
    AuthGuard(t) /\ t.user \notin active => clock < leftAt[t.user] + Lifetime

\* schema.prisma: "A deactivated user cannot log in, is rejected by every guard".
DeactivatedIsRejected ==
  \A t \in received : AuthGuard(t) => t.user \in active

\* me: "Every app in every tab polls this for cross-app logout": a browser that
\* was logged out holds no session until somebody signs in again.
LogoutSticks ==
  last = None => Carried(host, parent) = {}
=============================================================================

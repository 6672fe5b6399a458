------------------------ MODULE BrowserSessions_proofs ------------------------
(* Theorems about BrowserSessions, for every value of its constants. *)
EXTENDS BrowserSessions, FiniteSetTheorems, TLAPS

-----------------------------------------------------------------------------
(* Typing *)

\* A request holds what its next step needs: a person to sign in, or a token to
\* answer.
Placed(x) ==
  /\ x.pc \in {"account", "sign"} => x.user \in Users
  /\ x.pc = "sign" => x.seen
  /\ x.pc \in {"signedIn", "restored"} => x.token \in Token

Typed == TypeOK /\ \A b \in Tabs : Placed(call[b])

\* Two requests, or one before and after a step, with the same tokens at hand.
SameTokens(x, y) == x.left = y.left /\ x.token = y.token

\* The records the actions write.
LEMMA NewCalls ==
  /\ NoCall \in CallRecord /\ NoCall.pc = "idle" /\ NoCall.left = {} /\ NoCall.token = None
  /\ \A u \in Users : [NoCall EXCEPT !.pc = "account", !.user = u] \in CallRecord
  /\ \A t \in Token : [NoCall EXCEPT !.pc = "signedIn", !.token = t] \in CallRecord
  /\ [NoCall EXCEPT !.pc = "loggedOut"] \in CallRecord
  BY DEF NoCall, CallRecord

LEMMA SignCall ==
  ASSUME NEW x \in CallRecord, NEW y, y = [x EXCEPT !.pc = "sign", !.seen = TRUE]
  PROVE  y \in CallRecord /\ y.pc = "sign" /\ y.seen /\ y.user = x.user /\ SameTokens(x, y)
  BY DEF CallRecord, SameTokens

LEMMA CrossedCall ==
  ASSUME NEW x \in CallRecord, NEW y, y = [x EXCEPT !.crossed = TRUE]
  PROVE  /\ y \in CallRecord /\ y.pc = x.pc /\ SameTokens(x, y) /\ y.user = x.user /\ y.seen = x.seen
         /\ y.crossed /\ y.twins = x.twins /\ y.older = x.older
  BY DEF CallRecord, SameTokens

LEMMA CarriedTokens ==
  ASSUME TypeOK
  PROVE  Carried(host, parent) \subseteq Token
  BY DEF TypeOK, Carried

\* The ways a request goes on.
Account(y) == y.pc = "account" /\ y.user \in Users /\ y.left = {} /\ y.token = None
Sign(x, y) ==
  x.pc = "account" /\ y.pc = "sign" /\ y.user = x.user /\ y.seen /\ SameTokens(x, y)
Signed(x, y) ==
  /\ x.pc = "sign" /\ y.pc = "signedIn" /\ y.left = {}
  /\ y.token = [user |-> x.user, iat |-> clock]
Me(y) ==
  /\ y.pc = "me" /\ y.left = Carried(host, parent) /\ y.token = None
  /\ y.crossed = stray /\ ~y.older /\ y.twins = (Cardinality(y.left) > 1)
Restored(x, y) ==
  /\ x.pc = "me" /\ y.pc = "restored" /\ y.token \in Newest(x.left) /\ y.left = {}
  /\ y.crossed = x.crossed /\ y.older = x.older /\ y.twins = x.twins
Skipped(x, y) ==
  /\ x.pc = "me" /\ y.pc = "me" /\ y.left \subseteq x.left /\ y.token = x.token
  /\ \A t : x.left # {t}
  /\ y.older /\ y.crossed = x.crossed /\ y.twins = x.twins
LoggedOut(y) == y.pc = "loggedOut" /\ y.left = {} /\ y.token = None
Crossed(x, y) ==
  /\ x.pc \in {"me", "restored"} /\ y.pc = x.pc /\ SameTokens(x, y)
  /\ y.crossed /\ y.twins = x.twins /\ y.older = x.older

Moves(x, y) ==
  \/ y = NoCall \/ Account(y) \/ Sign(x, y) \/ Signed(x, y)
  \/ Me(y) \/ Restored(x, y) \/ Skipped(x, y) \/ LoggedOut(y) \/ Crossed(x, y)

LEMMA CallMoves ==
  ASSUME Typed, [Next]_vars, NEW b \in Tabs, call'[b] # call[b]
  PROVE  call'[b] \in CallRecord /\ Moves(call[b], call'[b])
<1> DEFINE x == call[b]
           y == call'[b]
           Goal == y \in CallRecord /\ Moves(x, y)
<1>c. call \in [Tabs -> CallRecord] /\ x \in CallRecord
  BY DEF Typed, TypeOK
<1>1. ASSUME NEW h \in Tabs, NEW u \in Users, BeginSignIn(h, u)
      PROVE  Goal
  <2>1. y = [NoCall EXCEPT !.pc = "account", !.user = u]
    BY <1>1, <1>c DEF BeginSignIn
  <2>2. Account(y)
    BY <2>1 DEF NoCall, Account
  <2> QED
    BY <2>1, <2>2, NewCalls DEF Moves
<1>2. ASSUME NEW h \in Tabs, SignIn(h)
      PROVE  Goal
  <2>1. x.pc = "account" /\ (y = NoCall \/ y = [x EXCEPT !.pc = "sign", !.seen = TRUE])
    BY <1>2, <1>c DEF SignIn
  <2>2. CASE y = NoCall
    BY <2>2, NewCalls DEF Moves
  <2>3. CASE y = [x EXCEPT !.pc = "sign", !.seen = TRUE]
    BY <1>c, <2>1, <2>3, SignCall DEF Sign, Moves
  <2> QED
    BY <2>1, <2>2, <2>3
<1>3. ASSUME NEW h \in Tabs, SignToken(h)
      PROVE  Goal
  <2> DEFINE t == [user |-> x.user, iat |-> clock]
  <2>1. h = b /\ x.pc = "sign" /\ y = [NoCall EXCEPT !.pc = "signedIn", !.token = t]
    BY <1>3, <1>c DEF SignToken
  <2>2. t \in Token
    BY <2>1 DEF Token, Typed, TypeOK, Placed
  <2>3. Signed(x, y)
    BY <2>1 DEF Signed, NoCall
  <2> QED
    BY <2>1, <2>2, <2>3, NewCalls DEF Moves
<1>4. ASSUME NEW h \in Tabs, BeginMe(h)
      PROVE  Goal
  <2> DEFINE S == Carried(host, parent)
             w == Cardinality(S) > 1
  <2>1. y = [NoCall EXCEPT !.pc = "me", !.left = S, !.crossed = stray, !.twins = w]
    BY <1>4, <1>c DEF BeginMe
  <2>2. S \in SUBSET Token /\ stray \in BOOLEAN /\ w \in BOOLEAN
    BY CarriedTokens DEF Typed, TypeOK
  <2>3. Me(y)
    BY <2>1 DEF NoCall, Me
  <2>4. y \in CallRecord
    <3> HIDE DEF S, w
    <3> QED
      BY <2>1, <2>2 DEF NoCall, CallRecord
  <2> QED
    BY <2>3, <2>4 DEF Moves
<1>5. ASSUME NEW h \in Tabs, GetMe(h)
      PROVE  Goal
  <2>1. h = b
    BY <1>5, <1>c DEF GetMe
  <2>2. x.pc = "me" /\ GetMe(b)
    BY <1>5, <2>1 DEF GetMe
  <2> DEFINE next(t) == IF x.left = {t} THEN NoCall
                        ELSE [x EXCEPT !.left = x.left \ {t}, !.older = TRUE]
  <2>p. PICK t \in Newest(x.left) :
          \/ call' = [call EXCEPT ![b] = [@ EXCEPT !.pc = "restored", !.left = {}, !.token = t]]
          \/ call' = [call EXCEPT ![b] = next(t)]
    BY <2>2 DEF GetMe, SessionTokens
  <2>3. t \in Token /\ t \in x.left /\ t \in Newest(x.left)
    BY <1>c, <2>p DEF CallRecord, Newest
  <2>4. CASE y = NoCall
    BY <2>4, NewCalls DEF Moves
  <2>5. CASE y = [x EXCEPT !.pc = "restored", !.left = {}, !.token = t]
    <3>1. /\ y \in CallRecord /\ y.pc = "restored" /\ y.token = t /\ y.left = {}
          /\ y.crossed = x.crossed /\ y.older = x.older /\ y.twins = x.twins
      <4> HIDE DEF x, y
      <4> QED
        BY <1>c, <2>3, <2>5 DEF CallRecord
    <3> QED
      BY <2>2, <2>3, <3>1 DEF Restored, Moves
  <2>6. CASE x.left # {t} /\ y = [x EXCEPT !.left = x.left \ {t}, !.older = TRUE]
    <3>1. \A s : x.left # {s}
      BY <2>3, <2>6
    <3>2. /\ y \in CallRecord /\ y.pc = x.pc /\ y.left = x.left \ {t} /\ y.token = x.token
          /\ y.older /\ y.crossed = x.crossed /\ y.twins = x.twins
      <4> HIDE DEF x, y
      <4> QED
        BY <1>c, <2>6 DEF CallRecord
    <3> QED
      BY <2>2, <3>1, <3>2 DEF Skipped, Moves
  <2>7. CASE call' = [call EXCEPT ![b] = [@ EXCEPT !.pc = "restored", !.left = {}, !.token = t]]
    BY <1>c, <2>5, <2>7
  <2>8. CASE call' = [call EXCEPT ![b] = next(t)]
    <3>1. y = next(t)
      <4> HIDE DEF next
      <4> QED
        BY <1>c, <2>8
    <3>2. CASE x.left = {t}
      <4>1. y = NoCall
        BY <3>1, <3>2, Zenon
      <4> QED
        BY <2>4, <4>1, Zenon
    <3>3. CASE x.left # {t}
      <4>1. y = [x EXCEPT !.left = x.left \ {t}, !.older = TRUE]
        BY <3>1, <3>3, Zenon
      <4> QED
        BY <2>6, <3>3, <4>1, Zenon
    <3> QED
      BY <3>2, <3>3
  <2> QED
    BY <2>p, <2>7, <2>8
<1>6. ASSUME NEW h \in Tabs, Logout(h)
      PROVE  Goal
  <2>1. y = [NoCall EXCEPT !.pc = "loggedOut"]
    BY <1>6, <1>c DEF Logout
  <2>2. LoggedOut(y)
    BY <2>1 DEF NoCall, LoggedOut
  <2> QED
    BY <2>1, <2>2, NewCalls DEF Moves
<1>7. ASSUME NEW h \in Tabs, NEW act, Done(h, act)
      PROVE  Goal
  <2>1. y = NoCall \/ (x.pc \in {"me", "restored"} /\ y = [x EXCEPT !.crossed = TRUE])
    BY <1>7, <1>c DEF Done
  <2>2. CASE y = NoCall
    BY <2>2, NewCalls DEF Moves
  <2>3. CASE x.pc \in {"me", "restored"} /\ y = [x EXCEPT !.crossed = TRUE]
    BY <1>c, <2>3, CrossedCall DEF Crossed, Moves
  <2> QED
    BY <2>1, <2>2, <2>3
<1>8. ASSUME NEW h \in Tabs, ReceiveSignedIn(h) \/ ReceiveRestored(h) \/ ReceiveLoggedOut(h) \/ Lose(h)
      PROVE  Goal
  BY <1>7, <1>8 DEF ReceiveSignedIn, ReceiveRestored, ReceiveLoggedOut, Lose
<1> HIDE DEF Goal
<1>9. Goal
  BY <1>1, <1>2, <1>3, <1>4, <1>5, <1>6, <1>8 DEF Next, vars, ExpireCookie, GetProfile,
     Deactivate, Reactivate, Tick
<1> QED
  BY <1>9 DEF Goal

\* Which steps write a cookie.
LEMMA CookieMoves ==
  ASSUME [Next]_vars
  PROVE  \/ UNCHANGED <<host, parent>>
         \/ \E b \in Tabs : ReceiveSignedIn(b) \/ ReceiveRestored(b) \/ ReceiveLoggedOut(b)
         \/ ExpireCookie
  BY DEF Next, vars, jar, BeginSignIn, SignIn, SignToken, BeginMe, GetMe, Logout, Lose,
     GetProfile, Deactivate, Reactivate, Tick

LEMMA TypedInit == Init => Typed
<1> SUFFICES ASSUME Init PROVE Typed
  OBVIOUS
<1>1. [user : Users, iat : {0}] \subseteq Token /\ [user : Users, iat : {1}] \subseteq Token
  BY DEF Token
<1>2. host \in Token \cup {None} /\ parent \in Token \cup {None}
  BY <1>1 DEF Init
<1>3. received \subseteq Token
  BY <1>2 DEF Init, Carried
<1>4. last \in Users \cup {None}
  BY <1>2 DEF Init, Token
<1>5. call \in [Tabs -> CallRecord] /\ \A b \in Tabs : Placed(call[b])
  BY NewCalls DEF Init, Placed
<1> QED
  BY <1>2, <1>3, <1>4, <1>5 DEF Init, Typed, TypeOK

LEMMA TypedStep == Typed /\ [Next]_vars => Typed'
<1> SUFFICES ASSUME Typed, [Next]_vars PROVE Typed'
  OBVIOUS
<1> USE DEF Typed, TypeOK
<1>1. ASSUME NEW b \in Tabs
      PROVE  call'[b] \in CallRecord /\ Placed(call'[b])
  <2> DEFINE x == call[b]
             y == call'[b]
  <2>1. CASE y = x
    BY <2>1
  <2>2. CASE y # x
    <3>1. y \in CallRecord
      BY <2>2, CallMoves
    <3>2. ASSUME y = NoCall \/ Account(y) \/ Me(y) \/ LoggedOut(y) \/ Skipped(x, y)
          PROVE  Placed(y)
      BY <3>2, NewCalls DEF Account, Me, LoggedOut, Skipped, Placed
    <3>3. ASSUME Sign(x, y)
          PROVE  Placed(y)
      BY <3>3 DEF Sign, Placed
    <3>4. ASSUME Signed(x, y)
          PROVE  Placed(y)
      <4>1. x.user \in Users
        BY <3>4 DEF Signed, Placed
      <4>2. y.token \in Token
        BY <3>4, <4>1 DEF Signed, Token
      <4> QED
        BY <3>4, <4>2 DEF Signed, Placed
    <3>5. ASSUME Restored(x, y)
          PROVE  Placed(y)
      <4>1. x \in CallRecord
        OBVIOUS
      <4>2. x.left \subseteq Token
        BY <4>1 DEF CallRecord
      <4> QED
        BY <3>5, <4>2 DEF Restored, Placed, Newest
    <3>6. ASSUME Crossed(x, y)
          PROVE  Placed(y)
      BY <3>6 DEF Crossed, Placed, SameTokens
    <3> HIDE DEF x, y
    <3> QED
      BY <2>2, <3>1, <3>2, <3>3, <3>4, <3>5, <3>6, CallMoves DEF x, y, Moves
  <2> QED
    BY <2>1, <2>2
<1>2. call' = [b \in Tabs |-> call'[b]]
  BY DEF Next, vars, BeginSignIn, SignIn, SignToken, BeginMe, GetMe, Logout, Done,
     ReceiveSignedIn, ReceiveRestored, ReceiveLoggedOut, Lose, ExpireCookie, GetProfile,
     Deactivate, Reactivate, Tick
<1>3. call' \in [Tabs -> CallRecord]
  BY <1>1, <1>2
<1>4. ASSUME NEW b \in Tabs, ReceiveSignedIn(b) \/ ReceiveRestored(b) \/ ReceiveLoggedOut(b)
      PROVE  /\ host' \in Token \cup {None} /\ parent' \in Token \cup {None}
             /\ received' \subseteq Token /\ last' \in Users \cup {None} /\ stray' \in BOOLEAN
             /\ UNCHANGED <<clock, active, leftAt, late>>
  <2>1. CASE ReceiveLoggedOut(b)
    BY <2>1 DEF ReceiveLoggedOut, ClearStaleParentCookie
  <2>2. CASE ReceiveSignedIn(b) \/ ReceiveRestored(b)
    <3>1. call[b].token \in Token
      BY <2>2 DEF ReceiveSignedIn, ReceiveRestored, Placed
    <3>2. call[b].token.user \in Users
      BY <3>1 DEF Token
    <3>3. Replace(call[b].token) \subseteq Token
      BY <3>1 DEF Replace
    <3>4. CASE ReceiveSignedIn(b)
      BY <3>1, <3>2, <3>3, <3>4 DEF ReceiveSignedIn, ClearStaleParentCookie
    <3>5. CASE ReceiveRestored(b)
      <4>1. call[b] \in CallRecord
        OBVIOUS
      <4>2. call[b].crossed \in BOOLEAN /\ call[b].older \in BOOLEAN
        BY <4>1 DEF CallRecord
      <4> QED
        BY <3>1, <3>3, <3>5, <4>2 DEF ReceiveRestored, ClearStaleParentCookie
    <3> QED
      BY <2>2, <3>4, <3>5
  <2> QED
    BY <1>4, <2>1, <2>2
<1>5. ASSUME NEW b \in Tabs, SignToken(b)
      PROVE  late' \subseteq Token /\ UNCHANGED <<clock, active, jar, received, last, stray, leftAt>>
  <2>1. [user |-> call[b].user, iat |-> clock] \in Token
    BY <1>5 DEF SignToken, Placed, Token
  <2> QED
    BY <1>5, <2>1 DEF SignToken
<1>7. CASE ExpireCookie \/ (\E u \in Users : Deactivate(u) \/ Reactivate(u)) \/ Tick
  BY <1>3, <1>1, <1>7 DEF ExpireCookie, Deactivate, Reactivate, Tick, history, jar
<1>8. CASE UNCHANGED <<clock, active, jar, received, history>>
  BY <1>1, <1>3, <1>8 DEF jar, history
<1>9. CASE \E t \in received : GetProfile(t)
  BY <1>8, <1>9 DEF GetProfile, vars
<1>10. ASSUME NEW b \in Tabs, ReceiveSignedIn(b) \/ ReceiveRestored(b) \/ ReceiveLoggedOut(b)
       PROVE  Typed'
  BY <1>1, <1>3, <1>4, <1>10
<1>11. ASSUME NEW b \in Tabs, SignToken(b)
       PROVE  Typed'
  BY <1>1, <1>3, <1>5, <1>11 DEF jar
<1>12. ASSUME NEW b \in Tabs, SignIn(b) \/ BeginMe(b) \/ GetMe(b) \/ Logout(b) \/ Lose(b)
       PROVE  Typed'
  BY <1>8, <1>12 DEF SignIn, BeginMe, GetMe, Logout, Lose
<1>13. ASSUME NEW b \in Tabs, NEW u \in Users, BeginSignIn(b, u)
       PROVE  Typed'
  BY <1>8, <1>13 DEF BeginSignIn
<1>14. CASE UNCHANGED vars
  BY <1>8, <1>14 DEF vars
<1> HIDE DEF Typed, TypeOK
<1> QED
  BY <1>7, <1>9, <1>10, <1>11, <1>12, <1>13, <1>14 DEF Next

\* TypeOK holds in every reachable state.
THEOREM TypeCorrect == Spec => []TypeOK
<1>1. Typed => TypeOK
  BY DEF Typed
<1> QED
  BY <1>1, TypedInit, TypedStep, PTL DEF Spec

-----------------------------------------------------------------------------
(* Whose session the browser holds *)

\* SessionIsTheLast and MeAnswersForTheLast, with what makes them inductive: the
\* parent's cookie is never the newer one, and a request that carried one cookie
\* while the parent's was there carried the parent's.
CookieInv ==
  /\ parent # None => HasParentDomain
  /\ parent # None /\ host # None => parent.iat <= host.iat
  /\ SessionIsTheLast
  /\ \A b \in Tabs :
       /\ parent # None /\ ~call[b].twins =>
            /\ call[b].pc = "me" => call[b].left \subseteq {parent}
            /\ call[b].pc = "restored" => call[b].token = parent
       /\ ~call[b].crossed /\ ~call[b].older =>
            /\ call[b].pc = "me" => \A t \in Newest(call[b].left) : t.user = last
            /\ call[b].pc = "restored" => call[b].token.user = last

LEMMA CookieInit == Init => CookieInv
<1> SUFFICES ASSUME Init PROVE CookieInv
  OBVIOUS
<1>1. /\ host # None => host.iat = 1
      /\ parent # None => HasParentDomain /\ parent.iat = 0
  BY DEF Init
<1>2. SessionIsTheLast
  <2>1. CASE host # None
    <3>1. ASSUME NEW t \in Newest(Carried(host, parent)), t # host
          PROVE  FALSE
      <4>1. t = parent /\ parent # None /\ host.iat <= t.iat
        BY <2>1, <3>1 DEF Newest, Carried
      <4> QED
        BY <1>1, <2>1, <4>1
    <3> QED
      BY <2>1, <3>1 DEF Init, SessionIsTheLast
  <2>2. CASE host = None
    <3>1. \A t \in Newest(Carried(host, parent)) : t = parent /\ parent # None
      BY <2>2 DEF Newest, Carried
    <3> QED
      BY <2>2, <3>1 DEF Init, SessionIsTheLast
  <2> QED
    BY <2>1, <2>2
<1>3. \A b \in Tabs : call[b].pc = "idle"
  BY NewCalls DEF Init
<1> QED
  BY <1>1, <1>2, <1>3 DEF CookieInv

\* A request that carried one cookie carried the parent's, if there was one.
LEMMA OneCookie ==
  ASSUME NEW h, NEW p, p # None, ~(Cardinality(Carried(h, p)) > 1)
  PROVE  Carried(h, p) \subseteq {p}
<1> SUFFICES ASSUME h # None, h # p PROVE FALSE
  BY DEF Carried
<1>1. Carried(h, p) = {h} \cup {p} /\ p \notin {h}
  BY DEF Carried
<1>2. IsFiniteSet({h}) /\ Cardinality({h}) = 1
  BY FS_Singleton
<1>3. Cardinality({h} \cup {p}) = 2
  BY <1>1, <1>2, FS_AddElement
<1> QED
  BY <1>1, <1>3

LEMMA CookieStep == Typed /\ CookieInv /\ [Next]_vars => CookieInv'
<1> SUFFICES ASSUME Typed, CookieInv, [Next]_vars PROVE CookieInv'
  OBVIOUS
<1>c. call \in [Tabs -> CallRecord]
  BY DEF Typed, TypeOK
<1>1. ASSUME NEW h \in Tabs, ReceiveSignedIn(h) \/ ReceiveLoggedOut(h)
      PROVE  CookieInv'
  <2>1. parent' = None
    BY <1>1 DEF ReceiveSignedIn, ReceiveLoggedOut, ClearStaleParentCookie, CookieInv
  <2>2. Done(h, TRUE)
    BY <1>1 DEF ReceiveSignedIn, ReceiveLoggedOut
  <2>3. ASSUME NEW b \in Tabs, call'[b].pc \in {"me", "restored"}
        PROVE  call'[b].crossed
    <3>1. CASE call'[b] = NoCall
      BY <2>3, <3>1, NewCalls
    <3>2. CASE call[b].pc \in {"me", "restored"} /\ call'[b] = [call[b] EXCEPT !.crossed = TRUE]
      BY <1>c, <3>2, CrossedCall
    <3> QED
      BY <2>2, <2>3, <3>1, <3>2 DEF Done
  <2>4. \A t \in Carried(host', parent') : t.user = last'
    BY <1>1, <2>1 DEF ReceiveSignedIn, ReceiveLoggedOut, Carried
  <2>5. SessionIsTheLast'
    BY <2>4 DEF SessionIsTheLast, Newest
  <2> QED
    BY <2>1, <2>3, <2>5 DEF CookieInv
<1>2. ASSUME NEW h \in Tabs, ReceiveRestored(h)
      PROVE  CookieInv'
  <2> DEFINE t == call[h].token
  <2>1. /\ host' = t /\ call[h].pc = "restored" /\ last' = last
        /\ stray' = (stray \/ call[h].crossed \/ call[h].older)
    BY <1>2 DEF ReceiveRestored
  <2>2. \/ parent' = None
        \/ parent' = parent /\ parent # None /\ ~call[h].twins /\ t = parent
    BY <1>2 DEF ReceiveRestored, ClearStaleParentCookie, CookieInv
  <2>3. \A b \in Tabs : call'[b] = call[b] \/ call'[b].pc = "idle"
    BY <1>2, <1>c, NewCalls DEF ReceiveRestored, Done
  <2>4. \A x \in Carried(host', parent') : x = t
    BY <2>1, <2>2 DEF Carried
  <2>5. SessionIsTheLast'
    <3>1. ~stray' => t.user = last
      BY <2>1 DEF CookieInv
    <3> QED
      BY <2>1, <2>4, <3>1 DEF SessionIsTheLast, Newest
  <2>6. (parent # None => HasParentDomain)'
    BY <2>2 DEF CookieInv
  <2>7. (parent # None /\ host # None => parent.iat <= host.iat)'
    <3>1. t \in Token
      BY <2>1 DEF Typed, Placed
    <3>2. t.iat <= t.iat
      BY <3>1 DEF Token
    <3> QED
      BY <2>1, <2>2, <3>2
  <2>8. ASSUME NEW b \in Tabs
        PROVE  /\ parent' # None /\ ~call'[b].twins =>
                    /\ call'[b].pc = "me" => call'[b].left \subseteq {parent'}
                    /\ call'[b].pc = "restored" => call'[b].token = parent'
               /\ ~call'[b].crossed /\ ~call'[b].older =>
                    /\ call'[b].pc = "me" => \A x \in Newest(call'[b].left) : x.user = last'
                    /\ call'[b].pc = "restored" => call'[b].token.user = last'
    <3>1. CASE call'[b].pc = "idle"
      BY <3>1
    <3>2. CASE call'[b] = call[b]
      BY <2>1, <2>2, <3>2 DEF CookieInv
    <3> QED
      BY <2>3, <3>1, <3>2
  <2> QED
    BY <2>5, <2>6, <2>7, <2>8 DEF CookieInv
<1>3. CASE ExpireCookie
  <2>1. UNCHANGED <<call, last, stray>> /\ parent' = None
    BY <1>3 DEF ExpireCookie, history
  <2>2. \/ host' = host /\ parent # None
        \/ host' = None
    BY <1>3 DEF ExpireCookie
  <2>3. SessionIsTheLast'
    <3>1. CASE host' = None
      BY <2>1, <3>1 DEF SessionIsTheLast, Newest, Carried
    <3>2. CASE host' = host /\ parent # None /\ host # None
      <4>1. host \in Token /\ parent \in Token
        BY <3>2 DEF Typed, TypeOK
      <4>2. host.iat <= host.iat /\ parent.iat <= host.iat
        BY <3>2, <4>1 DEF Token, CookieInv
      <4>3. host \in Newest(Carried(host, parent))
        BY <3>2, <4>2 DEF Newest, Carried
      <4>4. \A x \in Carried(host', parent') : x = host
        BY <2>1, <3>2 DEF Carried
      <4>5. ~stray => host.user = last
        BY <4>3 DEF CookieInv, SessionIsTheLast
      <4>6. \A x \in Newest(Carried(host', parent')) : x = host
        BY <4>4 DEF Newest
      <4> QED
        BY <2>1, <4>5, <4>6 DEF SessionIsTheLast
    <3> QED
      BY <2>2, <3>1, <3>2
  <2> QED
    BY <2>1, <2>3 DEF CookieInv
<1>4. CASE UNCHANGED <<host, parent, last, stray>>
  <2>1. SessionIsTheLast'
    BY <1>4 DEF CookieInv, SessionIsTheLast
  <2>2. ASSUME NEW b \in Tabs
        PROVE  /\ parent # None /\ ~call'[b].twins =>
                    /\ call'[b].pc = "me" => call'[b].left \subseteq {parent}
                    /\ call'[b].pc = "restored" => call'[b].token = parent
               /\ ~call'[b].crossed /\ ~call'[b].older =>
                    /\ call'[b].pc = "me" => \A x \in Newest(call'[b].left) : x.user = last
                    /\ call'[b].pc = "restored" => call'[b].token.user = last
    <3> DEFINE x == call[b]
               y == call'[b]
    <3>1. CASE y = x \/ y.pc \notin {"me", "restored"}
      BY <3>1 DEF CookieInv
    <3>2. CASE Me(y)
      <4>1. parent # None /\ ~y.twins => y.left \subseteq {parent}
        <5>1. y.left = Carried(host, parent) /\ y.twins = (Cardinality(y.left) > 1)
          BY <3>2 DEF Me
        <5>2. ASSUME parent # None, ~y.twins
              PROVE  y.left \subseteq {parent}
          <6>1. ~(Cardinality(Carried(host, parent)) > 1)
            BY <5>1, <5>2, Zenon
          <6> QED
            BY <5>1, <5>2, <6>1, OneCookie
        <5> QED
          BY <5>2
      <4>2. ~y.crossed => \A t \in Newest(y.left) : t.user = last
        BY <3>2 DEF Me, CookieInv, SessionIsTheLast
      <4> QED
        BY <3>2, <4>1, <4>2 DEF Me
    <3>3. CASE Restored(x, y)
      BY <3>3 DEF Restored, CookieInv, Newest
    <3>4. CASE Skipped(x, y)
      BY <3>4 DEF Skipped, CookieInv
    <3>5. CASE Crossed(x, y)
      BY <3>5 DEF Crossed, SameTokens, CookieInv
    <3>6. CASE y = NoCall \/ Account(y) \/ Sign(x, y) \/ Signed(x, y) \/ LoggedOut(y)
      BY <3>6, <3>1, NewCalls DEF Account, Sign, Signed, LoggedOut
    <3> QED
      BY <3>1, <3>2, <3>3, <3>4, <3>5, <3>6, CallMoves DEF Moves
  <2> QED
    BY <1>4, <2>1, <2>2 DEF CookieInv
<1>5. \/ UNCHANGED <<host, parent, last, stray>>
      \/ \E b \in Tabs : ReceiveSignedIn(b) \/ ReceiveRestored(b) \/ ReceiveLoggedOut(b)
      \/ ExpireCookie
  BY DEF Next, vars, jar, history, BeginSignIn, SignIn, SignToken, BeginMe, GetMe, Logout, Lose,
     GetProfile, Deactivate, Reactivate, Tick
<1> QED
  BY <1>1, <1>2, <1>3, <1>4, <1>5

LEMMA CookieInvariant == Spec => [](Typed /\ CookieInv)
  BY TypedInit, TypedStep, CookieInit, CookieStep, PTL DEF Spec

\* The browser is judged by the cookie of the last person who signed in, and holds
\* none after a logout, unless an older or overtaken /me answer came in since.
THEOREM SessionsAreTheLast == Spec => []SessionIsTheLast
<1>1. CookieInv => SessionIsTheLast
  BY DEF CookieInv
<1> QED
  BY <1>1, CookieInvariant, PTL

\* /me answers for the person who signed in last, whichever twins were sent.
THEOREM MeIsForTheLast == Spec => []MeAnswersForTheLast
<1>1. CookieInv => MeAnswersForTheLast
  BY DEF CookieInv, MeAnswersForTheLast
<1> QED
  BY <1>1, CookieInvariant, PTL

-----------------------------------------------------------------------------
(* How long the guard lets a deactivated person pass *)

\* Token t is at hand somewhere: with an app, in the cookie jar, in a request.
AtHand(t) ==
  \/ t \in received \cup Carried(host, parent)
  \/ \E b \in Tabs : t \in call[b].left \/ t = call[b].token

\* A token of a deactivated person was signed before that, unless it is late or
\* has expired; and no token comes from the future.
Old(t) ==
  /\ t.iat <= clock
  /\ t.user \notin active /\ t \notin late /\ Verifies(t) => t.iat <= leftAt[t.user]

WindowInv == \A t \in Token : AtHand(t) => Old(t)

LEMMA SignMoves ==
  ASSUME Typed, [Next]_vars, NEW b \in Tabs, call[b].pc = "sign", call'[b].pc = "signedIn"
  PROVE  SignToken(b)
<1>c. call \in [Tabs -> CallRecord] /\ call'[b] # call[b]
  BY DEF Typed, TypeOK
<1>1. ASSUME NEW h \in Tabs, NEW u \in Users, BeginSignIn(h, u)
      PROVE  FALSE
  BY <1>1, <1>c DEF BeginSignIn, NoCall
<1>2. ASSUME NEW h \in Tabs, SignIn(h) \/ BeginMe(h) \/ GetMe(h) \/ Logout(h)
      PROVE  FALSE
  <2>1. call[h].pc # "sign"
    BY <1>2 DEF SignIn, BeginMe, GetMe, Logout
  <2>2. h = b
    BY <1>2, <1>c DEF SignIn, BeginMe, GetMe, Logout
  <2> QED
    BY <2>1, <2>2
<1>3. ASSUME NEW h \in Tabs, NEW act, Done(h, act)
      PROVE  FALSE
  <2>1. call'[b] = NoCall
    BY <1>3, <1>c DEF Done
  <2> QED
    BY <2>1, NewCalls
<1>4. ASSUME NEW h \in Tabs, SignToken(h)
      PROVE  SignToken(b)
  <2>1. h = b
    BY <1>4, <1>c DEF SignToken
  <2> QED
    BY <1>4, <2>1
<1>5. ASSUME NEW h \in Tabs, ReceiveSignedIn(h) \/ ReceiveRestored(h) \/ ReceiveLoggedOut(h) \/ Lose(h)
      PROVE  FALSE
  BY <1>3, <1>5 DEF ReceiveSignedIn, ReceiveRestored, ReceiveLoggedOut, Lose
<1> QED
  BY <1>1, <1>2, <1>4, <1>5, <1>c DEF Next, vars, ExpireCookie, GetProfile,
     Deactivate, Reactivate, Tick

\* Tokens are signed; whatever else is at hand was before.
LEMMA HandMoves ==
  ASSUME Typed, [Next]_vars, NEW t \in Token, AtHand(t)', ~AtHand(t)
  PROVE  \E b \in Tabs : SignToken(b) /\ t = [user |-> call[b].user, iat |-> clock]
<1> SUFFICES ASSUME ~\E b \in Tabs : SignToken(b) /\ t = [user |-> call[b].user, iat |-> clock]
             PROVE  FALSE
  OBVIOUS
<1>n. t # None
  BY NoneIsNoId DEF Token
<1>1. ASSUME NEW b \in Tabs, t \in call'[b].left \/ t = call'[b].token
      PROVE  FALSE
  <2> DEFINE x == call[b]
             y == call'[b]
  <2>1. t \notin x.left /\ t # x.token /\ t \notin Carried(host, parent)
    BY DEF AtHand
  <2>2. CASE y = x
    BY <1>1, <2>1, <2>2
  <2>3. CASE y = NoCall \/ Account(y) \/ Me(y) \/ LoggedOut(y)
    BY <1>1, <1>n, <2>1, <2>3, NewCalls DEF Account, Me, LoggedOut
  <2>4. CASE Sign(x, y) \/ Skipped(x, y) \/ Crossed(x, y)
    BY <1>1, <2>1, <2>4 DEF Sign, Skipped, Crossed, SameTokens
  <2>5. CASE Restored(x, y)
    BY <1>1, <2>1, <2>5 DEF Restored, Newest
  <2>6. CASE Signed(x, y)
    <3>1. SignToken(b)
      BY <2>6, SignMoves DEF Signed
    <3>2. t = [user |-> x.user, iat |-> clock]
      BY <1>1, <2>6 DEF Signed
    <3> QED
      BY <3>1, <3>2
  <2> QED
    BY <2>2, <2>3, <2>4, <2>5, <2>6, CallMoves DEF Moves
<1>2. CASE t \in received' \cup Carried(host', parent')
  <2>1. t \notin received /\ t \notin Carried(host, parent)
        /\ \A b \in Tabs : t # call[b].token
    BY DEF AtHand
  <2>2. ASSUME NEW b \in Tabs, ReceiveSignedIn(b) \/ ReceiveRestored(b)
        PROVE  FALSE
    BY <1>2, <2>1, <2>2 DEF ReceiveSignedIn, ReceiveRestored,
       ClearStaleParentCookie, Replace, Carried
  <2>3. ASSUME NEW b \in Tabs, ReceiveLoggedOut(b)
        PROVE  FALSE
    BY <1>2, <2>1, <2>3 DEF ReceiveLoggedOut, ClearStaleParentCookie, Carried
  <2>4. CASE ExpireCookie
    BY <1>2, <2>1, <2>4 DEF ExpireCookie, Carried
  <2>5. CASE received' \subseteq received /\ UNCHANGED jar
    BY <1>2, <2>1, <2>5 DEF jar, Carried
  <2> QED
    BY <2>2, <2>3, <2>4, <2>5 DEF Next, vars, BeginSignIn, SignIn, SignToken, BeginMe, GetMe,
       Logout, Lose, GetProfile, Deactivate, Reactivate, Tick
<1> QED
  BY <1>1, <1>2 DEF AtHand

LEMMA WindowInit == Init => WindowInv
<1> SUFFICES ASSUME Init, NEW t \in Token, AtHand(t) PROVE Old(t)
  BY DEF WindowInv
<1>1. t \in Carried(host, parent) /\ t # None
  BY NoneIsNoId, NewCalls DEF Init, AtHand, Token
<1>2. t.iat \in {0, 1} /\ t.user \in Users
  BY <1>1 DEF Init, Carried
<1> QED
  BY <1>2 DEF Init, Old

LEMMA WindowStep == Typed /\ WindowInv /\ [Next]_vars => WindowInv'
<1> SUFFICES ASSUME Typed, WindowInv, [Next]_vars, NEW t \in Token, AtHand(t)'
             PROVE  Old(t)'
  BY DEF WindowInv
<1>t. /\ t.iat \in Nat /\ t.user \in Users /\ clock \in Nat /\ Lifetime \in Nat
      /\ leftAt \in [Users -> Nat]
  BY DurationsAreNat DEF Typed, TypeOK, Token
<1>1. ASSUME NEW b \in Tabs, SignToken(b), t = [user |-> call[b].user, iat |-> clock]
      PROVE  Old(t)'
  <2>1. call[b].seen /\ UNCHANGED <<clock, active, leftAt>>
    BY <1>1 DEF SignToken, Typed, Placed
  <2>2. t.user \notin active => t \in late'
    BY <1>1, <2>1 DEF SignToken
  <2> QED
    BY <1>1, <1>t, <2>1, <2>2 DEF Old
<1>2. CASE AtHand(t)
  <2>1. Old(t)
    BY <1>2 DEF WindowInv
  <2>2. CASE Tick
    <3>1. clock' = clock + 1 /\ UNCHANGED <<active, leftAt>>
      BY <2>2 DEF Tick, history
    <3>2. t \in late /\ clock' < t.iat + Lifetime => t \in late'
      BY <2>2 DEF Tick
    <3>3. Verifies(t)' => Verifies(t)
      BY <1>t, <3>1 DEF Verifies
    <3> QED
      BY <1>t, <2>1, <3>1, <3>2, <3>3 DEF Old, Verifies
  <2>3. ASSUME NEW u \in Users, Deactivate(u)
        PROVE  Old(t)'
    <3>1. leftAt'[t.user] = IF t.user = u THEN clock ELSE leftAt[t.user]
      BY <1>t, <2>3 DEF Deactivate
    <3> QED
      BY <1>t, <2>1, <2>3, <3>1 DEF Deactivate, Old, Verifies
  <2>4. ASSUME NEW u \in Users, Reactivate(u)
        PROVE  Old(t)'
    <3>1. t.user # u => leftAt'[t.user] = leftAt[t.user]
      BY <1>t, <2>4 DEF Reactivate
    <3> QED
      BY <1>t, <2>1, <2>4, <3>1 DEF Reactivate, Old, Verifies
  <2>5. CASE UNCHANGED <<clock, active, leftAt>> /\ late \subseteq late'
    BY <2>1, <2>5 DEF Old, Verifies
  <2> QED
    BY <2>2, <2>3, <2>4, <2>5 DEF Next, vars, history, BeginSignIn, SignIn, SignToken, BeginMe,
       GetMe, Logout, Lose, ReceiveSignedIn, ReceiveRestored, ReceiveLoggedOut, ExpireCookie,
       GetProfile
<1> QED
  BY <1>1, <1>2, HandMoves

\* The guard admits a deactivated person for less than a token's life, however
\* often /me renews the cookie: it renews with the token it was given.
THEOREM WindowIsBounded == Spec => []GuardWindow
<1>1. Typed /\ WindowInv => GuardWindow
  <2> SUFFICES ASSUME Typed, WindowInv, NEW t \in received \ late,
                      AuthGuard(t), t.user \notin active
               PROVE  clock < leftAt[t.user] + Lifetime
    BY DEF GuardWindow
  <2>1. t \in Token
    BY DEF Typed, TypeOK
  <2>2. clock < t.iat + Lifetime /\ t.iat <= leftAt[t.user]
    BY <2>1 DEF WindowInv, AtHand, Old, AuthGuard, Verifies
  <2>3. /\ clock \in Nat /\ t.iat \in Nat /\ leftAt[t.user] \in Nat /\ Lifetime \in Nat
    BY <2>1, DurationsAreNat DEF Typed, TypeOK, Token
  <2> QED
    BY <2>2, <2>3
<1> QED
  BY <1>1, TypedInit, TypedStep, WindowInit, WindowStep, PTL DEF Spec
=============================================================================

----------------------------- MODULE OAuth_proofs -----------------------------
(***************************************************************************)
(* Theorems about OAuthGrants and about OAuthAuthorize, which extends it,  *)
(* for every value of their constants: the grants first, from their own    *)
(* specification; then the pages, whose steps are steps of the grants.     *)
(***************************************************************************)
EXTENDS OAuthAuthorize, TLAPS

-----------------------------------------------------------------------------
(* Typing of the grants *)

\* Refresh token t has a row, or had one, of grant g.
Issued(t, g) == token[t].state # "free" /\ token[t].grant = g

\* What a handler past its first step, and a refresh row, point at: ids, never
\* None.  TypeOK alone is not inductive, since these ids end up in other rows.
Placed ==
  /\ \A f \in Forms : form[f].pc # "idle" =>
       form[f].user \in Users /\ form[f].client \in Clients
  /\ \A r \in Reqs : req[r].pc # "idle" =>
       /\ req[r].grant \in Grants
       /\ req[r].old # None => Issued(req[r].old, req[r].grant)
  /\ \A t \in Tokens : token[t].state # "free" => token[t].grant \in Grants

Typed == TypeOK /\ Placed

\* A row or record updated in a field stays one.
LEMMA FormFields ==
  ASSUME NEW x \in FormRecord
  PROVE  /\ \A k \in BOOLEAN : [x EXCEPT !.pc = "grant", !.known = k] \in FormRecord
         /\ \A g \in Grants : [x EXCEPT !.pc = "code", !.grant = g] \in FormRecord
         /\ IdleForm \in FormRecord
  BY DEF FormRecord, IdleForm

LEMMA ReqFields ==
  ASSUME NEW x \in ReqRecord
  PROVE  /\ [x EXCEPT !.pc = "issue"] \in ReqRecord
         /\ [x EXCEPT !.pc = "store"] \in ReqRecord
         /\ [x EXCEPT !.pc = "touch"] \in ReqRecord
         /\ [x EXCEPT !.pc = "spend"] \in ReqRecord
         /\ [x EXCEPT !.pc = "tell"] \in ReqRecord
         /\ \A t \in Tokens : [x EXCEPT !.pc = "touch", !.new = t] \in ReqRecord
         /\ IdleReq \in ReqRecord
  BY DEF ReqRecord, IdleReq

LEMMA RowFields ==
  /\ \A x \in TokenRow :
       /\ [x EXCEPT !.state = "gone"] \in TokenRow
       /\ [x EXCEPT !.state = "expired"] \in TokenRow
       /\ \A n \in Tokens \cup {None} :
            [x EXCEPT !.state = "used", !.replacedBy = n] \in TokenRow
  /\ \A x \in GrantRow :
       /\ [x EXCEPT !.state = "gone"] \in GrantRow
       /\ [x EXCEPT !.state = "revoked"] \in GrantRow
  BY DEF TokenRow, GrantRow

LEMMA TypedInit == Init => Typed
  BY NoneIsNoId DEF Init, Typed, TypeOK, Placed, GrantRow, TokenRow, CodeState,
     FormRecord, ReqRecord, NoGrant, NoToken, IdleForm, IdleReq

\* issueCode keeps the types.
LEMMA TypedForms ==
  ASSUME Typed, NEW f \in Forms,
         \/ \E u \in Users, c \in Clients, o \in Offline : AllowWorkspace(f, u, c, o)
         \/ FormStep(f)
         \/ FailForm(f)
  PROVE  Typed'
<1> USE DEF Typed, TypeOK, Placed, Issued, rows, wallets, history
<1>f. form[f] \in FormRecord
  OBVIOUS
<1>i. IdleForm \in FormRecord /\ IdleForm.pc = "idle"
  BY <1>f, FormFields DEF IdleForm
<1>1. ASSUME NEW u \in Users, NEW c \in Clients, NEW o \in Offline, AllowWorkspace(f, u, c, o)
      PROVE  Typed'
  BY <1>1, OfflineIsBoolean DEF AllowWorkspace, FormRecord, IdleForm
<1>2. CASE FindLiveGrant(f)
  <2> DEFINE known == \E g \in Grants : Live(g) /\ Pair(g) = <<form[f].user, form[f].client>>
             new == [form[f] EXCEPT !.pc = "grant", !.known = known]
  <2>1. form' = [form EXCEPT ![f] = new]
    BY <1>2 DEF FindLiveGrant
  <2>2. form[f].pc = "find" /\ UNCHANGED <<rows, req, wallets, history>>
    BY <1>2 DEF FindLiveGrant
  <2>3. known \in BOOLEAN
    OBVIOUS
  <2> HIDE DEF known
  <2>4. new \in FormRecord
    BY <1>f, <2>3, FormFields
  <2>5. new.user = form[f].user /\ new.client = form[f].client
    BY <1>f DEF FormRecord
  <2> HIDE DEF new
  <2> QED
    BY <2>1, <2>2, <2>4, <2>5
<1>3. CASE CreateGrant(f)
  <2>1. CASE form' = [form EXCEPT ![f] = IdleForm] /\ UNCHANGED grant
    BY <1>3, <1>i, <2>1 DEF CreateGrant
  <2>2. ASSUME NEW g \in Grants,
               grant' = [grant EXCEPT ![g] =
                           [state |-> "live", user |-> form[f].user,
                            client |-> form[f].client, offline |-> form[f].offline]],
               form' = [form EXCEPT ![f] = [@ EXCEPT !.pc = "code", !.grant = g]]
        PROVE  Typed'
    <3> DEFINE new == [form[f] EXCEPT !.pc = "code", !.grant = g]
               row == [state |-> "live", user |-> form[f].user,
                       client |-> form[f].client, offline |-> form[f].offline]
    <3>1. UNCHANGED <<user, code, token, req, wallets, history>> /\ form[f].pc = "grant"
      BY <1>3 DEF CreateGrant
    <3>2. row \in GrantRow
      BY <1>f DEF FormRecord, GrantRow
    <3>3. new \in FormRecord
      BY <1>f, FormFields
    <3>4. new.user = form[f].user /\ new.client = form[f].client
      BY <1>f DEF FormRecord
    <3>5. form' = [form EXCEPT ![f] = new] /\ grant' = [grant EXCEPT ![g] = row]
      BY <2>2
    <3> HIDE DEF new, row
    <3> QED
      BY <3>1, <3>2, <3>3, <3>4, <3>5
  <2> QED
    BY <1>3, <2>1, <2>2 DEF CreateGrant
<1>4. CASE CreateCode(f)
  BY <1>4, <1>i DEF CreateCode, CodeState
<1>5. CASE FailForm(f)
  BY <1>5, <1>i DEF FailForm
<1> QED
  BY <1>1, <1>2, <1>3, <1>4, <1>5 DEF FormStep

\* Tokens once issued keep their grant.
TokensKept ==
  /\ token' \in [Tokens -> TokenRow]
  /\ \A t \in Tokens : \A g \in Grants : Issued(t, g) => Issued(t, g)'
  /\ \A t \in Tokens : token'[t].state # "free" => token'[t].grant \in Grants

\* A request that ends, or goes on with the same grant and token, stays placed.
LEMMA ReqsPlaced ==
  ASSUME Typed, NEW r \in Reqs, NEW x \in ReqRecord, req' = [req EXCEPT ![r] = x],
         TokensKept,
         x.pc = "idle" \/ (req[r].pc # "idle" /\ x.grant = req[r].grant /\ x.old = req[r].old)
  PROVE  /\ req' \in [Reqs -> ReqRecord]
         /\ (\A s \in Reqs : req[s].pc # "idle" =>
                /\ req[s].grant \in Grants
                /\ req[s].old # None => Issued(req[s].old, req[s].grant))'
<1>1. req' \in [Reqs -> ReqRecord]
  BY DEF Typed, TypeOK
<1>2. ASSUME NEW s \in Reqs, req'[s].pc # "idle"
      PROVE  /\ req'[s].grant \in Grants
             /\ req'[s].old # None => Issued(req[s].old, req[s].grant)'
  <2>1. req[s].pc # "idle" /\ req'[s].grant = req[s].grant /\ req'[s].old = req[s].old
    BY <1>2 DEF Typed, TypeOK
  <2>2. req[s].grant \in Grants /\ req[s].old \in Tokens \cup {None}
        /\ (req[s].old # None => Issued(req[s].old, req[s].grant))
    BY <2>1 DEF Typed, TypeOK, Placed, ReqRecord
  <2>3. req[s].old # None =>
          token'[req[s].old].state # "free" /\ token'[req[s].old].grant = req[s].grant
    BY <2>2 DEF TokensKept, Issued
  <2> QED
    BY <2>1, <2>2, <2>3 DEF Issued
<1> QED
  BY <1>1, <1>2

\* The token endpoint keeps the types.
LEMMA TypedReqs ==
  ASSUME Typed, NEW r \in Reqs,
         \/ \E g \in Grants : ExchangeCode(r, g) \/ ExchangeForInternalToken(r, g)
         \/ \E t \in Tokens : Refresh(r, t)
         \/ ReqStep(r)
         \/ FailReq(r)
  PROVE  Typed'
<1> USE DEF Typed, TypeOK, Placed, rows, wallets, history
<1>r. req[r] \in ReqRecord
  OBVIOUS
<1>i. IdleReq \in ReqRecord /\ IdleReq.pc = "idle"
  BY <1>r, ReqFields DEF IdleReq
<1>k. ASSUME UNCHANGED token
      PROVE  TokensKept
  BY <1>k DEF TokensKept, Issued
<1>p. ASSUME NEW g \in Grants, NEW t \in Tokens \cup {None}, t # None => Issued(t, g),
             NEW pc \in {"cut", "consume", "issue", "account"}, Proceed(r, g, t, pc)
      PROVE  Typed'
  <2> DEFINE new == [IdleReq EXCEPT !.pc = pc, !.grant = g, !.old = t]
  <2>1. new \in ReqRecord /\ new.grant = g /\ new.old = t
    BY DEF IdleReq, ReqRecord
  <2>2. req' = [req EXCEPT ![r] = new] /\ disturbed' \subseteq Grants
        /\ UNCHANGED <<rows, form, wallets, redeemed, caught, cutBy, alarms, muted,
                       announced, lapsed>>
    BY <1>p DEF Proceed
  <2> HIDE DEF new
  <2> QED
    BY <1>p, <2>1, <2>2 DEF Issued
<1>q. ASSUME Refuse(r)
      PROVE  Typed'
  BY <1>q, <1>i, <1>k, ReqsPlaced DEF Refuse
\* A step that changes the request, and rows in a way that keeps their types.
<1>s. ASSUME NEW x \in ReqRecord, req' = [req EXCEPT ![r] = x], req[r].pc # "idle",
             x.pc = "idle" \/ (x.grant = req[r].grant /\ x.old = req[r].old),
             TokensKept,
             grant' \in [Grants -> GrantRow], code' \in [Grants -> CodeState],
             held' \subseteq Tokens, access' \subseteq Grants, session' \subseteq Grants,
             redeemed' \in [Grants -> Nat], caught' \subseteq Grants,
             cutBy' \in [Grants -> {"nobody", "server", "holder"}],
             alarms' \in [Grants -> Nat], muted' \subseteq Grants,
             disturbed' \subseteq Grants,
             UNCHANGED <<user, form, announced, lapsed>>
      PROVE  Typed'
  <2>1. TypeOK'
    BY <1>s, ReqsPlaced DEF TokensKept
  <2>2. Placed'
    BY <1>s, ReqsPlaced DEF TokensKept
  <2> QED
    BY <2>1, <2>2
<1>a. ASSUME Answer(r), req[r].pc # "idle", UNCHANGED <<user, grant, code>>, TokensKept
      PROVE  Typed'
  <2>1. req[r].grant \in Grants /\ req[r].new \in Tokens \cup {None}
    BY <1>a, <1>r DEF ReqRecord
  <2>2. redeemed' \in [Grants -> Nat]
    BY <1>a DEF Answer
  <2>3. held' \subseteq Tokens /\ access' \subseteq Grants
    BY <1>a, <2>1 DEF Answer
  <2> QED
    BY <1>a, <1>i, <1>s, <2>2, <2>3 DEF Answer
<1>1. ASSUME NEW g \in Grants, ExchangeCode(r, g)
      PROVE  Typed'
  <2>1. CASE UNCHANGED vars
    BY <2>1 DEF vars, handlers, Issued
  <2> QED
    BY <1>1, <1>p, <2>1 DEF ExchangeCode
<1>2. ASSUME NEW t \in Tokens, Refresh(r, t)
      PROVE  Typed'
  <2>1. CASE UNCHANGED vars
    BY <2>1 DEF vars, handlers, Issued
  <2>2. CASE token[t].state \in {"used", "fresh"}
    BY <1>2, <1>p, <2>1, <2>2 DEF Refresh, Issued
  <2> QED
    BY <1>2, <2>1, <2>2 DEF Refresh
<1>3. CASE ConsumeCode(r)
  <2> DEFINE new == [req[r] EXCEPT !.pc = "issue"]
  <2>1. new \in ReqRecord /\ new.grant = req[r].grant /\ new.old = req[r].old
    BY <1>r, ReqFields DEF ReqRecord
  <2>2. ASSUME code' = [code EXCEPT ![req[r].grant] = "consumed"],
               req' = [req EXCEPT ![r] = new],
               UNCHANGED <<user, grant, token, form, wallets, history>>
        PROVE  Typed'
    <3> HIDE DEF new
    <3>1. code' \in [Grants -> CodeState]
      BY <2>2 DEF CodeState
    <3> QED
      BY <1>3, <1>k, <1>s, <2>1, <2>2, <3>1 DEF ConsumeCode
  <2> QED
    BY <1>3, <1>q, <2>2 DEF ConsumeCode
<1>4. CASE LoadGrant(r)
  <2> DEFINE new(pc) == [req[r] EXCEPT !.pc = pc]
  <2>1. ASSUME NEW pc \in {"store", "touch"}, req' = [req EXCEPT ![r] = new(pc)],
               UNCHANGED <<rows, form, wallets, history>>
        PROVE  Typed'
    <3>1. new(pc) \in ReqRecord /\ new(pc).grant = req[r].grant /\ new(pc).old = req[r].old
      BY <1>r DEF ReqRecord
    <3> HIDE DEF new
    <3> QED
      BY <1>4, <1>k, <1>s, <2>1, <3>1 DEF LoadGrant
  <2> QED
    BY <1>4, <1>q, <2>1 DEF LoadGrant
<1>5. CASE StoreRefreshToken(r)
  <2> DEFINE new(t) == [req[r] EXCEPT !.pc = "touch", !.new = t]
             row == [state |-> "fresh", grant |-> req[r].grant, replacedBy |-> None]
  <2>1. ASSUME NEW t \in Tokens, token[t].state = "free",
               token' = [token EXCEPT ![t] = row], req' = [req EXCEPT ![r] = new(t)],
               UNCHANGED <<user, grant, code, form, wallets, history>>
        PROVE  Typed'
    <3>1. new(t) \in ReqRecord /\ new(t).grant = req[r].grant /\ new(t).old = req[r].old
      BY <1>r, ReqFields DEF ReqRecord
    <3>2. row \in TokenRow /\ row.grant \in Grants
      BY <1>5 DEF TokenRow, StoreRefreshToken
    <3> HIDE DEF new, row
    <3>3. TokensKept
      BY <2>1, <3>2 DEF TokensKept, Issued
    <3> QED
      BY <1>5, <1>s, <2>1, <3>1, <3>3 DEF StoreRefreshToken
  <2> QED
    BY <1>5, <1>q, <2>1 DEF StoreRefreshToken
<1>6. CASE TouchGrant(r)
  <2> DEFINE new == [req[r] EXCEPT !.pc = "spend"]
  <2>1. new \in ReqRecord /\ new.grant = req[r].grant /\ new.old = req[r].old
    BY <1>r, ReqFields DEF ReqRecord
  <2>2. CASE Answer(r) /\ UNCHANGED rows
    BY <1>6, <1>a, <1>k, <2>2 DEF TouchGrant
  <2>3. ASSUME req' = [req EXCEPT ![r] = new], UNCHANGED <<rows, form, wallets, history>>
        PROVE  Typed'
    <3> HIDE DEF new
    <3> QED
      BY <1>6, <1>k, <1>s, <2>1, <2>3 DEF TouchGrant
  <2> QED
    BY <1>6, <1>q, <2>2, <2>3 DEF TouchGrant
<1>7. CASE SpendRefreshToken(r)
  <2> DEFINE t == req[r].old
             row == [token[t] EXCEPT !.state = "used", !.replacedBy = req[r].new]
  <2>1. ASSUME token' = [token EXCEPT ![t] = row], UNCHANGED <<user, grant, code>>, Answer(r)
        PROVE  Typed'
    <3>1. t \in Tokens \cup {None} /\ req[r].new \in Tokens \cup {None}
      BY <1>r DEF ReqRecord
    <3>2. CASE t \in Tokens
      <4>1. row \in TokenRow
        BY <3>1, <3>2, RowFields
      <4>2. row.state = "used" /\ row.grant = token[t].grant /\ token[t].grant \in Grants
        BY <1>7, <3>2, NoneIsNoId DEF SpendRefreshToken, TokenRow, Issued
      <4> HIDE DEF row
      <4>3. TokensKept
        BY <2>1, <3>2, <4>1, <4>2 DEF TokensKept, Issued
      <4> QED
        BY <1>7, <1>a, <2>1, <4>3 DEF SpendRefreshToken
    <3>3. CASE t = None
      <4>1. token' = token
        BY <2>1, <3>3, NoneIsNoId
      <4> QED
        BY <1>7, <1>a, <1>k, <2>1, <4>1 DEF SpendRefreshToken
    <3> QED
      BY <3>1, <3>2, <3>3
  <2> QED
    BY <1>7, <1>q, <2>1 DEF SpendRefreshToken
<1>8. CASE CutGrant(r)
  <2> DEFINE new == [req[r] EXCEPT !.pc = "tell"]
  <2>1. grant' \in [Grants -> GrantRow]
    BY <1>8, RowFields DEF CutGrant, CutAndTellIf, RevokeGrant
  <2>2. cutBy' \in [Grants -> {"nobody", "server", "holder"}]
    BY <1>8 DEF CutGrant, CutAndTellIf, RevokeGrant
  <2>3. caught' \subseteq Grants /\ req[r].pc # "idle"
        /\ UNCHANGED <<user, code, token, form, wallets, redeemed, alarms, muted,
                       announced, lapsed, disturbed>>
    BY <1>8 DEF CutGrant, CutAndTellIf
  <2>4. new \in ReqRecord /\ new.grant = req[r].grant /\ new.old = req[r].old
    BY <1>r, ReqFields DEF ReqRecord
  <2>5. req' = [req EXCEPT ![r] = new] \/ req' = [req EXCEPT ![r] = IdleReq]
    BY <1>8 DEF CutGrant, CutAndTellIf
  <2> HIDE DEF new
  <2> QED
    BY <1>i, <1>k, <1>s, <2>1, <2>2, <2>3, <2>4, <2>5
<1>9. CASE FailReq(r)
  BY <1>9, <1>i, <1>k, <1>s DEF FailReq
<1>10. CASE NoticeAccessRevoked(r)
  <2>1. alarms' \in [Grants -> Nat]
    BY <1>10 DEF NoticeAccessRevoked
  <2> QED
    BY <1>10, <1>i, <1>k, <1>s, <2>1 DEF NoticeAccessRevoked
<1>11. CASE OpenSession(r)
  <2>1. session' \subseteq Grants
    BY <1>11 DEF OpenSession
  <2> QED
    BY <1>11, <1>i, <1>k, <1>s, <2>1 DEF OpenSession
<1>12. ASSUME NEW g \in Grants, ExchangeForInternalToken(r, g)
       PROVE  Typed'
  BY <1>12, <1>p DEF ExchangeForInternalToken
<1> QED
  BY <1>1, <1>2, <1>3, <1>4, <1>5, <1>6, <1>7, <1>8, <1>9, <1>10, <1>11, <1>12 DEF ReqStep

\* Revocation by token, accounts and time keep the types.
LEMMA TypedRest ==
  ASSUME Typed,
         \/ \E u \in Users : DeactivateUser(u) \/ ReactivateUser(u) \/ DeleteUser(u)
         \/ \E g \in Grants :
              \/ RevokeByToken(g)
              \/ ExpireCode(g) \/ ExpireAccessToken(g) \/ ExpireSession(g)
         \/ \E t \in Tokens : ExpireRefreshToken(t)
  PROVE  Typed'
<1> USE DEF Typed, TypeOK, Placed, Issued, rows, handlers, wallets, history
<1>1. ASSUME NEW u \in Users, DeactivateUser(u) \/ ReactivateUser(u)
      PROVE  Typed'
  BY <1>1 DEF DeactivateUser, ReactivateUser
<1>2. ASSUME NEW u \in Users, DeleteUser(u)
      PROVE  Typed'
  <2> DEFINE dead == {g \in Grants : grant[g].user = u}
  <2>1. grant' \in [Grants -> GrantRow]
    BY <1>2, RowFields DEF DeleteUser
  <2>2. code' \in [Grants -> CodeState]
    BY <1>2 DEF DeleteUser, CodeState
  <2>3. token' \in [Tokens -> TokenRow]
    BY <1>2, RowFields DEF DeleteUser
  <2>4. \A t \in Tokens : token[t].grant \in Grants =>
          token'[t].grant = token[t].grant /\ (token[t].state # "free" => token'[t].state # "free")
    BY <1>2 DEF DeleteUser, TokenRow
  <2>5. \A t \in Tokens : token'[t].state # "free" => token'[t].grant \in Grants
    BY <1>2 DEF DeleteUser, TokenRow
  <2>6. user' \in [Users -> {"active", "inactive", "deleted"}]
        /\ UNCHANGED <<handlers, wallets, history>>
    BY <1>2 DEF DeleteUser
  <2>7. \A r \in Reqs : req[r].pc # "idle" =>
          /\ req[r].grant \in Grants
          /\ req[r].old # None =>
               token'[req[r].old].state # "free" /\ token'[req[r].old].grant = req[r].grant
    <3>1. \A r \in Reqs : req[r].old \in Tokens \cup {None}
      BY DEF ReqRecord
    <3> QED
      BY <2>4, <3>1
  <2>8. Placed'
    BY <2>5, <2>6, <2>7
  <2>9. TypeOK'
    BY <2>1, <2>2, <2>3, <2>6
  <2> QED
    BY <2>8, <2>9
<1>3. ASSUME NEW g \in Grants, RevokeByToken(g)
      PROVE  Typed'
  <2>1. grant' \in [Grants -> GrantRow]
    BY <1>3, RowFields DEF RevokeByToken, RevokeGrant
  <2>2. cutBy' \in [Grants -> {"nobody", "server", "holder"}]
    BY <1>3 DEF RevokeByToken, RevokeGrant
  <2> QED
    BY <1>3, <2>1, <2>2 DEF RevokeByToken
<1>4. ASSUME NEW g \in Grants,
             ExpireAccessToken(g) \/ ExpireSession(g)
      PROVE  Typed'
  BY <1>4 DEF ExpireAccessToken, ExpireSession
<1>5. ASSUME NEW g \in Grants, ExpireCode(g)
      PROVE  Typed'
  BY <1>5 DEF ExpireCode, CodeState
<1>6. ASSUME NEW t \in Tokens, ExpireRefreshToken(t)
      PROVE  Typed'
  <2> DEFINE row == [token[t] EXCEPT !.state = "expired"]
  <2>1. row \in TokenRow /\ row.state = "expired" /\ row.grant = token[t].grant
    BY RowFields DEF TokenRow
  <2>2. token' = [token EXCEPT ![t] = row] /\ token[t].state = "fresh"
        /\ UNCHANGED <<user, grant, code, handlers, wallets, history>>
    BY <1>6 DEF ExpireRefreshToken
  <2>3. \A r \in Reqs : req[r].old \in Tokens \cup {None}
    BY DEF ReqRecord
  <2> HIDE DEF row
  <2> QED
    BY <2>1, <2>2, <2>3
<1> QED
  BY <1>1, <1>2, <1>3, <1>4, <1>5, <1>6

\* Typed is an inductive invariant.
LEMMA TypedStep == Typed /\ [Next]_vars => Typed'
<1> SUFFICES ASSUME Typed, [Next]_vars PROVE Typed'
  OBVIOUS
<1>1. CASE UNCHANGED vars
  BY <1>1 DEF vars, rows, handlers, wallets, history, Typed, TypeOK, Placed, Issued
<1> QED
  BY <1>1, TypedForms, TypedReqs, TypedRest DEF Next

\* TypeOK holds in every reachable state: no handler writes a value the schema
\* or the handler's record does not allow.
THEOREM TypeCorrect == Spec => []TypeOK
<1>1. Typed => TypeOK
  BY DEF Typed
<1> QED
  BY <1>1, TypedInit, TypedStep, PTL DEF Spec

-----------------------------------------------------------------------------
(* What points at a grant keeps pointing at it *)

Born(g) == grant[g].state # "free"

\* A grant row belongs to a person and a client; codes, refresh tokens, requests
\* and access tokens only ever name grants that were created.
Rooted ==
  /\ \A g \in Grants : IF Born(g) THEN grant[g].user \in Users ELSE grant[g] = NoGrant
  /\ \A g \in Grants : code[g] # "none" => Born(g)
  /\ \A f \in Forms : form[f].pc = "code" => form[f].grant \in Grants /\ Born(form[f].grant)
  /\ \A t \in Tokens : IF token[t].state # "free" THEN Born(token[t].grant) ELSE token[t] = NoToken
  /\ \A r \in Reqs : req[r].pc # "idle" => Born(req[r].grant)

\* The steps that change a grant row or the records of who cut it.
GrantStep ==
  \/ \E f \in Forms : CreateGrant(f)
  \/ \E r \in Reqs : CutGrant(r)
  \/ \E g \in Grants : RevokeByToken(g)
  \/ \E u \in Users : DeleteUser(u)

LEMMA OtherSteps ==
  ASSUME Next, ~GrantStep
  PROVE  UNCHANGED <<grant, caught, cutBy>>
<1> USE DEF rows, handlers, wallets, history, vars
<1>1. ASSUME NEW f \in Forms, FormStep(f) \/ FailForm(f)
      PROVE  UNCHANGED <<grant, caught, cutBy>>
  BY <1>1 DEF FormStep, FindLiveGrant, CreateCode, FailForm, GrantStep
<1>2. ASSUME NEW f \in Forms, NEW u \in Users, NEW c \in Clients, NEW o \in Offline,
             AllowWorkspace(f, u, c, o)
      PROVE  UNCHANGED <<grant, caught, cutBy>>
  BY <1>2 DEF AllowWorkspace
<1>3. ASSUME NEW r \in Reqs, NEW g \in Grants,
             ExchangeCode(r, g) \/ ExchangeForInternalToken(r, g)
      PROVE  UNCHANGED <<grant, caught, cutBy>>
  BY <1>3 DEF ExchangeCode, ExchangeForInternalToken, Proceed
<1>4. ASSUME NEW r \in Reqs, NEW t \in Tokens, Refresh(r, t)
      PROVE  UNCHANGED <<grant, caught, cutBy>>
  BY <1>4 DEF Refresh, Proceed
<1>5. ASSUME NEW r \in Reqs, ReqStep(r) \/ FailReq(r)
      PROVE  UNCHANGED <<grant, caught, cutBy>>
  BY <1>5 DEF ReqStep, ConsumeCode, LoadGrant, StoreRefreshToken, TouchGrant,
     SpendRefreshToken, NoticeAccessRevoked, OpenSession, FailReq, Refuse, Answer, GrantStep
<1>6. ASSUME NEW u \in Users, DeactivateUser(u) \/ ReactivateUser(u)
      PROVE  UNCHANGED <<grant, caught, cutBy>>
  BY <1>6 DEF DeactivateUser, ReactivateUser
<1>7. ASSUME NEW g \in Grants,
             ExpireCode(g) \/ ExpireAccessToken(g) \/ ExpireSession(g)
      PROVE  UNCHANGED <<grant, caught, cutBy>>
  BY <1>7 DEF ExpireCode, ExpireAccessToken, ExpireSession
<1>8. ASSUME NEW t \in Tokens, ExpireRefreshToken(t)
      PROVE  UNCHANGED <<grant, caught, cutBy>>
  BY <1>8 DEF ExpireRefreshToken
<1> QED
  BY <1>1, <1>2, <1>3, <1>4, <1>5, <1>6, <1>7, <1>8 DEF Next, GrantStep

\* A grant row, once born, stays: only its state changes.
LEMMA GrantsStay ==
  ASSUME Typed, Rooted, [Next]_vars
  PROVE  \A g \in Grants : Born(g) =>
           /\ Born(g)' /\ grant'[g].user = grant[g].user
           /\ grant'[g].client = grant[g].client /\ grant'[g].offline = grant[g].offline
           /\ grant'[g].state # grant[g].state => grant'[g].state \in {"revoked", "gone"}
<1> USE DEF Typed, TypeOK, Born, GrantRow
<1>1. ASSUME NEW f \in Forms, CreateGrant(f)
      PROVE  \A g \in Grants : Born(g) => grant'[g] = grant[g]
  BY <1>1 DEF CreateGrant
<1>2. ASSUME NEW r \in Reqs, CutGrant(r)
      PROVE  \A g \in Grants : grant'[g] = grant[g] \/ grant'[g] = [grant[g] EXCEPT !.state = "revoked"]
  BY <1>2 DEF CutGrant, CutAndTellIf, RevokeGrant
<1>3. ASSUME NEW h \in Grants, RevokeByToken(h)
      PROVE  \A g \in Grants : grant'[g] = grant[g] \/ grant'[g] = [grant[g] EXCEPT !.state = "revoked"]
  BY <1>3 DEF RevokeByToken, RevokeGrant
<1>4. ASSUME NEW u \in Users, DeleteUser(u)
      PROVE  \A g \in Grants : grant'[g] = grant[g] \/ grant'[g] = [grant[g] EXCEPT !.state = "gone"]
  BY <1>4 DEF DeleteUser
<1>5. CASE UNCHANGED grant
  BY <1>5
<1>6. \A g \in Grants : \A s \in {"revoked", "gone"} :
        LET row == [grant[g] EXCEPT !.state = s]
        IN  row.state = s /\ row.user = grant[g].user
              /\ row.client = grant[g].client /\ row.offline = grant[g].offline
  OBVIOUS
<1>7. ASSUME \/ \A g \in Grants : grant'[g] = grant[g] \/ grant'[g] = [grant[g] EXCEPT !.state = "revoked"]
             \/ \A g \in Grants : grant'[g] = grant[g] \/ grant'[g] = [grant[g] EXCEPT !.state = "gone"],
             NEW g \in Grants, Born(g)
      PROVE  /\ Born(g)' /\ grant'[g].user = grant[g].user
             /\ grant'[g].client = grant[g].client /\ grant'[g].offline = grant[g].offline
             /\ grant'[g].state # grant[g].state => grant'[g].state \in {"revoked", "gone"}
  <2>1. CASE grant'[g] = grant[g]
    BY <1>7, <2>1
  <2>2. CASE grant'[g] = [grant[g] EXCEPT !.state = "revoked"]
    BY <1>6, <2>2
  <2>3. CASE grant'[g] = [grant[g] EXCEPT !.state = "gone"]
    BY <1>6, <2>3
  <2> QED
    BY <1>7, <2>1, <2>2, <2>3
<1>8. CASE \E f \in Forms : CreateGrant(f)
  BY <1>1, <1>8
<1>9. CASE GrantStep /\ ~\E f \in Forms : CreateGrant(f)
  BY <1>2, <1>3, <1>4, <1>7, <1>9 DEF GrantStep
<1> QED
  BY <1>5, <1>8, <1>9, OtherSteps DEF vars, rows

\* Which steps write a code, a refresh token, a form.
LEMMA CodeMoves ==
  ASSUME [Next]_vars
  PROVE  \/ UNCHANGED code
         \/ \E f \in Forms : CreateCode(f)
         \/ \E r \in Reqs : ConsumeCode(r)
         \/ \E u \in Users : DeleteUser(u)
         \/ \E g \in Grants : ExpireCode(g)
  BY DEF Next, vars, rows, FormStep, ReqStep, AllowWorkspace, FindLiveGrant, CreateGrant,
     FailForm, ExchangeCode, Refresh, Proceed, LoadGrant, StoreRefreshToken, TouchGrant,
     SpendRefreshToken, CutGrant, CutAndTellIf, NoticeAccessRevoked,
     OpenSession, FailReq, Refuse, Answer, DeactivateUser, ReactivateUser,
     RevokeByToken, ExchangeForInternalToken, ExpireAccessToken, ExpireSession,
     ExpireRefreshToken

LEMMA TokenMoves ==
  ASSUME [Next]_vars
  PROVE  \/ UNCHANGED token
         \/ \E r \in Reqs : StoreRefreshToken(r) \/ SpendRefreshToken(r)
         \/ \E u \in Users : DeleteUser(u)
         \/ \E t \in Tokens : ExpireRefreshToken(t)
  BY DEF Next, vars, rows, FormStep, ReqStep, AllowWorkspace, FindLiveGrant, CreateGrant,
     CreateCode, FailForm, ExchangeCode, Refresh, Proceed, ConsumeCode, LoadGrant, TouchGrant,
     CutGrant, CutAndTellIf, NoticeAccessRevoked,
     OpenSession, FailReq, Refuse, Answer, DeactivateUser, ReactivateUser,
     RevokeByToken, ExchangeForInternalToken, ExpireCode, ExpireAccessToken, ExpireSession

LEMMA FormMoves ==
  ASSUME [Next]_vars
  PROVE  \/ UNCHANGED form
         \/ \E f \in Forms :
              \/ \E u \in Users, c \in Clients, o \in Offline : AllowWorkspace(f, u, c, o)
              \/ FormStep(f) \/ FailForm(f)
  BY DEF Next, vars, rows, handlers, ReqStep, ExchangeCode, Refresh, Proceed, ConsumeCode,
     LoadGrant, StoreRefreshToken, TouchGrant, SpendRefreshToken,
     CutGrant, CutAndTellIf, NoticeAccessRevoked,
     OpenSession, FailReq, Refuse, Answer, DeactivateUser, ReactivateUser, DeleteUser,
     RevokeByToken, ExchangeForInternalToken, ExpireCode, ExpireAccessToken, ExpireSession,
     ExpireRefreshToken

LEMMA ReqMoves ==
  ASSUME [Next]_vars
  PROVE  \/ UNCHANGED req
         \/ \E r \in Reqs :
              \/ \E g \in Grants : ExchangeCode(r, g) \/ ExchangeForInternalToken(r, g)
              \/ \E t \in Tokens : Refresh(r, t)
              \/ ReqStep(r) \/ FailReq(r)
  BY DEF Next, vars, rows, handlers, FormStep, AllowWorkspace, FindLiveGrant, CreateGrant,
     CreateCode, FailForm, DeactivateUser, ReactivateUser, DeleteUser,
     RevokeByToken, ExpireCode, ExpireAccessToken, ExpireSession,
     ExpireRefreshToken

\* A request keeps its grant, or took it from a code or refresh token just read.
LEMMA ReqOrigins ==
  ASSUME Typed, Rooted, [Next]_vars, NEW r \in Reqs, req'[r].pc # "idle"
  PROVE  \/ req[r].pc # "idle" /\ req'[r].grant = req[r].grant
         \/ \E g \in Grants : Born(g) /\ req'[r].grant = g
<1> USE DEF Typed, TypeOK
<1>1. CASE req'[r] = req[r]
  BY <1>1
<1>2. ASSUME NEW s \in Reqs, NEW g \in Grants, NEW t \in Tokens \cup {None},
             NEW pc, Proceed(s, g, t, pc), Born(g), req'[r] # req[r]
      PROVE  Born(g) /\ req'[r].grant = g
  BY <1>2 DEF Proceed, IdleReq
<1>3. ASSUME NEW s \in Reqs, NEW g \in Grants, ExchangeCode(s, g), req'[r] # req[r]
      PROVE  \E h \in Grants : Born(h) /\ req'[r].grant = h
  <2>1. Born(g)
    BY <1>3 DEF ExchangeCode, vars, handlers, Rooted
  <2> QED
    BY <1>2, <1>3, <2>1 DEF ExchangeCode, vars, handlers
<1>6. ASSUME NEW s \in Reqs, NEW g \in Grants, ExchangeForInternalToken(s, g), req'[r] # req[r]
      PROVE  \E h \in Grants : Born(h) /\ req'[r].grant = h
  <2>1. Born(g) /\ Proceed(s, g, None, "account")
    BY <1>6 DEF ExchangeForInternalToken, Live, Born
  <2> QED
    BY <1>2, <1>6, <2>1
<1>4. ASSUME NEW s \in Reqs, NEW t \in Tokens, Refresh(s, t), req'[r] # req[r]
      PROVE  \E h \in Grants : Born(h) /\ req'[r].grant = h
  <2>1. token[t].grant \in Grants /\ Born(token[t].grant)
    BY <1>4 DEF Refresh, vars, handlers, Rooted, Placed
  <2> QED
    BY <1>2, <1>4, <2>1 DEF Refresh, vars, handlers
<1>5. ASSUME NEW s \in Reqs, ReqStep(s) \/ FailReq(s), req'[r] # req[r]
      PROVE  req[r].pc # "idle" /\ req'[r].grant = req[r].grant
  <2>1. req[s].pc # "idle" /\ s = r
    BY <1>5 DEF ReqStep, FailReq, ConsumeCode, LoadGrant, StoreRefreshToken, TouchGrant,
       SpendRefreshToken, CutGrant, CutAndTellIf, NoticeAccessRevoked, OpenSession,
       Refuse, Answer
  <2> DEFINE moved(pc) == [req[r] EXCEPT !.pc = pc]
             stored(t) == [req[r] EXCEPT !.pc = "touch", !.new = t]
  <2>2. \/ req'[r] = IdleReq
        \/ \E pc \in {"issue", "store", "touch", "spend", "tell"} : req'[r] = moved(pc)
        \/ \E t \in Tokens : req'[r] = stored(t)
    BY <1>5, <2>1 DEF ReqStep, FailReq, ConsumeCode, LoadGrant, StoreRefreshToken, TouchGrant,
       SpendRefreshToken, CutGrant, CutAndTellIf, NoticeAccessRevoked, OpenSession,
       Refuse, Answer
  <2>3. /\ \A pc \in {"issue", "store", "touch", "spend", "tell"} : moved(pc).grant = req[r].grant
        /\ \A t \in Tokens : stored(t).grant = req[r].grant
    <3>1. req[r] \in ReqRecord
      OBVIOUS
    <3> QED
      BY <3>1 DEF ReqRecord
  <2> HIDE DEF moved, stored
  <2> QED
    BY <2>1, <2>2, <2>3 DEF IdleReq
<1> QED
  BY <1>1, <1>3, <1>4, <1>5, <1>6, ReqMoves

LEMMA RootedInit == Init => Rooted
  BY DEF Init, Rooted, Born, NoGrant, NoToken, IdleForm, IdleReq

LEMMA RootedStep == Typed /\ Rooted /\ [Next]_vars => Rooted'
<1> SUFFICES ASSUME Typed, Rooted, [Next]_vars PROVE Rooted'
  OBVIOUS
<1> DEFINE Stays == \A g \in Grants : Born(g) => Born(g)'
<1>b. Stays
  BY GrantsStay
<1>1. (\A g \in Grants : IF Born(g) THEN grant[g].user \in Users ELSE grant[g] = NoGrant)'
  <2>1. ASSUME NEW g \in Grants, Born(g)
        PROVE  Born(g)' /\ grant'[g].user \in Users
    BY <2>1, GrantsStay DEF Rooted
  <2>2. ASSUME NEW g \in Grants, ~Born(g), grant'[g] # grant[g]
        PROVE  Born(g)' /\ grant'[g].user \in Users
    <3>1. GrantStep
      BY <2>2, OtherSteps DEF vars, rows
    <3>2. ASSUME NEW f \in Forms, CreateGrant(f)
          PROVE  Born(g)' /\ grant'[g].user \in Users
      <4>1. form[f].user \in Users
        BY <3>2 DEF CreateGrant, Typed, Placed
      <4>2. grant' # grant /\ g \in DOMAIN grant
        BY <2>2 DEF Typed, TypeOK
      <4>3. grant'[g] = [state |-> "live", user |-> form[f].user,
                         client |-> form[f].client, offline |-> form[f].offline]
        BY <2>2, <3>2, <4>2 DEF CreateGrant
      <4> QED
        BY <4>1, <4>3 DEF Born
    <3>3. ASSUME NEW h \in Grants, NEW who, RevokeGrant(h, who)
          PROVE  FALSE
      BY <2>2, <3>3 DEF RevokeGrant, Live, Born, Typed, TypeOK
    <3>4. ASSUME NEW r \in Reqs, CutGrant(r)
          PROVE  FALSE
      BY <3>3, <3>4 DEF CutGrant, CutAndTellIf, Typed, Placed
    <3>5. ASSUME NEW u \in Users, DeleteUser(u)
          PROVE  FALSE
      BY <2>2, <3>5, NoneIsNoId DEF DeleteUser, Rooted, NoGrant
    <3> QED
      BY <3>1, <3>2, <3>3, <3>4, <3>5 DEF GrantStep, RevokeByToken
  <2> QED
    BY <2>1, <2>2 DEF Rooted, Born
<1>2. (\A g \in Grants : code[g] # "none" => Born(g))'
  <2> SUFFICES ASSUME NEW g \in Grants, code'[g] # "none", ~Born(g)
               PROVE  FALSE
    BY <1>b
  <2>1. code[g] = "none" /\ grant[g] = NoGrant
    BY DEF Rooted
  <2>2. ASSUME NEW f \in Forms, CreateCode(f)
        PROVE  FALSE
    BY <2>1, <2>2 DEF CreateCode, Exists, Typed, TypeOK, Born
  <2>3. ASSUME NEW r \in Reqs, ConsumeCode(r)
        PROVE  FALSE
    BY <2>1, <2>3 DEF ConsumeCode, Refuse, rows, Typed, TypeOK, Rooted
  <2>4. ASSUME NEW u \in Users, DeleteUser(u)
        PROVE  FALSE
    BY <2>1, <2>4 DEF DeleteUser
  <2>5. ASSUME NEW h \in Grants, ExpireCode(h)
        PROVE  FALSE
    BY <2>1, <2>5 DEF ExpireCode, Typed, TypeOK
  <2> QED
    BY <2>1, <2>2, <2>3, <2>4, <2>5, CodeMoves
<1>3. (\A f \in Forms : form[f].pc = "code" => form[f].grant \in Grants /\ Born(form[f].grant))'
  <2> SUFFICES ASSUME NEW f \in Forms, form'[f].pc = "code"
               PROVE  form'[f].grant \in Grants /\ Born(form[f].grant)'
    OBVIOUS
  <2>1. CASE form'[f] = form[f]
    BY <1>b, <2>1 DEF Rooted, Born
  <2>2. ASSUME NEW h \in Forms, CreateGrant(h), form'[f] # form[f]
        PROVE  form'[f].grant \in Grants /\ Born(form[f].grant)'
    <3>1. CASE form' = [form EXCEPT ![h] = IdleForm]
      BY <2>2, <3>1 DEF IdleForm, Typed, TypeOK
    <3>2. ASSUME NEW g \in Grants, form' = [form EXCEPT ![h] = [@ EXCEPT !.pc = "code", !.grant = g]],
                 grant' = [grant EXCEPT ![g] =
                            [state |-> "live", user |-> form[h].user,
                             client |-> form[h].client, offline |-> form[h].offline]]
          PROVE  form'[f].grant \in Grants /\ Born(form[f].grant)'
      <4>1. f = h /\ form'[f] = [form[h] EXCEPT !.pc = "code", !.grant = g]
        BY <2>2, <3>2 DEF Typed, TypeOK
      <4>2. form'[f].grant = g
        BY <4>1 DEF Typed, TypeOK, FormRecord
      <4>3. grant'[g].state = "live"
        BY <3>2 DEF Typed, TypeOK
      <4> QED
        BY <4>2, <4>3 DEF Born
    <3> QED
      BY <2>2, <3>1, <3>2 DEF CreateGrant
  <2>3. ASSUME NEW h \in Forms, form'[f] # form[f],
               FindLiveGrant(h) \/ CreateCode(h) \/ FailForm(h)
        PROVE  FALSE
    <3>1. form'[f] = IdleForm \/ form'[f].pc = "grant"
      BY <2>3 DEF FindLiveGrant, CreateCode, FailForm, Typed, TypeOK, FormRecord
    <3> QED
      BY <3>1 DEF IdleForm
  <2>4. ASSUME NEW h \in Forms, form'[f] # form[f],
               NEW u \in Users, NEW c \in Clients, NEW o \in Offline, AllowWorkspace(h, u, c, o)
        PROVE  FALSE
    <3>1. form'[f].pc = "find"
      BY <2>4 DEF AllowWorkspace, Typed, TypeOK, IdleForm
    <3> QED
      BY <3>1
  <2> QED
    BY <2>1, <2>2, <2>3, <2>4, FormMoves DEF FormStep
<1>4. (\A t \in Tokens :
         IF token[t].state # "free" THEN Born(token[t].grant) ELSE token[t] = NoToken)'
  <2> SUFFICES ASSUME NEW t \in Tokens
               PROVE  (IF token[t].state # "free" THEN Born(token[t].grant)
                                                  ELSE token[t] = NoToken)'
    OBVIOUS
  <2>1. CASE token'[t] = token[t]
    BY <1>b, <2>1 DEF Rooted, Typed, Placed, Born
  <2>2. CASE token'[t].state # "free" /\ token'[t].grant \in Grants /\ Born(token'[t].grant)
    BY <1>b, <2>2 DEF Born
  <2>3. ASSUME NEW r \in Reqs, StoreRefreshToken(r), token'[t] # token[t]
        PROVE  token'[t].state # "free" /\ token'[t].grant \in Grants /\ Born(token'[t].grant)
    <3>1. token'[t] = [state |-> "fresh", grant |-> req[r].grant, replacedBy |-> None]
      BY <2>3 DEF StoreRefreshToken, Refuse, rows, Typed, TypeOK
    <3>2. token'[t].state = "fresh" /\ token'[t].grant = req[r].grant
      BY <3>1
    <3>3. req[r].grant \in Grants /\ Born(req[r].grant)
      BY <2>3 DEF StoreRefreshToken, Rooted, Typed, Placed
    <3> QED
      BY <3>2, <3>3
  <2>4. ASSUME token[t].state # "free", NEW s \in {"used", "gone", "expired"},
               \/ token'[t] = [token[t] EXCEPT !.state = s]
               \/ \E r \in Reqs : token'[t] = [token[t] EXCEPT !.state = s, !.replacedBy = req[r].new]
        PROVE  token'[t].state # "free" /\ token'[t].grant \in Grants /\ Born(token'[t].grant)
    <3>1. token'[t].state = s /\ token'[t].grant = token[t].grant
      BY <2>4 DEF Typed, TypeOK, TokenRow
    <3> QED
      BY <2>4, <3>1 DEF Rooted, Typed, Placed
  <2>5. ASSUME NEW r \in Reqs, SpendRefreshToken(r), token'[t] # token[t]
        PROVE  token'[t].state # "free" /\ token'[t].grant \in Grants /\ Born(token'[t].grant)
    <3>1. t = req[r].old
          /\ token'[t] = [token[t] EXCEPT !.state = "used", !.replacedBy = req[r].new]
      BY <2>5 DEF SpendRefreshToken, Refuse, rows, Typed, TypeOK
    <3>2. token[t].state # "free"
      BY <2>5, <3>1, NoneIsNoId DEF SpendRefreshToken, Typed, Placed, Issued
    <3> QED
      BY <2>4, <3>1, <3>2
  <2>6. ASSUME NEW u \in Users, DeleteUser(u), token'[t] # token[t]
        PROVE  token'[t].state # "free" /\ token'[t].grant \in Grants /\ Born(token'[t].grant)
    <3>1. token[t].grant \in Grants /\ token'[t] = [token[t] EXCEPT !.state = "gone"]
      BY <2>6 DEF DeleteUser
    <3>2. token[t].state # "free"
      BY <3>1, NoneIsNoId DEF Rooted, NoToken
    <3> QED
      BY <2>4, <3>1, <3>2
  <2>7. ASSUME NEW s \in Tokens, ExpireRefreshToken(s), token'[t] # token[t]
        PROVE  token'[t].state # "free" /\ token'[t].grant \in Grants /\ Born(token'[t].grant)
    <3>1. token[t].state = "fresh" /\ token'[t] = [token[t] EXCEPT !.state = "expired"]
      BY <2>7 DEF ExpireRefreshToken, Typed, TypeOK
    <3> QED
      BY <2>4, <3>1
  <2> QED
    BY <2>1, <2>2, <2>3, <2>5, <2>6, <2>7, TokenMoves
<1>5. (\A r \in Reqs : req[r].pc # "idle" => Born(req[r].grant))'
  <2> SUFFICES ASSUME NEW r \in Reqs, req'[r].pc # "idle"
               PROVE  Born(req[r].grant)'
    OBVIOUS
  <2>1. CASE req[r].pc # "idle" /\ req'[r].grant = req[r].grant
    BY <1>b, <2>1 DEF Rooted, Typed, Placed, Born
  <2>2. CASE \E g \in Grants : Born(g) /\ req'[r].grant = g
    BY <1>b, <2>2 DEF Born
  <2> QED
    BY <2>1, <2>2, ReqMoves, ReqOrigins
<1> QED
  BY <1>1, <1>2, <1>3, <1>4, <1>5 DEF Rooted

-----------------------------------------------------------------------------
(* Revocation and its notices *)

\* CaughtIsCutOff and AlarmIsForTheCut, with what makes them inductive: whoever is
\* about to be told, or never will be, was cut off by the server; one request at
\* most is to tell them; and a grant nobody cut was never reported.
CutInv ==
  /\ AlarmIsForTheCut
  /\ \A r \in Reqs : req[r].pc = "tell" =>
       cutBy[req[r].grant] = "server" /\ req[r].grant \notin muted
  /\ \A r, s \in Reqs :
       req[r].pc = "tell" /\ req[s].pc = "tell" /\ req[r].grant = req[s].grant => r = s
  /\ \A g \in muted : cutBy[g] = "server"
  /\ \A g \in caught : grant[g].state \in {"revoked", "gone"}
  /\ \A g \in Grants : ~Born(g) => cutBy[g] = "nobody"

LEMMA CutInit == Init => CutInv
  BY DEF Init, CutInv, AlarmIsForTheCut, Live, NoGrant, IdleReq

\* No notice starts or is lost, and no request comes to be about to start one.
SameTellers ==
  /\ UNCHANGED <<alarms, muted>>
  /\ \A r \in Reqs : req[r].pc = "tell" \/ req'[r].pc = "tell" => req'[r] = req[r]

LEMMA TellerMoves ==
  ASSUME Typed, [Next]_vars
  PROVE  \/ SameTellers
         \/ \E r \in Reqs : CutGrant(r) \/ NoticeAccessRevoked(r) \/ (FailReq(r) /\ req[r].pc = "tell")
<1> USE DEF Typed, TypeOK
<1>1. ASSUME UNCHANGED <<alarms, muted, req>>
      PROVE  SameTellers
  BY <1>1 DEF SameTellers
<1>2. ASSUME NEW r \in Reqs, UNCHANGED <<alarms, muted>>, req[r].pc # "tell",
             \E x : req' = [req EXCEPT ![r] = x] /\ x.pc # "tell"
      PROVE  SameTellers
  BY <1>2 DEF SameTellers
<1>3. ASSUME NEW r \in Reqs, NEW g, NEW t, NEW pc \in {"cut", "consume", "issue", "account"},
             Proceed(r, g, t, pc), req[r].pc = "idle"
      PROVE  SameTellers
  <2>1. [IdleReq EXCEPT !.pc = pc, !.grant = g, !.old = t].pc # "tell"
    BY DEF IdleReq
  <2> QED
    BY <1>2, <1>3, <2>1 DEF Proceed
<1>4. ASSUME NEW r \in Reqs, NEW g \in Grants,
             ExchangeCode(r, g) \/ ExchangeForInternalToken(r, g)
      PROVE  SameTellers
  <2>1. CASE UNCHANGED vars
    BY <1>1, <2>1 DEF vars, handlers, history
  <2>2. CASE \/ Proceed(r, g, None, "cut") \/ Proceed(r, g, None, "consume")
             \/ Proceed(r, g, None, "account")
    <3>1. req[r].pc = "idle"
      BY <1>4 DEF ExchangeCode, ExchangeForInternalToken
    <3> QED
      BY <1>3, <2>2, <3>1
  <2> QED
    BY <1>4, <2>1, <2>2 DEF ExchangeCode, ExchangeForInternalToken
<1>5. ASSUME NEW r \in Reqs, NEW t \in Tokens, Refresh(r, t)
      PROVE  SameTellers
  <2>1. CASE UNCHANGED vars
    BY <1>1, <2>1 DEF vars, handlers, history
  <2>2. CASE Proceed(r, token[t].grant, t, "cut") \/ Proceed(r, token[t].grant, t, "issue")
    BY <1>3, <1>5, <2>2 DEF Refresh
  <2> QED
    BY <1>5, <2>1, <2>2 DEF Refresh
<1>6. ASSUME NEW r \in Reqs,
             \/ ConsumeCode(r) \/ LoadGrant(r) \/ StoreRefreshToken(r)
             \/ TouchGrant(r) \/ SpendRefreshToken(r) \/ OpenSession(r)
             \/ (FailReq(r) /\ req[r].pc # "tell")
      PROVE  SameTellers
  <2>1. \A pc \in {"issue", "store", "touch", "spend"} : [req[r] EXCEPT !.pc = pc].pc # "tell"
    BY DEF ReqRecord
  <2>2. \A t \in Tokens : [req[r] EXCEPT !.pc = "touch", !.new = t].pc # "tell"
    BY DEF ReqRecord
  <2>3. IdleReq.pc # "tell"
    BY DEF IdleReq
  <2>4. UNCHANGED <<alarms, muted>> /\ req[r].pc # "tell"
    BY <1>6 DEF ConsumeCode, LoadGrant, StoreRefreshToken, TouchGrant, SpendRefreshToken,
       OpenSession, FailReq, Refuse, Answer, history
  <2>5. \/ req' = [req EXCEPT ![r] = IdleReq]
        \/ \E pc \in {"issue", "store", "touch", "spend"} :
             req' = [req EXCEPT ![r] = [req[r] EXCEPT !.pc = pc]]
        \/ \E t \in Tokens : req' = [req EXCEPT ![r] = [req[r] EXCEPT !.pc = "touch", !.new = t]]
    BY <1>6 DEF ConsumeCode, LoadGrant, StoreRefreshToken, TouchGrant, SpendRefreshToken,
       OpenSession, FailReq, Refuse, Answer
  <2> QED
    BY <1>2, <2>1, <2>2, <2>3, <2>4, <2>5
<1>7. CASE ~\E r \in Reqs :
             \/ \E g \in Grants : ExchangeCode(r, g) \/ ExchangeForInternalToken(r, g)
             \/ \E t \in Tokens : Refresh(r, t)
             \/ ReqStep(r) \/ FailReq(r)
  <2>1. UNCHANGED <<alarms, muted, req>>
    BY <1>7 DEF Next, vars, handlers, history, FormStep, AllowWorkspace, FindLiveGrant,
       CreateGrant, CreateCode, FailForm, DeactivateUser, ReactivateUser, DeleteUser,
       RevokeByToken, ExpireCode, ExpireAccessToken, ExpireSession, ExpireRefreshToken
  <2> QED
    BY <1>1, <2>1
<1> QED
  BY <1>4, <1>5, <1>6, <1>7 DEF ReqStep

\* A revocation that nobody is to be told of: the holder's, or one that came late.
LEMMA CutByRevoke ==
  ASSUME Typed, CutInv, SameTellers, NEW g \in Grants, NEW who \in {"server", "holder"},
         RevokeGrant(g, who), who = "holder" \/ ~Live(g),
         caught' = caught \/ (caught' = caught \cup {g} /\ Born(g))
  PROVE  CutInv'
<1> USE DEF Typed, TypeOK, Live, Born
<1>t. \A h \in Grants : Telling(h)' <=> Telling(h)
  BY DEF SameTellers, Telling
<1>1. CASE ~Live(g)
  <2>1. UNCHANGED <<grant, cutBy, alarms, muted>>
    BY <1>1 DEF RevokeGrant, SameTellers
  <2>2. Born(g) => grant[g].state \in {"revoked", "gone"}
    BY <1>1 DEF GrantRow
  <2>3. AlarmIsForTheCut'
    BY <1>t, <2>1 DEF CutInv, AlarmIsForTheCut
  <2> QED
    BY <2>1, <2>2, <2>3 DEF CutInv, SameTellers
<1>2. CASE Live(g)
  <2> DEFINE row == [grant[g] EXCEPT !.state = "revoked"]
  <2>1. row.state = "revoked"
    BY DEF GrantRow
  <2>2. grant' = [grant EXCEPT ![g] = row] /\ cutBy' = [cutBy EXCEPT ![g] = "holder"]
    BY <1>2 DEF RevokeGrant
  <2>3. cutBy[g] = "nobody" /\ alarms[g] = 0 /\ UNCHANGED <<alarms, muted>>
    BY <1>2 DEF CutInv, AlarmIsForTheCut, SameTellers
  <2> HIDE DEF row
  <2>4. AlarmIsForTheCut'
    BY <1>2, <1>t, <2>1, <2>2, <2>3 DEF CutInv, AlarmIsForTheCut
  <2>5. (\A h \in caught : grant[h].state \in {"revoked", "gone"})'
    BY <1>2, <2>1, <2>2 DEF CutInv
  <2>6. (\A h \in Grants : ~Born(h) => cutBy[h] = "nobody")'
    BY <1>2, <2>1, <2>2 DEF CutInv
  <2>7. \A h \in Grants : cutBy[h] = "server" => cutBy'[h] = "server"
    BY <2>2, <2>3
  <2>8. (\A r \in Reqs : req[r].pc = "tell" =>
            cutBy[req[r].grant] = "server" /\ req[r].grant \notin muted)'
    <3>1. \A r \in Reqs : req[r].pc = "tell" => req[r].grant \in Grants
      BY DEF Placed
    <3> QED
      BY <2>3, <2>7, <3>1 DEF CutInv, SameTellers
  <2>9. (\A r, s \in Reqs : req[r].pc = "tell" /\ req[s].pc = "tell"
                             /\ req[r].grant = req[s].grant => r = s)'
    BY DEF CutInv, SameTellers
  <2>10. (\A h \in muted : cutBy[h] = "server")'
    BY <2>3, <2>7 DEF CutInv
  <2> QED
    BY <2>4, <2>5, <2>6, <2>8, <2>9, <2>10 DEF CutInv
<1> QED
  BY <1>1, <1>2

\* The revocation that cuts a live grant off leaves its request about to tell.
LEMMA CutToTell ==
  ASSUME Typed, CutInv, NEW r \in Reqs, CutGrant(r), Live(req[r].grant)
  PROVE  CutInv'
<1> USE DEF Typed, TypeOK, Live, Born
<1> PICK g \in Grants : g = req[r].grant
  BY DEF CutGrant, CutAndTellIf, Placed
<1> DEFINE row == [grant[g] EXCEPT !.state = "revoked"]
           new == [req[r] EXCEPT !.pc = "tell"]
<1>1. row.state = "revoked" /\ new.pc = "tell" /\ new.grant = g
  BY DEF GrantRow, ReqRecord
<1>2. /\ grant' = [grant EXCEPT ![g] = row] /\ cutBy' = [cutBy EXCEPT ![g] = "server"]
      /\ req' = [req EXCEPT ![r] = new] /\ caught' = caught \cup {g}
      /\ UNCHANGED <<alarms, muted>> /\ req[r].pc = "cut"
  BY DEF CutGrant, CutAndTellIf, RevokeGrant
<1>3. cutBy[g] = "nobody" /\ alarms[g] = 0 /\ g \notin muted
  BY DEF CutInv, AlarmIsForTheCut
<1>4. \A s \in Reqs : req[s].pc = "tell" => req[s].grant \in Grants \ {g}
  BY <1>3 DEF CutInv, Placed
<1> HIDE DEF row, new
<1>5. \A s \in Reqs \ {r} : req'[s] = req[s]
  BY <1>2
<1>6. req'[r].pc = "tell" /\ req'[r].grant = g
  BY <1>1, <1>2
<1>7. Telling(g)' /\ \A h \in Grants \ {g} : Telling(h)' <=> Telling(h)
  BY <1>2, <1>5, <1>6 DEF Telling
<1>8. AlarmIsForTheCut'
  <2> SUFFICES ASSUME NEW h \in Grants
               PROVE  (/\ alarms[h] = 0 \/ (alarms[h] = 1 /\ cutBy[h] = "server"
                                              /\ ~Telling(h) /\ h \notin muted)
                       /\ cutBy[h] = "server" /\ alarms[h] = 0 => Telling(h) \/ h \in muted
                       /\ cutBy[h] = "nobody" => grant[h].state # "revoked"
                       /\ Live(h) => cutBy[h] = "nobody")'
    BY DEF AlarmIsForTheCut
  <2>1. CASE h = g
    BY <1>1, <1>2, <1>3, <1>7, <2>1
  <2>2. CASE h # g
    BY <1>2, <1>7, <2>2 DEF CutInv, AlarmIsForTheCut
  <2> QED
    BY <2>1, <2>2
<1>9. (\A s \in Reqs : req[s].pc = "tell" => cutBy[req[s].grant] = "server" /\ req[s].grant \notin muted)'
  BY <1>2, <1>3, <1>4, <1>5, <1>6 DEF CutInv
<1>10. (\A s, q \in Reqs : req[s].pc = "tell" /\ req[q].pc = "tell"
                            /\ req[s].grant = req[q].grant => s = q)'
  BY <1>4, <1>5, <1>6 DEF CutInv
<1>11. (\A h \in muted : cutBy[h] = "server")'
  BY <1>2 DEF CutInv
<1>12. (\A h \in caught : grant[h].state \in {"revoked", "gone"})'
  BY <1>1, <1>2 DEF CutInv
<1>13. (\A h \in Grants : ~Born(h) => cutBy[h] = "nobody")'
  BY <1>1, <1>2 DEF CutInv
<1> QED
  BY <1>8, <1>9, <1>10, <1>11, <1>12, <1>13 DEF CutInv

\* A request about to tell tells, or dies.
LEMMA ToldOrMuted ==
  ASSUME Typed, CutInv, NEW r \in Reqs, req[r].pc = "tell",
         NoticeAccessRevoked(r) \/ FailReq(r)
  PROVE  CutInv'
<1> USE DEF Typed, TypeOK, Live, Born
<1> PICK g \in Grants : g = req[r].grant
  BY DEF Placed
<1>1. /\ req' = [req EXCEPT ![r] = IdleReq] /\ UNCHANGED <<grant, caught, cutBy>>
      /\ \/ alarms' = [alarms EXCEPT ![g] = @ + 1] /\ UNCHANGED muted
         \/ muted' = muted \cup {g} /\ UNCHANGED alarms
  BY DEF NoticeAccessRevoked, FailReq, rows
<1>3. Telling(g)
  BY DEF Telling
<1>4. cutBy[g] = "server" /\ g \notin muted /\ alarms[g] = 0
  BY <1>3 DEF CutInv, AlarmIsForTheCut
<1>5. req'[r].pc = "idle" /\ \A s \in Reqs \ {r} : req'[s] = req[s]
  BY <1>1 DEF IdleReq
<1>6. ~Telling(g)' /\ \A h \in Grants \ {g} : Telling(h)' <=> Telling(h)
  BY <1>5 DEF Telling, CutInv
<1>7. AlarmIsForTheCut'
  <2> SUFFICES ASSUME NEW h \in Grants
               PROVE  (/\ alarms[h] = 0 \/ (alarms[h] = 1 /\ cutBy[h] = "server"
                                              /\ ~Telling(h) /\ h \notin muted)
                       /\ cutBy[h] = "server" /\ alarms[h] = 0 => Telling(h) \/ h \in muted
                       /\ cutBy[h] = "nobody" => grant[h].state # "revoked"
                       /\ Live(h) => cutBy[h] = "nobody")'
    BY DEF AlarmIsForTheCut
  <2>1. CASE h = g
    <3>1. (alarms'[g] = 1 /\ g \notin muted') \/ (alarms'[g] = 0 /\ g \in muted')
      BY <1>1, <1>4
    <3>2. cutBy'[g] = "server" /\ ~Live(g)'
      BY <1>1, <1>4 DEF CutInv, AlarmIsForTheCut
    <3> QED
      BY <1>6, <2>1, <3>1, <3>2
  <2>2. CASE h # g
    <3>1. alarms'[h] = alarms[h] /\ (h \in muted' <=> h \in muted)
      BY <1>1, <2>2
    <3> QED
      BY <1>1, <1>6, <2>2, <3>1 DEF CutInv, AlarmIsForTheCut
  <2> QED
    BY <2>1, <2>2
<1>8. (\A s \in Reqs : req[s].pc = "tell" => cutBy[req[s].grant] = "server" /\ req[s].grant \notin muted)'
  BY <1>1, <1>5 DEF CutInv
<1>9. (\A s, q \in Reqs : req[s].pc = "tell" /\ req[q].pc = "tell"
                           /\ req[s].grant = req[q].grant => s = q)'
  BY <1>5 DEF CutInv
<1>10. (\A h \in muted : cutBy[h] = "server")'
  BY <1>1, <1>4 DEF CutInv
<1> QED
  BY <1>1, <1>7, <1>8, <1>9, <1>10 DEF CutInv

LEMMA CutStep == Typed /\ Rooted /\ CutInv /\ [Next]_vars => CutInv'
<1> SUFFICES ASSUME Typed, Rooted, CutInv, [Next]_vars PROVE CutInv'
  OBVIOUS
<1> USE DEF Typed, TypeOK
\* The parts of CutInv about who is told, when nobody is told or cut off.
<1>0. ASSUME SameTellers, UNCHANGED <<cutBy, caught>>,
             \A g \in Grants :
               \/ grant'[g] = grant[g]
               \/ grant'[g].state = "live" /\ ~Born(g)
               \/ grant'[g].state = "gone" /\ Born(g)
      PROVE  CutInv'
  <2>1. \A h \in Grants : Telling(h)' <=> Telling(h)
    BY <1>0 DEF SameTellers, Telling
  <2>2. AlarmIsForTheCut'
    BY <1>0, <2>1 DEF CutInv, AlarmIsForTheCut, SameTellers, Live, Born
  <2>3. (\A h \in caught : grant[h].state \in {"revoked", "gone"})'
    BY <1>0 DEF CutInv, Born
  <2> QED
    BY <1>0, <2>2, <2>3 DEF CutInv, SameTellers, Born
<1>1. CASE UNCHANGED <<grant, caught, cutBy>> /\ SameTellers
  BY <1>0, <1>1
<1>2. ASSUME NEW f \in Forms, CreateGrant(f)
      PROVE  CutInv'
  <2>1. UNCHANGED <<caught, cutBy>> /\ SameTellers
    BY <1>2 DEF CreateGrant, history, SameTellers
  <2>2. ASSUME NEW g \in Grants, grant[g].state = "free",
               grant' = [grant EXCEPT ![g] =
                           [state |-> "live", user |-> form[f].user,
                            client |-> form[f].client, offline |-> form[f].offline]]
        PROVE  CutInv'
    <3>1. grant'[g].state = "live" /\ ~Born(g) /\ \A h \in Grants \ {g} : grant'[h] = grant[h]
      BY <2>2 DEF Born
    <3> QED
      BY <1>0, <2>1, <3>1
  <2> QED
    BY <1>0, <1>2, <2>1, <2>2 DEF CreateGrant
<1>3. ASSUME NEW r \in Reqs, CutGrant(r)
      PROVE  CutInv'
  <2>1. req[r].grant \in Grants /\ Born(req[r].grant)
    BY <1>3 DEF CutGrant, CutAndTellIf, Placed, Rooted
  <2>2. ASSUME ~Live(req[r].grant)
        PROVE  SameTellers
    BY <1>3, <2>2 DEF CutGrant, CutAndTellIf, SameTellers, IdleReq
  <2> QED
    BY <1>3, <2>1, <2>2, CutByRevoke, CutToTell DEF CutGrant, CutAndTellIf
<1>4. ASSUME NEW g \in Grants, RevokeByToken(g)
      PROVE  CutInv'
  <2>1. SameTellers
    BY <1>4 DEF RevokeByToken, SameTellers, handlers
  <2> QED
    BY <1>4, <2>1, CutByRevoke DEF RevokeByToken
<1>5. ASSUME NEW u \in Users, DeleteUser(u)
      PROVE  CutInv'
  <2>1. \A g \in Grants : \/ grant'[g] = grant[g]
                          \/ Born(g) /\ grant'[g] = [grant[g] EXCEPT !.state = "gone"]
    BY <1>5, NoneIsNoId DEF DeleteUser, Rooted, NoGrant
  <2>2. \A g \in Grants : grant'[g] = grant[g] \/ (Born(g) /\ grant'[g].state = "gone")
    BY <2>1 DEF GrantRow
  <2>3. UNCHANGED <<caught, cutBy>> /\ SameTellers
    BY <1>5 DEF DeleteUser, history, handlers, SameTellers
  <2> QED
    BY <1>0, <2>2, <2>3
<1>6. ASSUME NEW r \in Reqs, NoticeAccessRevoked(r) \/ (FailReq(r) /\ req[r].pc = "tell")
      PROVE  CutInv'
  BY <1>6, ToldOrMuted DEF NoticeAccessRevoked
<1>7. CASE GrantStep
  BY <1>2, <1>3, <1>4, <1>5, <1>7 DEF GrantStep
<1>8. CASE ~GrantStep
  <2>1. UNCHANGED <<grant, caught, cutBy>>
    BY <1>8, OtherSteps DEF vars, rows, history
  <2> QED
    BY <1>1, <1>6, <1>8, <2>1, TellerMoves DEF GrantStep
<1> QED
  BY <1>7, <1>8

Inv == Typed /\ Rooted /\ CutInv

LEMMA InvInductive == Spec => []Inv
<1>1. Init => Inv
  BY TypedInit, RootedInit, CutInit DEF Inv
<1>2. Inv /\ [Next]_vars => Inv'
  BY TypedStep, RootedStep, CutStep DEF Inv
<1> QED
  BY <1>1, <1>2, PTL DEF Spec

\* A caller told that its code or refresh token was already used left no live
\* grant behind, however the revocation raced other requests.
THEOREM CaughtAreCutOff == Spec => []CaughtIsCutOff
<1>1. Inv => CaughtIsCutOff
  BY DEF Inv, CutInv, CaughtIsCutOff, Live
<1> QED
  BY <1>1, InvInductive, PTL

\* The person is told at most once, of a cut-off the server made and of no other;
\* and of each of those, unless the request that made it died before the notice.
THEOREM AlarmsAreForTheCut == Spec => []AlarmIsForTheCut
<1>1. Inv => AlarmIsForTheCut
  BY DEF Inv, CutInv
<1> QED
  BY <1>1, InvInductive, PTL

-----------------------------------------------------------------------------
(* OAuthGrants implements StandingConsent *)

\* Which steps write an account, and which open or end a session.
LEMMA UserMoves ==
  ASSUME [Next]_vars
  PROVE  \/ UNCHANGED user
         \/ \E u \in Users : DeactivateUser(u) \/ ReactivateUser(u) \/ DeleteUser(u)
  BY DEF Next, vars, rows, FormStep, ReqStep, AllowWorkspace, FindLiveGrant,
     CreateGrant, CreateCode, FailForm, ExchangeCode, Refresh, Proceed, ConsumeCode, LoadGrant,
     StoreRefreshToken, TouchGrant, SpendRefreshToken, CutGrant, CutAndTellIf,
     NoticeAccessRevoked, OpenSession, FailReq, Refuse, Answer,
     RevokeByToken, ExchangeForInternalToken, ExpireCode,
     ExpireAccessToken, ExpireSession, ExpireRefreshToken

LEMMA SessionMoves ==
  ASSUME [Next]_vars
  PROVE  \/ UNCHANGED session
         \/ \E r \in Reqs : OpenSession(r)
         \/ \E g \in Grants : ExpireSession(g)
  BY DEF Next, vars, wallets, FormStep, ReqStep, AllowWorkspace, FindLiveGrant,
     CreateGrant, CreateCode, FailForm, ExchangeCode, Refresh, Proceed, ConsumeCode, LoadGrant,
     StoreRefreshToken, TouchGrant, SpendRefreshToken, CutGrant, CutAndTellIf,
     NoticeAccessRevoked, FailReq, Refuse, Answer, ExchangeForInternalToken,
     DeactivateUser, ReactivateUser, DeleteUser, RevokeByToken, ExpireCode,
     ExpireAccessToken, ExpireRefreshToken

\* No request comes to wait for the user of its grant, and none stops waiting.
SameAskers ==
  \A r \in Reqs : req[r].pc = "account" \/ req'[r].pc = "account" => req'[r] = req[r]

LEMMA AskerMoves ==
  ASSUME Typed, [Next]_vars
  PROVE  \/ SameAskers
         \/ \E r \in Reqs :
              \/ \E g \in Grants : ExchangeForInternalToken(r, g)
              \/ OpenSession(r)
              \/ FailReq(r) /\ req[r].pc = "account"
<1> USE DEF Typed, TypeOK
<1>1. ASSUME UNCHANGED req
      PROVE  SameAskers
  BY <1>1 DEF SameAskers
<1>2. ASSUME NEW r \in Reqs, req[r].pc # "account",
             \E x : req' = [req EXCEPT ![r] = x] /\ x.pc # "account"
      PROVE  SameAskers
  BY <1>2 DEF SameAskers
<1>3. ASSUME NEW r \in Reqs, NEW g, NEW t, NEW pc \in {"cut", "consume", "issue"},
             Proceed(r, g, t, pc), req[r].pc = "idle"
      PROVE  SameAskers
  <2>1. [IdleReq EXCEPT !.pc = pc, !.grant = g, !.old = t].pc # "account"
    BY DEF IdleReq
  <2> QED
    BY <1>2, <1>3, <2>1 DEF Proceed
<1>4. ASSUME NEW r \in Reqs, NEW g \in Grants, ExchangeCode(r, g)
      PROVE  SameAskers
  <2>1. CASE UNCHANGED vars
    BY <1>1, <2>1 DEF vars, handlers
  <2>2. CASE Proceed(r, g, None, "cut") \/ Proceed(r, g, None, "consume")
    BY <1>3, <1>4, <2>2 DEF ExchangeCode
  <2> QED
    BY <1>4, <2>1, <2>2 DEF ExchangeCode
<1>5. ASSUME NEW r \in Reqs, NEW t \in Tokens, Refresh(r, t)
      PROVE  SameAskers
  <2>1. CASE UNCHANGED vars
    BY <1>1, <2>1 DEF vars, handlers
  <2>2. CASE Proceed(r, token[t].grant, t, "cut") \/ Proceed(r, token[t].grant, t, "issue")
    BY <1>3, <1>5, <2>2 DEF Refresh
  <2> QED
    BY <1>5, <2>1, <2>2 DEF Refresh
<1>6. ASSUME NEW r \in Reqs,
             \/ ConsumeCode(r) \/ LoadGrant(r) \/ StoreRefreshToken(r)
             \/ TouchGrant(r) \/ SpendRefreshToken(r) \/ CutGrant(r) \/ NoticeAccessRevoked(r)
             \/ (FailReq(r) /\ req[r].pc # "account")
      PROVE  SameAskers
  <2>1. \A pc \in {"issue", "store", "touch", "spend", "tell"} :
          [req[r] EXCEPT !.pc = pc].pc # "account"
    BY DEF ReqRecord
  <2>2. \A t \in Tokens : [req[r] EXCEPT !.pc = "touch", !.new = t].pc # "account"
    BY DEF ReqRecord
  <2>3. IdleReq.pc # "account"
    BY DEF IdleReq
  <2>4. req[r].pc # "account"
    BY <1>6 DEF ConsumeCode, LoadGrant, StoreRefreshToken, TouchGrant, SpendRefreshToken,
       CutGrant, CutAndTellIf, NoticeAccessRevoked
  <2>5. \/ req' = [req EXCEPT ![r] = IdleReq]
        \/ \E pc \in {"issue", "store", "touch", "spend", "tell"} :
             req' = [req EXCEPT ![r] = [req[r] EXCEPT !.pc = pc]]
        \/ \E t \in Tokens : req' = [req EXCEPT ![r] = [req[r] EXCEPT !.pc = "touch", !.new = t]]
    BY <1>6 DEF ConsumeCode, LoadGrant, StoreRefreshToken, TouchGrant, SpendRefreshToken,
       CutGrant, CutAndTellIf, NoticeAccessRevoked, FailReq, Refuse, Answer
  <2> QED
    BY <1>2, <2>1, <2>2, <2>3, <2>4, <2>5
<1> QED
  BY <1>1, <1>4, <1>5, <1>6, ReqMoves DEF ReqStep

\* A grant goes only with its user, and a deleted user does not come back.
Cascaded ==
  \A g \in Grants : grant[g].state = "gone" => user[grant[g].user] = "deleted"

LEMMA CascadedStep == Inv /\ Cascaded /\ [Next]_vars => Cascaded'
<1> SUFFICES ASSUME Inv, Cascaded, [Next]_vars, NEW g \in Grants, grant'[g].state = "gone"
             PROVE  user'[grant'[g].user] = "deleted"
  BY DEF Cascaded
<1> USE DEF Inv, Typed, TypeOK
<1>1. \A u \in Users : user[u] = "deleted" => user'[u] = "deleted"
  BY UserMoves DEF DeactivateUser, ReactivateUser, DeleteUser
<1>2. CASE grant'[g] = grant[g]
  <2>1. grant[g].user \in Users
    BY <1>2 DEF Rooted, Born
  <2> QED
    BY <1>1, <1>2, <2>1 DEF Cascaded
<1>3. ASSUME NEW h \in Grants, NEW who, RevokeGrant(h, who), grant'[g] # grant[g]
      PROVE  FALSE
  <2>1. [grant[g] EXCEPT !.state = "revoked"].state = "revoked"
    BY DEF GrantRow
  <2> QED
    BY <1>3, <2>1 DEF RevokeGrant
<1>4. ASSUME NEW u \in Users, DeleteUser(u), grant'[g] # grant[g]
      PROVE  user'[grant'[g].user] = "deleted"
  <2>1. grant[g].user = u /\ grant'[g] = [grant[g] EXCEPT !.state = "gone"] /\ user'[u] = "deleted"
    BY <1>4 DEF DeleteUser
  <2>2. grant'[g].user = u
    BY <2>1 DEF GrantRow
  <2> QED
    BY <2>1, <2>2
<1>5. ASSUME NEW f \in Forms, CreateGrant(f), grant'[g] # grant[g]
      PROVE  FALSE
  <2> PICK h \in Grants : grant' = [grant EXCEPT ![h] =
                               [state |-> "live", user |-> form[f].user,
                                client |-> form[f].client, offline |-> form[f].offline]]
    BY <1>5 DEF CreateGrant
  <2>1. h = g
    BY <1>5
  <2> QED
    BY <2>1
<1>6. ASSUME NEW r \in Reqs, CutGrant(r), grant'[g] # grant[g]
      PROVE  FALSE
  BY <1>3, <1>6 DEF CutGrant, CutAndTellIf, Placed
<1>7. ASSUME NEW h \in Grants, RevokeByToken(h), grant'[g] # grant[g]
      PROVE  FALSE
  BY <1>3, <1>7 DEF RevokeByToken
<1> QED
  BY <1>2, <1>4, <1>5, <1>6, <1>7, OtherSteps DEF GrantStep, vars, rows

LEMMA ConsentInit == Init => Consent!Init
  BY NoneIsNoId DEF Init, Consent!Init, ConsentState, Exists, NoGrant, IdleReq

\* What the mapping makes of the accounts and of the requests.
Active == {g \in Grants : Exists(g) /\ user[grant[g].user] = "active"}
Asked == {g \in Grants : \E r \in Reqs : req[r].pc = "account" /\ req[r].grant = g}
Consents == [g \in Grants |-> ConsentState(g)]

\* A revocation revokes one consent, or changes nothing.
LEMMA RevokeRevokes ==
  ASSUME Typed, NEW g \in Grants, NEW who, RevokeGrant(g, who), UNCHANGED <<user, session>>,
         Asked' = Asked
  PROVE  Consent!Revoke(g) \/ UNCHANGED Consent!vars
<1> USE DEF Typed, TypeOK
<1>1. CASE ~Live(g)
  <2>1. UNCHANGED grant
    BY <1>1 DEF RevokeGrant
  <2> QED
    BY <2>1 DEF ConsentState, Consent!vars, Exists, Asked
<1>2. CASE Live(g)
  <2> DEFINE row == [grant[g] EXCEPT !.state = "revoked"]
  <2>1. row.state = "revoked" /\ row.user = grant[g].user
    BY DEF GrantRow
  <2>2. grant' = [grant EXCEPT ![g] = row]
    BY <1>2 DEF RevokeGrant
  <2> HIDE DEF row
  <2>3. ConsentState(g) = "given" /\ ConsentState(g)' = "revoked"
    BY <1>2, <2>1, <2>2 DEF ConsentState, Live
  <2>4. \A h \in Grants \ {g} : ConsentState(h)' = ConsentState(h)
    BY <2>2 DEF ConsentState
  <2>5. Consents' = [Consents EXCEPT ![g] = "revoked"]
    BY <2>3, <2>4 DEF Consents
  <2>6. Active' = Active
    BY <1>2, <2>1, <2>2 DEF Active, Exists, Live
  <2> QED
    BY <2>3, <2>5, <2>6 DEF Consent!Revoke, Active, Asked, Consents
<1> QED
  BY <1>1, <1>2

\* The steps of the requests that wait for the user of their grant.
LEMMA AskStep ==
  ASSUME Inv, Cascaded, NEW r \in Reqs,
         \/ \E g \in Grants : ExchangeForInternalToken(r, g)
         \/ OpenSession(r)
         \/ FailReq(r) /\ req[r].pc = "account"
  PROVE  [Consent!Next]_(Consent!vars)
<1> USE DEF Inv, Typed, TypeOK
<1>1. UNCHANGED <<grant, user>>
  BY DEF ExchangeForInternalToken, Proceed, OpenSession, FailReq, rows
<1>2. Consents' = Consents /\ Active' = Active
  BY <1>1 DEF Consents, ConsentState, Active, Exists
<1>3. ASSUME NEW g \in Grants, ExchangeForInternalToken(r, g)
      PROVE  Consent!Next
  <2>1. req'[r].pc = "account" /\ req'[r].grant = g /\ req[r].pc = "idle"
        /\ (\A s \in Reqs \ {r} : req'[s] = req[s])
    BY <1>3 DEF ExchangeForInternalToken, Proceed, IdleReq
  <2>2. Asked' = Asked \cup {g}
    BY <2>1 DEF Asked
  <2>3. UNCHANGED session /\ Consents[g] = "given"
    BY <1>3 DEF ExchangeForInternalToken, Proceed, wallets, Consents, ConsentState, Live
  <2>4. Consent!Ask(g)
    BY <1>2, <2>2, <2>3 DEF Consent!Ask, Consents, Active, Asked
  <2> QED
    BY <2>4 DEF Consent!Next
<1>4. ASSUME req[r].pc = "account", req' = [req EXCEPT ![r] = IdleReq]
      PROVE  /\ req[r].grant \in Asked
             /\ Asked' = Asked \/ Asked' = Asked \ {req[r].grant}
  <2>1. req'[r].pc # "account" /\ \A s \in Reqs \ {r} : req'[s] = req[s]
    BY <1>4 DEF IdleReq
  <2>2. req[r].grant \in Grants
    BY <1>4 DEF Placed
  <2> QED
    BY <1>4, <2>1, <2>2 DEF Asked
<1>5. ASSUME req[r].pc = "account", req' = [req EXCEPT ![r] = IdleReq], UNCHANGED session
      PROVE  [Consent!Next]_(Consent!vars)
  <2> PICK g \in Grants : g = req[r].grant
    BY <1>5 DEF Placed
  <2>1. CASE Asked' = Asked
    BY <1>2, <1>5, <2>1 DEF Consent!vars, Consents, Active, Asked
  <2>2. CASE Asked' = Asked \ {g}
    <3>1. Consent!Drop(g)
      BY <1>2, <1>5, <2>2 DEF Consent!Drop, Consents, Active, Asked
    <3> QED
      BY <3>1 DEF Consent!Next
  <2> QED
    BY <1>4, <1>5, <2>1, <2>2
<1>6. ASSUME OpenSession(r), user[grant[req[r].grant].user] = "active"
      PROVE  Consent!Next
  <2> PICK g \in Grants : g = req[r].grant
    BY <1>6 DEF OpenSession, Placed
  <2>1. Born(g) /\ grant[g].state # "gone"
    BY <1>6 DEF OpenSession, Rooted, Cascaded
  <2>2. g \in Active
    BY <1>6, <2>1 DEF Active, Exists, Born, GrantRow
  <2>3. session' = session \cup {g} /\ g \in Asked /\ Asked' \in {Asked, Asked \ {g}}
    BY <1>4, <1>6 DEF OpenSession
  <2>4. Consent!OpenSession(g)
    BY <1>2, <2>2, <2>3 DEF Consent!OpenSession, Consents, Active, Asked
  <2> QED
    BY <2>4 DEF Consent!Next
<1>7. CASE OpenSession(r)
  BY <1>5, <1>6, <1>7 DEF OpenSession
<1>8. CASE FailReq(r) /\ req[r].pc = "account"
  BY <1>5, <1>8 DEF FailReq, wallets
<1> QED
  BY <1>3, <1>7, <1>8

LEMMA ConsentStep ==
  ASSUME Inv, Cascaded, [Next]_vars
  PROVE  [Consent!Next]_(Consent!vars)
<1> USE DEF Inv, Typed, TypeOK
<1>1. CASE ~SameAskers
  BY <1>1, AskStep, AskerMoves
<1> SUFFICES ASSUME SameAskers PROVE [Consent!Next]_(Consent!vars)
  BY <1>1
<1>a. Asked' = Asked
  BY DEF Asked, SameAskers
<1>2. CASE UNCHANGED <<grant, user, session>>
  BY <1>2, <1>a DEF Consent!vars, ConsentState, Exists, Asked
<1>3. ASSUME NEW f \in Forms, CreateGrant(f), grant' # grant
      PROVE  Consent!Next
  <2> DEFINE row == [state |-> "live", user |-> form[f].user,
                     client |-> form[f].client, offline |-> form[f].offline]
  <2> PICK g \in Grants : grant[g].state = "free" /\ grant' = [grant EXCEPT ![g] = row]
    BY <1>3 DEF CreateGrant
  <2>1. row.state = "live"
    OBVIOUS
  <2>2. UNCHANGED <<user, session>>
    BY <1>3 DEF CreateGrant, wallets
  <2> HIDE DEF row
  <2>3. ConsentState(g) = "none" /\ ConsentState(g)' = "given"
    BY <2>1 DEF ConsentState
  <2>4. \A h \in Grants \ {g} : ConsentState(h)' = ConsentState(h)
    BY DEF ConsentState
  <2>5. Consents[g] = "none" /\ Consents' = [Consents EXCEPT ![g] = "given"]
    BY <2>3, <2>4 DEF Consents
  <2>6. Active' \in {Active, Active \cup {g}}
    BY <2>2 DEF Active, Exists
  <2>7. Consent!Give(g)
    BY <1>a, <2>2, <2>5, <2>6 DEF Consent!Give, Consents, Active, Asked
  <2> QED
    BY <2>7 DEF Consent!Next
<1>4. ASSUME NEW r \in Reqs, CutGrant(r)
      PROVE  [Consent!Next]_(Consent!vars)
  <2>1. RevokeGrant(req[r].grant, "server") /\ req[r].grant \in Grants
    BY <1>4 DEF CutGrant, CutAndTellIf, Placed
  <2>2. UNCHANGED <<user, session>>
    BY <1>4 DEF CutGrant, CutAndTellIf, wallets
  <2>3. Consent!Revoke(req[r].grant) \/ UNCHANGED Consent!vars
    BY <1>a, <2>1, <2>2, RevokeRevokes
  <2> QED
    BY <2>1, <2>3 DEF Consent!Next
<1>5. ASSUME NEW g \in Grants, RevokeByToken(g)
      PROVE  [Consent!Next]_(Consent!vars)
  <2>1. Consent!Revoke(g) \/ UNCHANGED Consent!vars
    BY <1>5, <1>a, RevokeRevokes DEF RevokeByToken, wallets
  <2> QED
    BY <2>1 DEF Consent!Next
<1>6. ASSUME NEW u \in Users, DeleteUser(u)
      PROVE  Consent!Next
  <2> PICK S \in SUBSET Grants : S = {g \in Grants : grant[g].user = u}
    OBVIOUS
  <2>1. \A g \in S : /\ Consents[g] # "none" /\ ConsentState(g)' = "gone"
                     /\ grant'[g].state = "gone"
    <3> TAKE g \in S
    <3>1. grant'[g] = [grant[g] EXCEPT !.state = "gone"] /\ grant[g].user # None
      BY <1>6, NoneIsNoId DEF DeleteUser
    <3>2. grant'[g].state = "gone" /\ grant[g].state # "free"
      BY <3>1 DEF GrantRow, Rooted, NoGrant, Born
    <3>3. ConsentState(g) # "none"
      BY <3>2 DEF ConsentState, GrantRow
    <3> QED
      BY <3>2, <3>3 DEF ConsentState, Consents
  <2>2. \A g \in Grants \ S : grant'[g] = grant[g]
    BY <1>6 DEF DeleteUser
  <2>3. \A g \in Grants \ S : ConsentState(g)' = ConsentState(g)
    BY <2>2 DEF ConsentState
  <2>4. Consents' = [g \in Grants |-> IF g \in S THEN "gone" ELSE Consents[g]]
    BY <2>1, <2>3 DEF Consents
  <2>5. Active' = Active \ S
    <3>1. \A g \in Grants \ S : Exists(g) => grant[g].user \in Users \ {u}
      BY DEF Exists, Rooted, Born
    <3>2. \A v \in Users \ {u} : user'[v] = user[v]
      BY <1>6 DEF DeleteUser
    <3>3. \A g \in Grants \ S : g \in Active' <=> g \in Active
      BY <2>2, <3>1, <3>2 DEF Active, Exists
    <3>4. \A g \in S : g \notin Active'
      BY <2>1 DEF Active, Exists
    <3> QED
      BY <3>3, <3>4 DEF Active
  <2>6. UNCHANGED session
    BY <1>6 DEF DeleteUser, wallets
  <2>7. Consent!Delete(S)
    BY <1>a, <2>1, <2>4, <2>5, <2>6 DEF Consent!Delete, Consents, Active, Asked
  <2> QED
    BY <2>7 DEF Consent!Next
<1>7. ASSUME NEW u \in Users, DeactivateUser(u) \/ ReactivateUser(u)
      PROVE  Consent!Next
  <2> PICK S \in SUBSET Grants : S = {g \in Grants : Exists(g) /\ grant[g].user = u}
    OBVIOUS
  <2>1. UNCHANGED <<grant, session>>
    BY <1>7 DEF DeactivateUser, ReactivateUser, wallets
  <2>2. Consents' = Consents
    BY <2>1 DEF Consents, ConsentState
  <2>3. \A v \in Users \ {u} : user'[v] = user[v]
    BY <1>7 DEF DeactivateUser, ReactivateUser
  <2>4. \A g \in Grants \ S : g \in Active' <=> g \in Active
    BY <2>1, <2>3 DEF Active, Exists, Rooted, Born
  <2>5. CASE DeactivateUser(u)
    <3>1. \A g \in S : g \notin Active'
      BY <2>1, <2>5 DEF DeactivateUser, Active
    <3>2. Active' = Active \ S
      BY <2>4, <3>1 DEF Active
    <3>3. Consent!Pause(S)
      BY <1>a, <2>1, <2>2, <3>2 DEF Consent!Pause, Consents, Active, Asked
    <3> QED
      BY <3>3 DEF Consent!Next
  <2>6. CASE ReactivateUser(u)
    <3>1. \A g \in S : g \in Active'
      BY <2>1, <2>6 DEF ReactivateUser, Active, Exists
    <3>2. Active' = Active \cup S
      BY <2>4, <3>1 DEF Active
    <3>3. \A g \in S : Consents[g] \in {"given", "revoked"}
      BY DEF Consents, ConsentState, Exists
    <3>4. Consent!Resume(S)
      BY <1>a, <2>1, <2>2, <3>2, <3>3 DEF Consent!Resume, Consents, Active, Asked
    <3> QED
      BY <3>4 DEF Consent!Next
  <2> QED
    BY <1>7, <2>5, <2>6
<1>8. ASSUME NEW g \in Grants, ExpireSession(g)
      PROVE  Consent!Next
  <2>1. UNCHANGED <<grant, user>> /\ session' = session \ {g}
    BY <1>8 DEF ExpireSession, rows
  <2>2. Consents' = Consents /\ Active' = Active
    BY <2>1 DEF Consents, ConsentState, Active, Exists
  <2>3. Consent!Lapse(g)
    BY <1>a, <2>1, <2>2 DEF Consent!Lapse, Consents, Active, Asked
  <2> QED
    BY <2>3 DEF Consent!Next
<1>9. ASSUME NEW r \in Reqs, OpenSession(r)
      PROVE  [Consent!Next]_(Consent!vars)
  BY <1>9, AskStep
<1>10. CASE ~GrantStep /\ UNCHANGED <<user, session>>
  BY <1>2, <1>10, OtherSteps DEF vars, rows
<1>11. CASE \E f \in Forms : CreateGrant(f)
  BY <1>2, <1>3, <1>11 DEF CreateGrant, wallets
<1> QED
  BY <1>4, <1>5, <1>6, <1>7, <1>8, <1>9, <1>10, <1>11, UserMoves, SessionMoves DEF GrantStep

\* Grants, their owners and the internal sessions, whatever the interleaving,
\* do what StandingConsent promises: after a revocation or a deletion no program
\* may ask for a session again, and one that asked before gets it only while the
\* account is active.
THEOREM ConsentImplemented == Spec => ImplementsConsent
<1>1. Init => Consent!Init /\ Cascaded
  BY ConsentInit DEF Init, Cascaded, NoGrant
<1>2. Inv /\ Cascaded /\ [Next]_vars => [Consent!Next]_(Consent!vars)
  BY ConsentStep
<1>3. Inv /\ Cascaded /\ [Next]_vars => Cascaded'
  BY CascadedStep
<1> QED
  BY <1>1, <1>2, <1>3, InvInductive, PTL DEF Spec, ImplementsConsent, Consent!Spec

-----------------------------------------------------------------------------
(* Whoever is let in is announced *)

FormPair(f) == <<form[f].user, form[f].client>>

Promised(pair) == pair \in announced \cup lapsed \/ WillAnnounce(pair)

\* Every grant ever written has its notice sent, about to be sent, or lost; and
\* a form that found the client already let in found one whose notice is.
Told ==
  /\ \A g \in Grants : Born(g) => Promised(Pair(g))
  /\ \A f \in Forms : form[f].pc \in {"grant", "code"} /\ form[f].known => Promised(FormPair(f))

\* A form moves by its own steps only, and keeps its person and client till it ends.
LEMMA FormOwn ==
  ASSUME Typed, [Next]_vars, NEW f \in Forms, form'[f] # form[f]
  PROVE  \/ form'[f].pc = "find"
         \/ FindLiveGrant(f) \/ CreateGrant(f) \/ CreateCode(f) \/ FailForm(f)
<1> USE DEF Typed, TypeOK
<1>1. PICK h \in Forms :
        \/ \E u \in Users, c \in Clients, o \in Offline : AllowWorkspace(h, u, c, o)
        \/ FormStep(h) \/ FailForm(h)
  BY FormMoves
<1>2. h = f
  BY <1>1 DEF AllowWorkspace, FormStep, FindLiveGrant, CreateGrant, CreateCode, FailForm
<1>3. ASSUME NEW u \in Users, NEW c \in Clients, NEW o \in Offline, AllowWorkspace(f, u, c, o)
      PROVE  form'[f].pc = "find"
  BY <1>3 DEF AllowWorkspace, IdleForm
<1> QED
  BY <1>1, <1>2, <1>3 DEF FormStep

LEMMA FormKeeps ==
  ASSUME Typed, [Next]_vars, NEW f \in Forms, form'[f].pc \in {"grant", "code"},
         form'[f] # form[f]
  PROVE  /\ \/ FindLiveGrant(f) /\ form[f].pc = "find" /\ form'[f].pc = "grant"
            \/ /\ CreateGrant(f) /\ form[f].pc = "grant" /\ form'[f].pc = "code"
               /\ form'[f].known = form[f].known
         /\ form'[f].user = form[f].user /\ form'[f].client = form[f].client
         /\ form'[f].offline = form[f].offline
<1> USE DEF Typed, TypeOK
<1>f. form[f] \in FormRecord
  OBVIOUS
<1>1. CASE FindLiveGrant(f)
  <2>1. PICK k : form'[f] = [form[f] EXCEPT !.pc = "grant", !.known = k]
    BY <1>1 DEF FindLiveGrant
  <2>2. form[f].pc = "find"
    BY <1>1 DEF FindLiveGrant
  <2> QED
    BY <1>1, <1>f, <2>1, <2>2 DEF FormRecord
<1>2. CASE CreateGrant(f)
  <2>1. \/ form'[f] = IdleForm
        \/ \E g \in Grants : form'[f] = [form[f] EXCEPT !.pc = "code", !.grant = g]
    BY <1>2 DEF CreateGrant
  <2>2. form'[f] # IdleForm
    BY DEF IdleForm
  <2>3. form[f].pc = "grant"
    BY <1>2 DEF CreateGrant
  <2> QED
    BY <1>2, <1>f, <2>1, <2>2, <2>3 DEF FormRecord
<1>3. CASE CreateCode(f) \/ FailForm(f)
  BY <1>3 DEF CreateCode, FailForm, IdleForm
<1> QED
  BY <1>1, <1>2, <1>3, FormOwn

\* Only a form brings a grant into the world.
LEMMA BornOfForm ==
  ASSUME Typed, Rooted, [Next]_vars, NEW g \in Grants, ~Born(g), Born(g)'
  PROVE  \E f \in Forms :
           /\ CreateGrant(f) /\ form[f].pc = "grant"
           /\ grant'[g] = [state |-> "live", user |-> form[f].user,
                           client |-> form[f].client, offline |-> form[f].offline]
           /\ form' = [form EXCEPT ![f] = [@ EXCEPT !.pc = "code", !.grant = g]]
<1>1. grant'[g] # grant[g] /\ grant[g].state = "free"
  BY DEF Born
<1>2. ASSUME NEW h \in Grants, NEW who, RevokeGrant(h, who)
      PROVE  FALSE
  BY <1>1, <1>2 DEF RevokeGrant, Live, Typed, TypeOK
<1>3. ASSUME NEW r \in Reqs, CutGrant(r)
      PROVE  FALSE
  BY <1>2, <1>3 DEF CutGrant, CutAndTellIf, Typed, Placed
<1>4. ASSUME NEW u \in Users, DeleteUser(u)
      PROVE  FALSE
  BY <1>1, <1>4, NoneIsNoId DEF DeleteUser, Rooted, NoGrant, Born
<1>5. PICK f \in Forms : CreateGrant(f)
  BY <1>1, <1>2, <1>3, <1>4, OtherSteps DEF GrantStep, RevokeByToken, vars, rows
<1> QED
  BY <1>1, <1>5 DEF CreateGrant, Typed, TypeOK

\* Notices, sent or lost, stay so.
LEMMA NoticeMoves ==
  ASSUME [Next]_vars
  PROVE  \/ UNCHANGED <<announced, lapsed>>
         \/ \E f \in Forms : CreateCode(f) \/ FailForm(f)
  BY DEF Next, vars, history, FormStep, ReqStep, AllowWorkspace, FindLiveGrant,
     CreateGrant, ExchangeCode, Refresh, Proceed, ConsumeCode, LoadGrant,
     StoreRefreshToken, TouchGrant, SpendRefreshToken, CutGrant, CutAndTellIf,
     NoticeAccessRevoked, OpenSession, FailReq, Refuse, Answer,
     DeactivateUser, ReactivateUser, DeleteUser, RevokeByToken, ExchangeForInternalToken,
     ExpireCode, ExpireAccessToken, ExpireSession, ExpireRefreshToken

LEMMA NoticesStay ==
  ASSUME [Next]_vars
  PROVE  announced \subseteq announced' /\ lapsed \subseteq lapsed'
<1>1. ASSUME NEW f \in Forms, CreateCode(f) \/ FailForm(f)
      PROVE  announced \subseteq announced' /\ lapsed \subseteq lapsed'
  BY <1>1 DEF CreateCode, FailForm
<1> QED
  BY <1>1, NoticeMoves

\* A promise is kept: the form that made it sends the notice, or loses it.
LEMMA PromiseStays ==
  ASSUME Typed, [Next]_vars, NEW pair, Promised(pair)
  PROVE  Promised(pair)'
<1>1. CASE pair \in announced \cup lapsed
  BY <1>1, NoticesStay DEF Promised
<1>2. ASSUME NEW f \in Forms, form[f].pc = "code", ~form[f].known, FormPair(f) = pair
      PROVE  Promised(pair)'
  <2>1. CASE form'[f] = form[f]
    BY <1>2, <2>1 DEF Promised, WillAnnounce, FormPair
  <2>2. CASE CreateCode(f)
    BY <1>2, <2>2 DEF CreateCode, Promised, FormPair
  <2>3. CASE FailForm(f)
    BY <1>2, <2>3 DEF FailForm, Promised, FormPair
  <2>4. CASE form'[f].pc = "find"
    <3>1. form'[f] # form[f]
      BY <1>2, <2>4
    <3>2. ASSUME NEW h \in Forms, NEW u \in Users, NEW c \in Clients, NEW o \in Offline,
                 AllowWorkspace(h, u, c, o)
          PROVE  form'[f] = form[f]
      BY <1>2, <3>2 DEF AllowWorkspace, Typed, TypeOK
    <3>3. ASSUME NEW h \in Forms, FindLiveGrant(h) \/ CreateGrant(h)
          PROVE  form'[f] = form[f]
      BY <1>2, <3>3 DEF FindLiveGrant, CreateGrant, Typed, TypeOK
    <3>4. ASSUME NEW h \in Forms, CreateCode(h) \/ FailForm(h)
          PROVE  form'[f] = form[f] \/ form'[f] = IdleForm
      BY <3>4 DEF CreateCode, FailForm, Typed, TypeOK
    <3> QED
      BY <2>4, <3>1, <3>2, <3>3, <3>4, FormMoves DEF FormStep, IdleForm
  <2> QED
    BY <1>2, <2>1, <2>2, <2>3, <2>4, FormOwn DEF FindLiveGrant, CreateGrant
<1> QED
  BY <1>1, <1>2 DEF Promised, WillAnnounce, FormPair

LEMMA ToldStep == Typed /\ Rooted /\ Told /\ [Next]_vars => Told'
<1> SUFFICES ASSUME Typed, Rooted, Told, [Next]_vars PROVE Told'
  OBVIOUS
<1>1. ASSUME NEW g \in Grants, Born(g)'
      PROVE  Promised(Pair(g))'
  <2>1. CASE Born(g)
    <3>1. Pair(g)' = Pair(g)
      BY <2>1, GrantsStay DEF Pair
    <3> PICK pair : pair = Pair(g)
      OBVIOUS
    <3>2. Promised(pair)'
      BY <2>1, PromiseStays DEF Told
    <3> QED
      BY <3>1, <3>2 DEF Promised, WillAnnounce
  <2>2. CASE ~Born(g)
    <3>1. PICK f \in Forms :
                 /\ CreateGrant(f) /\ form[f].pc = "grant"
                 /\ grant'[g] = [state |-> "live", user |-> form[f].user,
                                 client |-> form[f].client, offline |-> form[f].offline]
                 /\ form' = [form EXCEPT ![f] = [@ EXCEPT !.pc = "code", !.grant = g]]
      BY <1>1, <2>2, BornOfForm
    <3>2. Pair(g)' = FormPair(f)
      BY <3>1 DEF Pair, FormPair, Typed, TypeOK
    <3>3. form'[f].pc = "code" /\ FormPair(f)' = FormPair(f) /\ form'[f].known = form[f].known
      <4>1. form'[f] = [form[f] EXCEPT !.pc = "code", !.grant = g]
        BY <3>1 DEF Typed, TypeOK
      <4> QED
        BY <4>1 DEF Typed, TypeOK, FormRecord, FormPair
    <3>4. CASE form[f].known
      <4> PICK pair : pair = FormPair(f)
        OBVIOUS
      <4>1. Promised(pair)'
        BY <3>1, <3>4, PromiseStays DEF Told, CreateGrant
      <4> QED
        BY <3>2, <4>1 DEF Promised, WillAnnounce
    <3>5. CASE ~form[f].known
      BY <3>2, <3>3, <3>5 DEF Promised, WillAnnounce, FormPair
    <3> QED
      BY <3>4, <3>5
  <2> QED
    BY <2>1, <2>2
<1>2. ASSUME NEW f \in Forms, form'[f].pc \in {"grant", "code"}, form'[f].known
      PROVE  Promised(FormPair(f))'
  <2>1. ASSUME FormPair(f)' = FormPair(f), Promised(FormPair(f))
        PROVE  Promised(FormPair(f))'
    <3> PICK pair : pair = FormPair(f)
      OBVIOUS
    <3>1. Promised(pair)'
      BY <2>1, PromiseStays
    <3> QED
      BY <2>1, <3>1 DEF Promised, WillAnnounce
  <2>2. CASE form'[f] = form[f]
    BY <1>2, <2>1, <2>2 DEF Told, FormPair
  <2>3. CASE form'[f] # form[f] /\ form'[f].pc = "grant"
    <3>1. FindLiveGrant(f) /\ FormPair(f)' = FormPair(f)
      BY <2>3, FormKeeps DEF FormPair
    <3>2. form'[f].known = \E g \in Grants : Live(g) /\ Pair(g) = FormPair(f)
      BY <3>1 DEF FindLiveGrant, FormPair, Typed, TypeOK, FormRecord
    <3>3. PICK g \in Grants : Live(g) /\ Pair(g) = FormPair(f)
      BY <1>2, <3>2
    <3>4. Promised(FormPair(f))
      BY <3>3 DEF Told, Born, Live
    <3> QED
      BY <2>1, <3>1, <3>4
  <2>4. CASE form'[f] # form[f] /\ form'[f].pc = "code"
    <3>1. /\ form[f].pc = "grant" /\ FormPair(f)' = FormPair(f)
          /\ form'[f].known = form[f].known
      BY <2>4, FormKeeps DEF FormPair
    <3> QED
      BY <1>2, <2>1, <3>1 DEF Told
  <2> QED
    BY <1>2, <2>2, <2>3, <2>4
<1> QED
  BY <1>1, <1>2 DEF Told

\* A client that was let in for a person was announced to them, or is about to
\* be, however many consents of the two run side by side.
THEOREM LetInAreAnnounced == Spec => []LetInIsAnnounced
<1>1. Init => Told
  BY DEF Init, Told, Born, NoGrant, IdleForm
<1>2. Inv /\ Told /\ [Next]_vars => Told'
  BY ToldStep DEF Inv
<1>3. Inv /\ Told => LetInIsAnnounced
  BY DEF Inv, Rooted, Told, Promised, LetInIsAnnounced
<1> QED
  BY <1>1, <1>2, <1>3, InvInductive, PTL DEF Spec

-----------------------------------------------------------------------------
(* Chains of refresh tokens *)

\* What a request carries between its steps: only grants with offline access store
\* a refresh token, and the one stored is of the grant, and new.
Linked(r) ==
  LET q == req[r]
  IN /\ q.pc = "store" => grant[q.grant].offline
     /\ q.pc = "consume" => q.old = None
     /\ q.pc = "spend" => q.old # None
     /\ q.pc \in {"touch", "spend"} /\ grant[q.grant].offline => q.new # None
     /\ q.new # None =>
          q.pc \in {"touch", "spend"} /\ q.new # q.old /\ Issued(q.new, q.grant)

\* What a refresh row points at is there, and of the same grant.
Follows(t) ==
  /\ token[t].state # "free" => grant[token[t].grant].offline
  /\ token[t].state = "used" =>
       token[t].replacedBy \in Tokens \ {t} /\ Issued(token[t].replacedBy, token[t].grant)
  /\ t \in held => token[t].state # "free"

Chained == (\A r \in Reqs : Linked(r)) /\ \A t \in Tokens : Follows(t)

Issuer(r, g) == req[r].grant = g /\ req[r].pc \in Issuing

\* One form writes the code of a grant, and only then is it spent; unspent tokens
\* go with their grant.
Kept ==
  /\ \A f \in Forms : form[f].pc = "code" =>
       /\ code[form[f].grant] = "none"
       /\ \A h \in Forms \ {f} : form[h].pc = "code" => form[h].grant # form[f].grant
  /\ \A t \in Tokens : token[t].state \in {"fresh", "expired"} => Exists(token[t].grant)
  /\ \A r \in Reqs : req[r].pc = "consume" => code[req[r].grant] # "none"

\* Nothing was bought with the code yet.
Unbought(g) == redeemed[g] = 0 /\ \A t \in Tokens : ~Issued(t, g)

\* What request r leaves unspent: only what it stored, or what it replaces and
\* what it stored.
Accounts(r, g) ==
  IF req[r].old = None
  THEN redeemed[g] = 0 /\ \A t \in Tokens : Issued(t, g) => t = req[r].new
  ELSE \A t \in Tokens : Unspent(t, g) => t \in {req[r].old, req[r].new}

Orderly(g) ==
  /\ redeemed[g] <= 1
  /\ \A r, s \in Reqs : Issuer(r, g) /\ Issuer(s, g) => r = s
  /\ code[g] \in {"none", "fresh", "expired"} =>
       Unbought(g) /\ \A r \in Reqs : Issuer(r, g) => req[r].pc = "consume"
  /\ \A r \in Reqs : Issuer(r, g) => Accounts(r, g)
  /\ (\A r \in Reqs : ~Issuer(r, g)) =>
       \A t, s \in Tokens : Unspent(t, g) /\ Unspent(s, g) => t = s

AllOrderly == \A g \in Grants \ disturbed : Orderly(g)

LEMMA ReqPc ==
  ASSUME NEW x \in ReqRecord, NEW p, NEW y, y = [x EXCEPT !.pc = p]
  PROVE  y.pc = p /\ y.grant = x.grant /\ y.old = x.old /\ y.new = x.new
  BY DEF ReqRecord

LEMMA IdleIsIdle ==
  IdleReq.pc = "idle" /\ IdleReq.old = None /\ IdleReq.new = None
  BY DEF IdleReq

\* How the record of request r changes while the others stay as they are: it ends,
\* it goes on, or it begins.
Alone(r) == \A s \in Reqs \ {r} : req'[s] = req[s]
Ends(r) == req'[r] = IdleReq /\ Alone(r)
Onward(r, q) ==
  /\ req'[r].pc = q /\ req'[r].grant = req[r].grant /\ req'[r].old = req[r].old
  /\ Alone(r)
Begins(r, g, t, p) ==
  /\ req[r].pc = "idle" /\ Alone(r)
  /\ req'[r].pc = p /\ req'[r].grant = g /\ req'[r].old = t /\ req'[r].new = None

LEMMA ProceedMoves ==
  ASSUME Typed, NEW r \in Reqs, NEW g, NEW t, NEW p, Proceed(r, g, t, p), req[r].pc = "idle"
  PROVE  /\ Begins(r, g, t, p) /\ UNCHANGED <<rows, held, redeemed>>
         /\ disturbed' = IF Busy(g) /\ p \in Issuing THEN disturbed \cup {g} ELSE disturbed
<1> DEFINE y == [IdleReq EXCEPT !.pc = p, !.grant = g, !.old = t]
<1>1. req'[r] = y /\ Alone(r)
  BY DEF Proceed, Typed, TypeOK, Alone
<1>2. y.pc = p /\ y.grant = g /\ y.old = t /\ y.new = None
  BY DEF IdleReq
<1> HIDE DEF y
<1> QED BY <1>1, <1>2 DEF Proceed, Begins, wallets

LEMMA RefuseMoves ==
  ASSUME Typed, NEW r \in Reqs, Refuse(r)
  PROVE  Ends(r) /\ UNCHANGED <<rows, held, redeemed, disturbed>>
  BY DEF Refuse, Typed, TypeOK, Ends, Alone, wallets, history

LEMMA ConsumeMoves ==
  ASSUME Typed, NEW r \in Reqs, ConsumeCode(r)
  PROVE  /\ req[r].pc = "consume" /\ UNCHANGED <<user, grant, token, held, redeemed, disturbed>>
         /\ \/ Ends(r) /\ UNCHANGED code /\ code[req[r].grant] = "gone"
            \/ /\ Onward(r, "issue") /\ req'[r].new = req[r].new
               /\ code' = [code EXCEPT ![req[r].grant] = "consumed"]
<1>1. CASE Refuse(r) /\ code[req[r].grant] = "gone"
  BY <1>1, RefuseMoves DEF ConsumeCode, rows
<1>2. CASE ~(Refuse(r) /\ code[req[r].grant] = "gone")
  <2> DEFINE y == [req[r] EXCEPT !.pc = "issue"]
  <2>1. req'[r] = y /\ Alone(r) /\ req[r] \in ReqRecord
    BY <1>2 DEF ConsumeCode, Typed, TypeOK, Alone
  <2>2. y.pc = "issue" /\ y.grant = req[r].grant /\ y.old = req[r].old /\ y.new = req[r].new
    BY <2>1, ReqPc
  <2> QED BY <1>2, <2>1, <2>2 DEF ConsumeCode, Onward, wallets, history
<1> QED BY <1>1, <1>2

LEMMA LoadMoves ==
  ASSUME Typed, NEW r \in Reqs, LoadGrant(r)
  PROVE  /\ req[r].pc = "issue" /\ UNCHANGED <<rows, held, redeemed, disturbed>>
         /\ \/ Ends(r)
            \/ Onward(r, "store") /\ req'[r].new = req[r].new /\ grant[req[r].grant].offline
            \/ Onward(r, "touch") /\ req'[r].new = req[r].new /\ ~grant[req[r].grant].offline
<1>1. CASE Refuse(r)
  BY <1>1, RefuseMoves DEF LoadGrant
<1>2. CASE ~Refuse(r)
  <2> DEFINE p == IF grant[req[r].grant].offline THEN "store" ELSE "touch"
             y == [req[r] EXCEPT !.pc = p]
  <2>1. req'[r] = y /\ Alone(r) /\ req[r] \in ReqRecord
    BY <1>2 DEF LoadGrant, Typed, TypeOK, Alone
  <2>2. y.pc = p /\ y.grant = req[r].grant /\ y.old = req[r].old /\ y.new = req[r].new
    BY <2>1, ReqPc
  <2>3. UNCHANGED <<rows, held, redeemed, disturbed>> /\ req[r].pc = "issue"
    BY <1>2 DEF LoadGrant, wallets, history
  <2> HIDE DEF y
  <2> QED BY <2>1, <2>2, <2>3 DEF Onward
<1> QED BY <1>1, <1>2

LEMMA StoreMoves ==
  ASSUME Typed, NEW r \in Reqs, StoreRefreshToken(r)
  PROVE  /\ req[r].pc = "store" /\ UNCHANGED <<user, grant, code, held, redeemed, disturbed>>
         /\ \/ Ends(r) /\ UNCHANGED token
            \/ /\ Exists(req[r].grant)
               /\ \E t \in Tokens :
                    /\ Onward(r, "touch") /\ req'[r].new = t /\ token[t].state = "free"
                    /\ token'[t] = [state |-> "fresh", grant |-> req[r].grant,
                                    replacedBy |-> None]
                    /\ \A s \in Tokens \ {t} : token'[s] = token[s]
<1>1. CASE Refuse(r)
  BY <1>1, RefuseMoves DEF StoreRefreshToken, rows
<1>2. ASSUME NEW t \in Tokens, token[t].state = "free", Exists(req[r].grant),
             token' = [token EXCEPT ![t] =
                         [state |-> "fresh", grant |-> req[r].grant, replacedBy |-> None]],
             req' = [req EXCEPT ![r] = [@ EXCEPT !.pc = "touch", !.new = t]],
             UNCHANGED <<user, grant, code, form, wallets, history>>
      PROVE  /\ UNCHANGED <<user, grant, code, held, redeemed, disturbed>>
             /\ Onward(r, "touch") /\ req'[r].new = t /\ token[t].state = "free"
             /\ token'[t] = [state |-> "fresh", grant |-> req[r].grant, replacedBy |-> None]
             /\ \A s \in Tokens \ {t} : token'[s] = token[s]
  <2> DEFINE y == [req[r] EXCEPT !.pc = "touch", !.new = t]
  <2>1. req'[r] = y /\ Alone(r) /\ req[r] \in ReqRecord
    BY <1>2 DEF Typed, TypeOK, Alone
  <2>2. y.pc = "touch" /\ y.grant = req[r].grant /\ y.old = req[r].old /\ y.new = t
    BY <2>1 DEF ReqRecord
  <2> HIDE DEF y
  <2>3. /\ token'[t] = [state |-> "fresh", grant |-> req[r].grant, replacedBy |-> None]
        /\ \A s \in Tokens \ {t} : token'[s] = token[s]
    BY <1>2 DEF Typed, TypeOK
  <2> QED BY <1>2, <2>1, <2>2, <2>3 DEF Onward, wallets, history
<1> QED BY <1>1, <1>2 DEF StoreRefreshToken

LEMMA AnswerMoves ==
  ASSUME Typed, NEW r \in Reqs, req[r].pc # "idle", Answer(r)
  PROVE  /\ Ends(r) /\ disturbed' = disturbed
         /\ held' \subseteq held \cup ({req[r].new} \ {None})
         /\ IF req[r].old = None
            THEN redeemed' = [redeemed EXCEPT ![req[r].grant] = redeemed[req[r].grant] + 1]
            ELSE redeemed' = redeemed
  BY DEF Answer, Ends, Alone, Typed, TypeOK

LEMMA TouchMoves ==
  ASSUME Typed, NEW r \in Reqs, TouchGrant(r)
  PROVE  /\ req[r].pc = "touch" /\ UNCHANGED <<rows, disturbed>>
         /\ \/ Ends(r) /\ ~Exists(req[r].grant) /\ UNCHANGED <<held, redeemed>>
            \/ Answer(r) /\ req[r].old = None
            \/ /\ Onward(r, "spend") /\ req'[r].new = req[r].new /\ req[r].old # None
               /\ UNCHANGED <<held, redeemed>>
<1>1. CASE Refuse(r) /\ ~Exists(req[r].grant)
  BY <1>1, RefuseMoves DEF TouchGrant
<1>2. CASE Answer(r) /\ req[r].old = None /\ UNCHANGED rows
  BY <1>2, AnswerMoves DEF TouchGrant
<1>3. CASE /\ req[r].old # None /\ req' = [req EXCEPT ![r].pc = "spend"]
           /\ UNCHANGED <<rows, form, wallets, history>>
  <2> DEFINE y == [req[r] EXCEPT !.pc = "spend"]
  <2>1. req'[r] = y /\ Alone(r) /\ req[r] \in ReqRecord
    BY <1>3 DEF Typed, TypeOK, Alone
  <2>2. y.pc = "spend" /\ y.grant = req[r].grant /\ y.old = req[r].old /\ y.new = req[r].new
    BY <2>1, ReqPc
  <2> HIDE DEF y
  <2> QED BY <1>3, <2>1, <2>2 DEF TouchGrant, Onward, wallets, history
<1> QED BY <1>1, <1>2, <1>3 DEF TouchGrant

LEMMA SpendMoves ==
  ASSUME Typed, NEW r \in Reqs, SpendRefreshToken(r), req[r].old # None
  PROVE  /\ req[r].pc = "spend" /\ UNCHANGED <<user, grant, code, disturbed>>
         /\ req[r].old \in Tokens
         /\ \/ /\ Ends(r) /\ token[req[r].old].state = "gone"
               /\ UNCHANGED <<token, held, redeemed>>
            \/ /\ Answer(r)
               /\ token'[req[r].old].state = "used"
               /\ token'[req[r].old].grant = token[req[r].old].grant
               /\ token'[req[r].old].replacedBy = req[r].new
               /\ \A s \in Tokens \ {req[r].old} : token'[s] = token[s]
<1> DEFINE t == req[r].old
           y == [token[t] EXCEPT !.state = "used", !.replacedBy = req[r].new]
<1>1. t \in Tokens
  BY DEF Typed, TypeOK, ReqRecord
<1>2. CASE Refuse(r) /\ token[t].state = "gone"
  BY <1>1, <1>2, RefuseMoves DEF SpendRefreshToken, rows
<1>3. CASE token' = [token EXCEPT ![t] = y] /\ UNCHANGED <<user, grant, code>> /\ Answer(r)
  <2>1. y.state = "used" /\ y.grant = token[t].grant /\ y.replacedBy = req[r].new
    BY <1>1 DEF Typed, TypeOK, TokenRow
  <2> HIDE DEF y
  <2>2. token'[t] = y /\ \A s \in Tokens \ {t} : token'[s] = token[s]
    BY <1>1, <1>3 DEF Typed, TypeOK
  <2>3. req[r].pc = "spend"
    BY DEF SpendRefreshToken
  <2> QED BY <1>1, <1>3, <2>1, <2>2, <2>3, AnswerMoves
<1> QED BY <1>2, <1>3 DEF SpendRefreshToken

LEMMA FailMoves ==
  ASSUME Typed, NEW r \in Reqs, FailReq(r)
  PROVE  /\ Ends(r) /\ UNCHANGED <<rows, held, redeemed>>
         /\ disturbed' = IF req[r].pc \in Issuing THEN disturbed \cup {req[r].grant} ELSE disturbed
  BY DEF FailReq, Ends, Alone, Typed, TypeOK, wallets

LEMMA CutMoves ==
  ASSUME Typed, NEW r \in Reqs, CutGrant(r)
  PROVE  /\ req[r].pc = "cut" /\ UNCHANGED <<code, token, held, redeemed, disturbed>>
         /\ Ends(r) \/ (Onward(r, "tell") /\ req'[r].new = req[r].new)
<1> DEFINE y == [req[r] EXCEPT !.pc = "tell"]
<1>1. /\ req[r].pc = "cut" /\ UNCHANGED <<code, token, held, redeemed, disturbed>>
      /\ req' = [req EXCEPT ![r] = y] \/ req' = [req EXCEPT ![r] = IdleReq]
  BY DEF CutGrant, CutAndTellIf, wallets
<1>2. y.pc = "tell" /\ y.grant = req[r].grant /\ y.old = req[r].old /\ y.new = req[r].new
  BY ReqPc DEF Typed, TypeOK
<1> HIDE DEF y
<1> QED BY <1>1, <1>2 DEF Typed, TypeOK, Ends, Onward, Alone

\* The requests that only had a notice to start, or a user to read.
LEMMA LastMoves ==
  ASSUME Typed, NEW r \in Reqs, NoticeAccessRevoked(r) \/ OpenSession(r)
  PROVE  /\ req[r].pc \in {"tell", "account"} /\ Ends(r)
         /\ UNCHANGED <<code, token, held, redeemed, disturbed>>
  BY DEF NoticeAccessRevoked, OpenSession, Ends, Alone, Typed, TypeOK, rows, wallets, history

\* What becomes of a refresh row in one step: it is written once, keeps its grant,
\* and is spent only by the request that presented it.
LEMMA TokenStep ==
  ASSUME Typed, Rooted, Chained, [Next]_vars, NEW t \in Tokens
  PROVE  \/ token'[t] = token[t]
         \/ /\ token[t].state = "free"
            /\ \E r \in Reqs :
                 /\ StoreRefreshToken(r) /\ req[r].pc = "store"
                 /\ Exists(req[r].grant) /\ req'[r].new = t
                 /\ token'[t].state = "fresh" /\ token'[t].grant = req[r].grant
         \/ /\ token[t].state # "free" /\ token'[t].grant = token[t].grant
            /\ \/ token'[t].state = "gone"
               \/ token[t].state = "fresh" /\ token'[t].state = "expired"
               \/ \E r \in Reqs :
                    /\ SpendRefreshToken(r) /\ req[r].pc = "spend" /\ req[r].old = t
                    /\ token'[t].state = "used" /\ token'[t].replacedBy = req[r].new
<1> SUFFICES ASSUME token'[t] # token[t]
             PROVE  \/ /\ token[t].state = "free"
                       /\ \E r \in Reqs :
                            /\ StoreRefreshToken(r) /\ req[r].pc = "store"
                            /\ Exists(req[r].grant) /\ req'[r].new = t
                            /\ token'[t].state = "fresh" /\ token'[t].grant = req[r].grant
                    \/ /\ token[t].state # "free" /\ token'[t].grant = token[t].grant
                       /\ \/ token'[t].state = "gone"
                          \/ token[t].state = "fresh" /\ token'[t].state = "expired"
                          \/ \E r \in Reqs :
                               /\ SpendRefreshToken(r) /\ req[r].pc = "spend"
                               /\ req[r].old = t /\ token'[t].state = "used"
                               /\ token'[t].replacedBy = req[r].new
  OBVIOUS
<1>r. token[t] \in TokenRow
  BY DEF Typed, TypeOK
<1>1. ASSUME NEW r \in Reqs, StoreRefreshToken(r)
      PROVE  /\ token[t].state = "free" /\ req[r].pc = "store"
             /\ Exists(req[r].grant) /\ req'[r].new = t
             /\ token'[t].state = "fresh" /\ token'[t].grant = req[r].grant
  <2>1. PICK x \in Tokens :
               /\ req'[r].new = x /\ token[x].state = "free" /\ Exists(req[r].grant)
               /\ token'[x] = [state |-> "fresh", grant |-> req[r].grant, replacedBy |-> None]
               /\ \A y \in Tokens \ {x} : token'[y] = token[y]
    BY <1>1, StoreMoves
  <2>2. x = t
    BY <2>1
  <2>3. token'[t].state = "fresh" /\ token'[t].grant = req[r].grant
    BY <2>1, <2>2
  <2>4. req[r].pc = "store"
    BY <1>1, StoreMoves
  <2> QED BY <2>1, <2>2, <2>3, <2>4
<1>2. ASSUME NEW r \in Reqs, SpendRefreshToken(r)
      PROVE  /\ req[r].pc = "spend" /\ req[r].old = t /\ token[t].state # "free"
             /\ token'[t].grant = token[t].grant
             /\ token'[t].state = "used" /\ token'[t].replacedBy = req[r].new
  <2>1. req[r].old # None /\ req[r].pc = "spend"
    BY <1>2 DEF Chained, Linked, SpendRefreshToken
  <2>2. Issued(req[r].old, req[r].grant)
    BY <2>1 DEF Typed, Placed
  <2> QED BY <1>2, <2>1, <2>2, SpendMoves DEF Issued
<1>3. ASSUME NEW u \in Users, DeleteUser(u)
      PROVE  /\ token[t].state # "free" /\ token'[t].grant = token[t].grant
             /\ token'[t].state = "gone"
  <2>1. token'[t] = [token[t] EXCEPT !.state = "gone"] /\ token[t].grant \in Grants
    BY <1>3 DEF DeleteUser
  <2>2. token[t].state # "free"
    BY <2>1, NoneIsNoId DEF Rooted, NoToken
  <2> QED BY <1>r, <2>1, <2>2 DEF TokenRow
<1>4. ASSUME NEW s \in Tokens, ExpireRefreshToken(s)
      PROVE  /\ token[t].state = "fresh" /\ token'[t].grant = token[t].grant
             /\ token'[t].state = "expired"
  <2>1. s = t /\ token'[t] = [token[t] EXCEPT !.state = "expired"] /\ token[t].state = "fresh"
    BY <1>4 DEF ExpireRefreshToken, Typed, TypeOK
  <2> QED BY <1>r, <2>1 DEF TokenRow
<1>5. CASE \E r \in Reqs : StoreRefreshToken(r)
  BY <1>1, <1>5
<1>6. CASE \E r \in Reqs : SpendRefreshToken(r)
  BY <1>2, <1>6
<1>7. CASE \E u \in Users : DeleteUser(u)
  BY <1>3, <1>7
<1>8. CASE \E s \in Tokens : ExpireRefreshToken(s)
  BY <1>4, <1>8
<1> QED BY <1>5, <1>6, <1>7, <1>8, TokenMoves

LEMMA TokensStay ==
  ASSUME Typed, Rooted, Chained, [Next]_vars
  PROVE  \A t \in Tokens : token[t].state # "free" =>
           token'[t].state # "free" /\ token'[t].grant = token[t].grant
<1> SUFFICES ASSUME NEW t \in Tokens, token[t].state # "free"
             PROVE  token'[t].state # "free" /\ token'[t].grant = token[t].grant
  OBVIOUS
<1> QED BY TokenStep

\* The requests whose client receives something.
LEMMA HeldMoves ==
  ASSUME [Next]_vars
  PROVE  \/ UNCHANGED held
         \/ \E r \in Reqs : TouchGrant(r) \/ SpendRefreshToken(r)
  BY DEF Next, vars, wallets, FormStep, ReqStep, AllowWorkspace, FindLiveGrant, CreateGrant,
     CreateCode, FailForm, ExchangeCode, Refresh, Proceed, ConsumeCode, LoadGrant,
     StoreRefreshToken, CutGrant, CutAndTellIf, NoticeAccessRevoked, OpenSession, FailReq,
     Refuse, DeactivateUser, ReactivateUser, DeleteUser,
     RevokeByToken, ExchangeForInternalToken, ExpireCode, ExpireAccessToken, ExpireSession,
     ExpireRefreshToken

\* How each request moves.
Moves(r) ==
  \/ Ends(r)
  \/ \E g \in Grants : \/ Begins(r, g, None, "cut") \/ Begins(r, g, None, "consume")
                       \/ Begins(r, g, None, "account")
  \/ req[r].pc = "cut" /\ Onward(r, "tell") /\ req'[r].new = req[r].new
  \/ \E t \in Tokens :
       \/ Begins(r, token[t].grant, t, "cut")
       \/ Begins(r, token[t].grant, t, "issue")
  \/ req[r].pc = "consume" /\ Onward(r, "issue") /\ req'[r].new = req[r].new
  \/ req[r].pc = "issue" /\ Onward(r, "store") /\ req'[r].new = req[r].new
       /\ grant[req[r].grant].offline
  \/ req[r].pc = "issue" /\ Onward(r, "touch") /\ req'[r].new = req[r].new
       /\ ~grant[req[r].grant].offline
  \/ req[r].pc = "store" /\ \E t \in Tokens :
       /\ Onward(r, "touch") /\ req'[r].new = t /\ token[t].state = "free"
       /\ token'[t] = [state |-> "fresh", grant |-> req[r].grant, replacedBy |-> None]
  \/ req[r].pc = "touch" /\ Onward(r, "spend") /\ req'[r].new = req[r].new /\ req[r].old # None

LEMMA RequestStep ==
  ASSUME Typed, Chained, [Next]_vars
  PROVE  UNCHANGED req \/ \E r \in Reqs : Moves(r)
<1> SUFFICES ASSUME req' # req PROVE \E r \in Reqs : Moves(r)
  OBVIOUS
<1> PICK r \in Reqs : \/ \E g \in Grants : ExchangeCode(r, g) \/ ExchangeForInternalToken(r, g)
                      \/ \E t \in Tokens : Refresh(r, t)
                      \/ ReqStep(r) \/ FailReq(r)
  BY ReqMoves
<1>1. ASSUME NEW g \in Grants, ExchangeCode(r, g)
      PROVE  Begins(r, g, None, "cut") \/ Begins(r, g, None, "consume")
  BY <1>1, ProceedMoves DEF ExchangeCode, vars, handlers
<1>2. ASSUME NEW t \in Tokens, Refresh(r, t)
      PROVE  Begins(r, token[t].grant, t, "cut") \/ Begins(r, token[t].grant, t, "issue")
  BY <1>2, ProceedMoves DEF Refresh, vars, handlers
<1>3. CASE ConsumeCode(r)
  BY <1>3, ConsumeMoves DEF Moves
<1>4. CASE LoadGrant(r)
  BY <1>4, LoadMoves DEF Moves
<1>5. CASE StoreRefreshToken(r)
  BY <1>5, StoreMoves DEF Moves
<1>6. CASE TouchGrant(r)
  <2>1. req[r].pc # "idle"
    BY <1>6 DEF TouchGrant
  <2> QED BY <1>6, <2>1, TouchMoves, AnswerMoves DEF Moves
<1>7. CASE SpendRefreshToken(r)
  <2>1. req[r].pc = "spend" /\ req[r].old # None
    BY <1>7 DEF SpendRefreshToken, Chained, Linked
  <2> QED BY <1>7, <2>1, SpendMoves, AnswerMoves DEF Moves
<1>8. CASE CutGrant(r) \/ NoticeAccessRevoked(r) \/ OpenSession(r) \/ FailReq(r)
  BY <1>8, CutMoves, LastMoves, FailMoves DEF Moves
<1>10. ASSUME NEW g \in Grants, ExchangeForInternalToken(r, g)
       PROVE  Begins(r, g, None, "account")
  BY <1>10, ProceedMoves DEF ExchangeForInternalToken
<1>9. \/ \E g \in Grants : ExchangeCode(r, g) \/ ExchangeForInternalToken(r, g)
      \/ \E t \in Tokens : Refresh(r, t)
      => Moves(r)
  BY <1>1, <1>2, <1>10 DEF Moves
<1> QED BY <1>3, <1>4, <1>5, <1>6, <1>7, <1>8, <1>9 DEF ReqStep


LEMMA LinkedStep ==
  ASSUME Typed, Rooted, Chained, [Next]_vars, NEW s \in Reqs
  PROVE  Linked(s)'
<1>w. \A g \in Grants : Born(g) => grant'[g].offline = grant[g].offline
  BY GrantsStay
<1>n. \A r \in Reqs : /\ req[r].pc # "idle" => req[r].grant \in Grants /\ Born(req[r].grant)
                      /\ req[r].new \in Tokens \cup {None} /\ req[r].old \in Tokens \cup {None}
  BY DEF Typed, TypeOK, Placed, Rooted, ReqRecord
<1>l. \A r \in Reqs : Linked(r)
  BY DEF Chained
<1>i. \A t \in Tokens : \A g \in Grants : Issued(t, g) => Issued(t, g)'
  BY TokensStay DEF Issued
<1>0. None \notin Tokens
  BY NoneIsNoId
<1>1. ASSUME req'[s] = req[s] PROVE Linked(s)'
  BY <1>1, <1>w, <1>n, <1>l, <1>i, <1>0 DEF Linked, Issued
<1>2. ASSUME req'[s] = IdleReq PROVE Linked(s)'
  BY <1>2, IdleIsIdle DEF Linked
<1>3. CASE UNCHANGED req
  BY <1>1, <1>3
<1>4. CASE req' # req
  <2> PICK r \in Reqs : Moves(r)
    BY <1>4, RequestStep
  <2>1. CASE s # r
    BY <1>1, <2>1 DEF Moves, Alone, Ends, Begins, Onward
  <2>2. CASE s = r
    <3> SUFFICES Linked(r)'
      BY <2>2
    <3>1. CASE Ends(r)
      BY <1>2, <2>2, <3>1 DEF Ends
    <3>2. ASSUME NEW g, NEW t, NEW p, Begins(r, g, t, p), p \in {"cut", "issue"} \/ t = None,
                 p \in {"cut", "consume", "issue", "account"}
          PROVE  Linked(r)'
      BY <3>2 DEF Begins, Linked
    <3>3. CASE req[r].pc = "consume" /\ Onward(r, "issue") /\ req'[r].new = req[r].new
      BY <1>l, <3>3 DEF Onward, Linked
    <3>4. CASE /\ req[r].pc = "issue" /\ req'[r].new = req[r].new
               /\ \/ Onward(r, "store") /\ grant[req[r].grant].offline
                  \/ Onward(r, "touch") /\ ~grant[req[r].grant].offline
      BY <1>l, <1>n, <1>w, <3>4 DEF Onward, Linked
    <3>5. ASSUME req[r].pc = "store", NEW t \in Tokens, Onward(r, "touch"), req'[r].new = t,
                 token[t].state = "free",
                 token'[t] = [state |-> "fresh", grant |-> req[r].grant, replacedBy |-> None]
          PROVE  Linked(r)'
      <4>1. req[r].old # None => token[req[r].old].state # "free"
        BY <3>5 DEF Typed, Placed, Issued
      <4> QED BY <1>0, <3>5, <4>1 DEF Onward, Linked, Issued
    <3>6. CASE /\ req[r].pc = "touch" /\ Onward(r, "spend") /\ req'[r].new = req[r].new
               /\ req[r].old # None
      BY <1>l, <1>n, <1>w, <1>i, <1>0, <3>6 DEF Onward, Linked, Issued
    <3>7. CASE req[r].pc = "cut" /\ Onward(r, "tell") /\ req'[r].new = req[r].new
      BY <1>l, <3>7 DEF Onward, Linked
    <3> QED BY <2>2, <3>1, <3>2, <3>3, <3>4, <3>5, <3>6, <3>7 DEF Moves
  <2> QED BY <2>1, <2>2
<1> QED BY <1>3, <1>4

LEMMA FollowsStep ==
  ASSUME Typed, Rooted, Chained, [Next]_vars, NEW t \in Tokens
  PROVE  Follows(t)'
<1>w. \A g \in Grants : Born(g) => grant'[g].offline = grant[g].offline
  BY GrantsStay
<1>b. \A r \in Reqs : req[r].pc # "idle" => req[r].grant \in Grants /\ Born(req[r].grant)
  BY DEF Typed, Placed, Rooted
<1>d. token[t].state # "free" => token[t].grant \in Grants /\ Born(token[t].grant)
  BY DEF Typed, Placed, Rooted
<1>l. \A r \in Reqs : Linked(r)
  BY DEF Chained
<1>f. Follows(t)
  BY DEF Chained
<1>i. \A x \in Tokens : \A g \in Grants : Issued(x, g) => Issued(x, g)'
  BY TokensStay DEF Issued
<1>1. ASSUME token'[t].state # "free" PROVE grant'[token'[t].grant].offline
  <2>1. CASE token[t].state # "free"
    BY <1>w, <1>d, <1>f, <2>1, TokensStay DEF Follows
  <2>2. CASE token[t].state = "free"
    <3>1. PICK r \in Reqs : req[r].pc = "store" /\ token'[t].grant = req[r].grant
      BY <1>1, <2>2, TokenStep
    <3> QED BY <1>w, <1>b, <1>l, <3>1 DEF Linked
  <2> QED BY <2>1, <2>2
<1>2. ASSUME token'[t].state = "used"
      PROVE  token'[t].replacedBy \in Tokens \ {t} /\ Issued(token[t].replacedBy, token[t].grant)'
  <2>1. CASE token'[t] = token[t]
    BY <1>2, <1>d, <1>f, <1>i, <2>1 DEF Follows, Issued
  <2>2. CASE token'[t] # token[t]
    <3>0. token[t].state # "free" /\ token'[t].grant = token[t].grant
      BY <1>2, <2>2, TokenStep
    <3>1. PICK r \in Reqs : /\ SpendRefreshToken(r) /\ req[r].pc = "spend" /\ req[r].old = t
                            /\ token'[t].replacedBy = req[r].new
      BY <1>2, <2>2, <3>0, TokenStep
    <3>2. token[t].grant = req[r].grant
      BY <3>1, NoneIsNoId DEF Typed, Placed, Issued
    <3>3. req[r].new # None
      BY <1>f, <1>l, <3>0, <3>1, <3>2 DEF Follows, Linked
    <3>4. req[r].new \in Tokens /\ req[r].new # t /\ Issued(req[r].new, req[r].grant)
      BY <1>l, <3>1, <3>3 DEF Linked, Typed, TypeOK, ReqRecord
    <3> QED BY <1>d, <1>i, <3>0, <3>1, <3>2, <3>4 DEF Issued
  <2> QED BY <2>1, <2>2
<1>3. ASSUME t \in held' PROVE token'[t].state # "free"
  <2>1. CASE t \in held
    BY <1>f, <2>1, TokensStay DEF Follows
  <2>2. CASE t \notin held
    <3>1. PICK r \in Reqs : TouchGrant(r) \/ SpendRefreshToken(r)
      BY <1>3, <2>2, HeldMoves
    <3>2. req[r].pc = "touch" \/ req[r].pc = "spend"
      BY <3>1 DEF TouchGrant, SpendRefreshToken
    <3>3. SpendRefreshToken(r) => req[r].old # None
      BY <1>l DEF Linked, SpendRefreshToken
    <3>b. held' # held
      BY <1>3, <2>2
    <3>c. TouchGrant(r) => Answer(r)
      BY <3>b, TouchMoves
    <3>a. Answer(r)
      BY <3>b, <3>1, <3>3, <3>c, SpendMoves
    <3>4. t \in held \cup ({req[r].new} \ {None})
      BY <1>3, <3>2, <3>a, AnswerMoves
    <3>5. Issued(t, req[r].grant)
      BY <1>l, <2>2, <3>2, <3>4 DEF Linked
    <3> QED BY <3>5, TokensStay DEF Issued
  <2> QED BY <2>1, <2>2
<1> QED BY <1>1, <1>2, <1>3 DEF Follows

LEMMA ChainedInit == Init => Chained
  BY DEF Init, Chained, Linked, Follows, IdleReq, NoToken

LEMMA ChainedInductive == Spec => [](Inv /\ Chained)
<1>1. Inv /\ Chained /\ [Next]_vars => Chained'
  BY LinkedStep, FollowsStep DEF Inv, Chained
<1> QED
  BY <1>1, ChainedInit, InvInductive, PTL DEF Spec

\* The chain of refresh tokens is never broken: a spent token names the one that
\* took its place, of the same grant, a grant with offline access.
THEOREM ChainsHold == Spec => []ChainIntegrity
<1>1. ASSUME Inv, Chained PROVE ChainIntegrity
  <2>1. \A t \in Tokens : Follows(t) /\ (token[t].state # "free" => token[t].grant \in Grants)
    BY <1>1 DEF Inv, Typed, Placed, Chained
  <2>2. held \subseteq Tokens
    BY <1>1 DEF Inv, Typed, TypeOK
  <2> QED BY <2>1, <2>2 DEF Follows, Issued, ChainIntegrity
<1> QED
  BY <1>1, ChainedInductive, PTL


\* What becomes of a code in one step.
LEMMA CodeStep ==
  ASSUME Typed, Rooted, Kept, [Next]_vars, NEW g \in Grants
  PROVE  \/ code'[g] = code[g]
         \/ /\ code[g] = "none" /\ code'[g] = "fresh"
            /\ \E f \in Forms : CreateCode(f) /\ form[f].pc = "code" /\ form[f].grant = g
         \/ code[g] # "none" /\ code'[g] = "gone"
         \/ code[g] = "fresh" /\ code'[g] = "expired"
         \/ /\ code[g] # "none" /\ code'[g] = "consumed"
            /\ \E r \in Reqs : ConsumeCode(r) /\ req[r].grant = g
<1> USE DEF Typed, TypeOK
<1>1. ASSUME NEW f \in Forms, CreateCode(f), code'[g] # code[g]
      PROVE  /\ code[g] = "none" /\ code'[g] = "fresh"
             /\ form[f].pc = "code" /\ form[f].grant = g
  BY <1>1 DEF CreateCode, Kept
<1>2. ASSUME NEW r \in Reqs, ConsumeCode(r), code'[g] # code[g]
      PROVE  code[g] # "none" /\ code'[g] = "consumed" /\ req[r].grant = g
  <2>1. code' = [code EXCEPT ![req[r].grant] = "consumed"] /\ req[r].pc = "consume"
    BY <1>2, ConsumeMoves
  <2> QED BY <1>2, <2>1 DEF Kept
<1>3. ASSUME NEW u \in Users, DeleteUser(u), code'[g] # code[g]
      PROVE  code[g] # "none" /\ code'[g] = "gone"
  BY <1>3 DEF DeleteUser
<1>4. ASSUME NEW h \in Grants, ExpireCode(h), code'[g] # code[g]
      PROVE  code[g] = "fresh" /\ code'[g] = "expired"
  BY <1>4 DEF ExpireCode
<1> QED BY <1>1, <1>2, <1>3, <1>4, CodeMoves

\* A grant row goes only with its person, and takes its refresh rows along.
LEMMA ExistsTillDeleted ==
  ASSUME Typed, [Next]_vars, NEW g \in Grants, Exists(g), ~Exists(g)'
  PROVE  \A t \in Tokens : token[t].grant = g => token'[t].state = "gone"
<1> USE DEF Typed, TypeOK
<1>1. grant'[g] # grant[g] /\ grant[g].state # "free" /\ grant'[g].state # "revoked"
  BY DEF Exists
<1>2. ASSUME NEW h \in Grants, NEW who, RevokeGrant(h, who) PROVE FALSE
  BY <1>1, <1>2 DEF RevokeGrant, GrantRow
<1>3. ASSUME NEW r \in Reqs, CutGrant(r) PROVE FALSE
  BY <1>2, <1>3 DEF CutGrant, CutAndTellIf, Placed
<1>4. ASSUME NEW f \in Forms, CreateGrant(f) PROVE FALSE
  BY <1>1, <1>4 DEF CreateGrant
<1>5. PICK u \in Users : DeleteUser(u)
  BY <1>1, <1>2, <1>3, <1>4, OtherSteps DEF GrantStep, RevokeByToken, vars, rows
<1>6. grant[g].user = u
  BY <1>1, <1>5 DEF DeleteUser
<1>7. ASSUME NEW t \in Tokens, token[t].grant = g PROVE token'[t].state = "gone"
  <2>1. token'[t] = [token[t] EXCEPT !.state = "gone"]
    BY <1>5, <1>6, <1>7 DEF DeleteUser
  <2>2. token[t] \in TokenRow
    OBVIOUS
  <2> QED BY <2>1, <2>2 DEF TokenRow
<1> QED BY <1>7

LEMMA KeptInit == Init => Kept
  BY DEF Init, Kept, IdleForm, IdleReq, NoToken

LEMMA KeptStep ==
  ASSUME Typed, Rooted, Chained, Kept, [Next]_vars
  PROVE  Kept'
<1>1. ASSUME NEW f \in Forms, form'[f].pc = "code", form'[f] # form[f]
      PROVE  /\ CreateGrant(f) /\ form'[f].grant \in Grants /\ ~Born(form'[f].grant)
             /\ \A h \in Forms \ {f} : form'[h] = form[h]
  <2>1. CreateGrant(f)
    BY <1>1, FormKeeps
  <2>2. form'[f] # IdleForm
    BY <1>1 DEF IdleForm
  <2>3. PICK g \in Grants : /\ grant[g].state = "free"
                            /\ form' = [form EXCEPT ![f] = [@ EXCEPT !.pc = "code", !.grant = g]]
    BY <2>1, <2>2 DEF CreateGrant, Typed, TypeOK
  <2>4. form'[f] = [form[f] EXCEPT !.pc = "code", !.grant = g] /\ form[f] \in FormRecord
    BY <2>3 DEF Typed, TypeOK
  <2>5. form'[f].grant = g
    BY <2>4 DEF FormRecord
  <2> QED BY <2>1, <2>3, <2>5 DEF Born, Typed, TypeOK
<1>2. ASSUME NEW f \in Forms, form'[f].pc = "code"
      PROVE  code'[form'[f].grant] = "none"
  <2>1. CASE form'[f] = form[f]
    <3> DEFINE g == form[f].grant
    <3>1. g \in Grants /\ code[g] = "none"
      BY <1>2, <2>1 DEF Rooted, Kept
    <3>2. ASSUME NEW h \in Forms, CreateCode(h), form[h].pc = "code", form[h].grant = g
          PROVE  FALSE
      <4>1. h = f
        BY <1>2, <2>1, <3>2 DEF Kept
      <4>2. form'[f] = IdleForm
        BY <3>2, <4>1 DEF CreateCode, Typed, TypeOK
      <4> QED BY <1>2, <4>2 DEF IdleForm
    <3>3. code'[g] = "none"
      BY <3>1, <3>2, CodeStep
    <3> QED BY <2>1, <3>3
  <2>2. CASE form'[f] # form[f]
    <3>1. CreateGrant(f) /\ form'[f].grant \in Grants /\ ~Born(form'[f].grant)
      BY <1>1, <1>2, <2>2
    <3> QED BY <3>1 DEF CreateGrant, Rooted
  <2> QED BY <2>1, <2>2
<1>3. ASSUME NEW f \in Forms, NEW h \in Forms \ {f}, form'[f].pc = "code", form'[h].pc = "code"
      PROVE  form'[f].grant # form'[h].grant
  <2>1. CASE form'[f] = form[f] /\ form'[h] = form[h]
    BY <1>3, <2>1 DEF Kept
  <2>2. CASE form'[f] # form[f]
    BY <1>1, <1>3, <2>2 DEF Rooted
  <2>3. CASE form'[h] # form[h]
    BY <1>1, <1>3, <2>3 DEF Rooted
  <2> QED BY <2>1, <2>2, <2>3
<1>4. ASSUME NEW t \in Tokens, token'[t].state \in {"fresh", "expired"}
      PROVE  Exists(token[t].grant)'
  <2>1. CASE token[t].state \in {"fresh", "expired"} /\ token'[t].grant = token[t].grant
    <3>1. token[t].grant \in Grants /\ Exists(token[t].grant)
      BY <2>1 DEF Kept, Typed, Placed
    <3> PICK g \in Grants : g = token[t].grant
      BY <3>1
    <3>2. Exists(g)'
      BY <1>4, <3>1, ExistsTillDeleted
    <3> QED BY <2>1, <3>2 DEF Exists
  <2>2. ASSUME NEW r \in Reqs, StoreRefreshToken(r), Exists(req[r].grant),
               token'[t].grant = req[r].grant
        PROVE  Exists(token[t].grant)'
    BY <2>2, StoreMoves DEF Exists
  <2> QED BY <1>4, <2>1, <2>2, TokenStep
<1>5. ASSUME NEW r \in Reqs, req'[r].pc = "consume"
      PROVE  code'[req'[r].grant] # "none"
  <2>1. \A g \in Grants : code[g] # "none" => code'[g] # "none"
    BY CodeStep
  <2>2. CASE req'[r] = req[r]
    BY <1>5, <2>1, <2>2 DEF Kept, Typed, Placed
  <2>3. CASE req'[r] # req[r]
    <3>1. PICK s \in Reqs : \/ \E g \in Grants : ExchangeCode(s, g) \/ ExchangeForInternalToken(s, g)
                            \/ \E t \in Tokens : Refresh(s, t)
                            \/ ReqStep(s) \/ FailReq(s)
      BY <2>3, ReqMoves
    <3>2. ASSUME NEW g \in Grants, ExchangeCode(s, g) PROVE code'[req'[r].grant] # "none"
      <4>1. req[s].pc = "idle"
        BY <3>2 DEF ExchangeCode
      <4>2. CASE code[g] = "consumed" /\ Proceed(s, g, None, "cut")
        BY <1>5, <2>3, <4>1, <4>2, ProceedMoves DEF Begins, Alone
      <4>3. CASE code[g] = "fresh" /\ Proceed(s, g, None, "consume")
        BY <1>5, <2>1, <2>3, <4>1, <4>3, ProceedMoves DEF Begins, Alone
      <4>4. CASE UNCHANGED vars
        BY <2>3, <4>4 DEF vars, handlers
      <4> QED BY <3>2, <4>2, <4>3, <4>4 DEF ExchangeCode
    <3>3. ASSUME NEW t \in Tokens, Refresh(s, t) PROVE FALSE
      <4>1. req[s].pc = "idle" /\ token[t].grant \in Grants \cup {None}
        BY <3>3 DEF Refresh, Typed, TypeOK, TokenRow
      <4>2. ASSUME NEW p \in {"cut", "issue"}, Proceed(s, token[t].grant, t, p) PROVE FALSE
        BY <1>5, <2>3, <4>1, <4>2, ProceedMoves DEF Begins, Alone
      <4>3. CASE UNCHANGED vars
        BY <2>3, <4>3 DEF vars, handlers
      <4> QED BY <3>3, <4>2, <4>3 DEF Refresh
    <3>4. CASE ReqStep(s) \/ FailReq(s)
      <4>1. req[s].pc # "idle"
        BY <3>4 DEF ReqStep, FailReq, ConsumeCode, LoadGrant, StoreRefreshToken, TouchGrant,
           SpendRefreshToken, CutGrant, CutAndTellIf, NoticeAccessRevoked, OpenSession
      <4>3. PICK x \in Reqs : Moves(x)
        BY <2>3, RequestStep
      <4>4. x = r
        BY <2>3, <4>3 DEF Moves, Alone, Ends, Begins, Onward
      <4>5. s = r
        BY <2>3, <3>4 DEF ReqStep, FailReq, ConsumeCode, LoadGrant, StoreRefreshToken, TouchGrant,
           SpendRefreshToken, CutGrant, CutAndTellIf, NoticeAccessRevoked, OpenSession,
           Refuse, Answer, Typed, TypeOK
      <4> QED BY <1>5, <4>1, <4>3, <4>4, <4>5, IdleIsIdle DEF Moves, Ends, Begins, Onward
    <3>5. ASSUME NEW g \in Grants, ExchangeForInternalToken(s, g) PROVE FALSE
      BY <1>5, <2>3, <3>5, ProceedMoves DEF ExchangeForInternalToken, Begins, Alone
    <3> QED BY <3>1, <3>2, <3>3, <3>4, <3>5
  <2> QED BY <2>2, <2>3
<1> QED BY <1>2, <1>3, <1>4, <1>5 DEF Kept


\* A step that leaves the requests at work for grant g alone, and issues, spends
\* and buys nothing there.
Quiet(g) ==
  /\ redeemed'[g] = redeemed[g]
  /\ \A r \in Reqs : Issuer(r, g)' => Issuer(r, g)
  /\ \A r \in Reqs : Issuer(r, g) => req'[r] = req[r]
  /\ \A t \in Tokens : (Issued(t, g)' => Issued(t, g)) /\ (Unspent(t, g)' => Unspent(t, g))
  /\ code'[g] \in {"none", "fresh", "expired"} => code[g] \in {"none", "fresh", "expired"}

LEMMA QuietKeeps ==
  ASSUME NEW g \in Grants, Orderly(g), Quiet(g)
  PROVE  Orderly(g)'
<1>0. /\ redeemed'[g] = redeemed[g]
      /\ \A r \in Reqs : Issuer(r, g)' => Issuer(r, g)
      /\ \A r \in Reqs : Issuer(r, g) => req'[r] = req[r]
      /\ \A t \in Tokens : (Issued(t, g)' => Issued(t, g)) /\ (Unspent(t, g)' => Unspent(t, g))
  BY DEF Quiet
<1>1. redeemed'[g] <= 1
  BY <1>0 DEF Orderly
<1>2. \A r, s \in Reqs : Issuer(r, g)' /\ Issuer(s, g)' => r = s
  BY <1>0 DEF Orderly
<1>3. ASSUME code'[g] \in {"none", "fresh", "expired"}
      PROVE  Unbought(g)' /\ \A r \in Reqs : Issuer(r, g)' => req'[r].pc = "consume"
  <2>1. Unbought(g) /\ \A r \in Reqs : Issuer(r, g) => req[r].pc = "consume"
    BY <1>3 DEF Orderly, Quiet
  <2> QED BY <1>0, <2>1 DEF Unbought
<1>4. ASSUME NEW r \in Reqs, Issuer(r, g)' PROVE Accounts(r, g)'
  <2>1. Issuer(r, g) /\ req'[r] = req[r] /\ Accounts(r, g)
    BY <1>0, <1>4 DEF Orderly
  <2> QED BY <1>0, <2>1 DEF Accounts
<1>5. ASSUME \A r \in Reqs : ~Issuer(r, g)'
      PROVE  \A t, s \in Tokens : Unspent(t, g)' /\ Unspent(s, g)' => t = s
  <2>1. \A r \in Reqs : ~Issuer(r, g)
    BY <1>0, <1>5 DEF Issuer
  <2> QED BY <1>0, <2>1 DEF Orderly
<1> QED BY <1>1, <1>2, <1>3, <1>4, <1>5 DEF Orderly

\* A request begins where none was at work, goes on, or ends.
LEMMA Starts ==
  ASSUME NEW g \in Grants, Orderly(g), NEW r \in Reqs, NEW t, NEW p, Begins(r, g, t, p),
         \A s \in Reqs : ~Issuer(s, g), UNCHANGED <<token, redeemed, code>>,
         code[g] \in {"none", "fresh", "expired"} => p = "consume",
         Accounts(r, g)'
  PROVE  Orderly(g)'
<1>0. \A s \in Reqs : Issuer(s, g)' => s = r
  BY DEF Begins, Alone, Issuer
<1>1. redeemed'[g] <= 1
  BY DEF Orderly
<1>2. ASSUME code'[g] \in {"none", "fresh", "expired"}
      PROVE  Unbought(g)' /\ \A s \in Reqs : Issuer(s, g)' => req'[s].pc = "consume"
  BY <1>0, <1>2 DEF Orderly, Unbought, Issued, Begins
<1>3. ASSUME \A s \in Reqs : ~Issuer(s, g)'
      PROVE  \A x, y \in Tokens : Unspent(x, g)' /\ Unspent(y, g)' => x = y
  BY DEF Orderly, Unspent
<1> QED BY <1>0, <1>1, <1>2, <1>3 DEF Orderly

LEMMA Advances ==
  ASSUME NEW g \in Grants, Orderly(g), NEW r \in Reqs, NEW p \in Issuing, Onward(r, p),
         Issuer(r, g), UNCHANGED redeemed,
         code'[g] \notin {"none", "fresh", "expired"},
         Accounts(r, g)'
  PROVE  Orderly(g)'
<1>0. Issuer(r, g)' /\ \A s \in Reqs : Issuer(s, g)' => s = r
  BY DEF Onward, Alone, Issuer, Orderly
<1>1. redeemed'[g] <= 1
  BY DEF Orderly
<1> QED BY <1>0, <1>1 DEF Orderly

LEMMA Stops ==
  ASSUME NEW g \in Grants, Orderly(g), NEW r \in Reqs, Ends(r), Issuer(r, g),
         redeemed'[g] <= 1, code'[g] \notin {"none", "fresh", "expired"},
         \A t, s \in Tokens : Unspent(t, g)' /\ Unspent(s, g)' => t = s
  PROVE  Orderly(g)'
<1>0. ASSUME NEW s \in Reqs, Issuer(s, g)' PROVE FALSE
  <2>1. CASE s = r
    BY <1>0, <2>1, IdleIsIdle DEF Ends, Issuer, Issuing
  <2>2. CASE s # r
    BY <1>0, <2>2 DEF Ends, Alone, Issuer, Orderly
  <2> QED BY <2>1, <2>2
<1> QED BY <1>0 DEF Orderly

\* What a step of request r at one grant does not touch.
Elsewhere(r, g) ==
  /\ Alone(r)
  /\ req[r].pc \in Issuing => req[r].grant # g
  /\ req'[r].pc \in Issuing => req'[r].grant # g
  /\ redeemed'[g] = redeemed[g]
  /\ code'[g] = code[g]
  /\ \A t \in Tokens : (Issued(t, g)' => Issued(t, g)) /\ (Unspent(t, g)' => Unspent(t, g))

LEMMA ElsewhereIsQuiet ==
  ASSUME NEW r \in Reqs, NEW g \in Grants, Elsewhere(r, g)
  PROVE  Quiet(g)
<1>1. ASSUME NEW s \in Reqs, Issuer(s, g)' PROVE Issuer(s, g)
  <2>1. s # r
    BY <1>1 DEF Elsewhere, Issuer
  <2> QED BY <1>1, <2>1 DEF Elsewhere, Alone, Issuer
<1>2. ASSUME NEW s \in Reqs, Issuer(s, g) PROVE req'[s] = req[s]
  BY <1>2 DEF Elsewhere, Alone, Issuer
<1> QED BY <1>1, <1>2 DEF Elsewhere, Quiet

\* Once the requests of a grant overlap, or one died, it stays on record.
LEMMA DisturbedGrows ==
  ASSUME [Next]_vars
  PROVE  disturbed \subseteq disturbed'
<1>1. ASSUME NEW r \in Reqs, NEW g, NEW t, NEW p, Proceed(r, g, t, p)
      PROVE  disturbed \subseteq disturbed'
  BY <1>1 DEF Proceed
<1>2. ASSUME NEW r \in Reqs, FailReq(r)
      PROVE  disturbed \subseteq disturbed'
  BY <1>2 DEF FailReq
<1>3. \/ UNCHANGED disturbed
      \/ \E r \in Reqs : \/ FailReq(r)
                         \/ \E g \in Grants : ExchangeCode(r, g) \/ ExchangeForInternalToken(r, g)
                         \/ \E t \in Tokens : Refresh(r, t)
  BY DEF Next, vars, history, FormStep, ReqStep, AllowWorkspace, FindLiveGrant,
     CreateGrant, CreateCode, FailForm, ConsumeCode, LoadGrant,
     StoreRefreshToken, TouchGrant, SpendRefreshToken, CutGrant, CutAndTellIf,
     NoticeAccessRevoked, OpenSession, Refuse, Answer,
     DeactivateUser, ReactivateUser, DeleteUser, RevokeByToken, ExpireCode, ExpireAccessToken, ExpireSession, ExpireRefreshToken
<1>4. ASSUME NEW r \in Reqs, NEW g \in Grants,
             ExchangeCode(r, g) \/ ExchangeForInternalToken(r, g)
      PROVE  disturbed \subseteq disturbed'
  BY <1>1, <1>4 DEF ExchangeCode, ExchangeForInternalToken, vars, history
<1>5. ASSUME NEW r \in Reqs, NEW t \in Tokens, Refresh(r, t)
      PROVE  disturbed \subseteq disturbed'
  BY <1>1, <1>5 DEF Refresh, vars, history
<1> QED BY <1>2, <1>3, <1>4, <1>5

\* A step that moves no request is quiet everywhere.
LEMMA StillIsQuiet ==
  ASSUME Typed, Rooted, Chained, Kept, [Next]_vars, UNCHANGED req, NEW g \in Grants
  PROVE  Quiet(g)
<1>1. ASSUME NEW r \in Reqs, \/ ConsumeCode(r) \/ StoreRefreshToken(r)
                             \/ TouchGrant(r) \/ SpendRefreshToken(r)
      PROVE  FALSE
  <2>1. req'[r] = req[r] /\ IdleReq.pc = "idle"
    BY IdleIsIdle
  <2>2. SpendRefreshToken(r) => req[r].old # None /\ req[r].pc = "spend"
    BY DEF SpendRefreshToken, Chained, Linked
  <2>3. TouchGrant(r) => req[r].pc = "touch"
    BY DEF TouchGrant
  <2>4. (TouchGrant(r) \/ SpendRefreshToken(r)) /\ Answer(r) => Ends(r)
    BY <2>2, <2>3, AnswerMoves
  <2>5. CASE ConsumeCode(r)
    BY <2>1, <2>5, ConsumeMoves DEF Ends, Onward
  <2>6. CASE StoreRefreshToken(r)
    BY <2>1, <2>6, StoreMoves DEF Ends, Onward
  <2>7. CASE TouchGrant(r)
    BY <2>1, <2>3, <2>4, <2>7, TouchMoves DEF Ends, Onward
  <2>8. CASE SpendRefreshToken(r)
    BY <2>1, <2>2, <2>4, <2>8, SpendMoves DEF Ends
  <2> QED BY <1>1, <2>5, <2>6, <2>7, <2>8
<1>2. UNCHANGED redeemed
  <2>1. \/ UNCHANGED redeemed
        \/ \E r \in Reqs : TouchGrant(r) \/ SpendRefreshToken(r)
    BY DEF Next, vars, history, FormStep, ReqStep, AllowWorkspace, FindLiveGrant,
       CreateGrant, CreateCode, FailForm, ExchangeCode, Refresh, Proceed, ConsumeCode,
       LoadGrant, StoreRefreshToken, CutGrant, CutAndTellIf, NoticeAccessRevoked,
       OpenSession, FailReq, Refuse, DeactivateUser,
       ReactivateUser, DeleteUser, RevokeByToken, ExchangeForInternalToken, ExpireCode,
       ExpireAccessToken, ExpireSession, ExpireRefreshToken
  <2> QED BY <1>1, <2>1
<1>3. ASSUME NEW t \in Tokens
      PROVE  (Issued(t, g)' => Issued(t, g)) /\ (Unspent(t, g)' => Unspent(t, g))
  BY <1>1, TokenStep DEF Issued, Unspent
<1>4. code'[g] \in {"none", "fresh", "expired"} => code[g] \in {"none", "fresh", "expired"}
  BY CodeStep
<1> QED BY <1>2, <1>3, <1>4 DEF Quiet, Issuer


\* The requests at work for a grant account for its unspent tokens.
LEMMA SoleLeft ==
  ASSUME NEW r \in Reqs, NEW g \in Grants, Accounts(r, g), UNCHANGED token,
         req[r].old = None \/ req[r].new = None
  PROVE  \A t, s \in Tokens : Unspent(t, g)' /\ Unspent(s, g)' => t = s
<1>1. ASSUME NEW t \in Tokens, Unspent(t, g)' PROVE Issued(t, g) /\ Unspent(t, g) /\ t # None
  BY <1>1, NoneIsNoId DEF Unspent, Issued
<1> QED BY <1>1 DEF Accounts

LEMMA AccountsStay ==
  ASSUME NEW r \in Reqs, NEW g \in Grants, Accounts(r, g), UNCHANGED <<token, redeemed>>,
         req'[r].old = req[r].old, req'[r].new = req[r].new
  PROVE  Accounts(r, g)'
  BY DEF Accounts, Issued, Unspent

LEMMA BeginKeeps ==
  ASSUME Typed, NEW r \in Reqs, NEW h \in Grants, NEW t, NEW p, Proceed(r, h, t, p),
         req[r].pc = "idle",
         \/ p \in {"cut", "account"}
         \/ p = "consume" /\ t = None /\ code[h] = "fresh"
         \/ p = "issue" /\ t \in Tokens /\ token[t].state = "fresh" /\ token[t].grant = h,
         NEW g \in Grants, g \notin disturbed', Orderly(g)
  PROVE  Orderly(g)'
<1>0. /\ Begins(r, h, t, p) /\ UNCHANGED <<token, code, redeemed>>
      /\ disturbed' = IF Busy(h) /\ p \in Issuing THEN disturbed \cup {h} ELSE disturbed
  BY ProceedMoves DEF rows
<1>1. CASE g # h \/ p \in {"cut", "account"}
  <2>1. Elsewhere(r, g)
    BY <1>0, <1>1 DEF Elsewhere, Begins, Issuing, Issued, Unspent
  <2> QED BY <2>1, ElsewhereIsQuiet, QuietKeeps
<1>2. CASE g = h /\ p \in {"consume", "issue"}
  <2>1. \A s \in Reqs : ~Issuer(s, g)
    BY <1>0, <1>2 DEF Busy, Issuer, Issuing
  <2>2. CASE p = "consume"
    <3>1. Unbought(g)
      BY <1>2, <2>2 DEF Orderly
    <3>2. Accounts(r, g)'
      BY <1>0, <2>2, <3>1 DEF Accounts, Unbought, Issued, Begins
    <3> QED BY <1>0, <1>2, <2>1, <2>2, <3>2, Starts
  <2>3. CASE p = "issue"
    <3>1. t \in Tokens /\ Unspent(t, g) /\ Issued(t, g) /\ t # None
      BY <1>2, <2>3, NoneIsNoId DEF Unspent, Issued
    <3>2. code[g] \notin {"none", "fresh", "expired"}
      BY <3>1 DEF Orderly, Unbought
    <3>3. \A x \in Tokens : Unspent(x, g) => x = t
      BY <2>1, <3>1 DEF Orderly
    <3>4. Accounts(r, g)'
      BY <1>0, <3>1, <3>3 DEF Accounts, Unspent, Begins
    <3> QED BY <1>0, <1>2, <2>1, <3>2, <3>4, Starts
  <2> QED BY <1>2, <2>2, <2>3
<1> QED BY <1>1, <1>2

LEMMA ConsumeKeeps ==
  ASSUME Typed, Chained, NEW r \in Reqs, ConsumeCode(r), NEW g \in Grants, Orderly(g)
  PROVE  Orderly(g)'
<1> DEFINE h == req[r].grant
<1>0. req[r].pc = "consume" /\ h \in Grants /\ UNCHANGED <<token, redeemed>>
  BY ConsumeMoves DEF Typed, Placed
<1>n. req[r].new = None
  BY <1>0 DEF Chained, Linked
<1>1. CASE g # h
  <2>1. req'[r].pc \in Issuing => req'[r].grant = h
    BY ConsumeMoves, IdleIsIdle DEF Ends, Onward, Issuing
  <2>2. Alone(r) /\ code'[g] = code[g]
    BY <1>0, <1>1, ConsumeMoves DEF Ends, Onward, Typed, TypeOK
  <2>3. Elsewhere(r, g)
    BY <1>0, <1>1, <2>1, <2>2 DEF Elsewhere, Issued, Unspent
  <2> QED BY <2>3, ElsewhereIsQuiet, QuietKeeps
<1>2. CASE g = h
  <2>1. Issuer(r, g) /\ Accounts(r, g)
    BY <1>0, <1>2 DEF Issuer, Issuing, Orderly
  <2>2. CASE Ends(r) /\ UNCHANGED code /\ code[h] = "gone"
    <3>1. \A t, s \in Tokens : Unspent(t, g)' /\ Unspent(s, g)' => t = s
      BY <1>0, <1>n, <2>1, SoleLeft
    <3>2. redeemed'[g] <= 1 /\ code'[g] \notin {"none", "fresh", "expired"}
      BY <1>0, <1>2, <2>2 DEF Orderly
    <3> QED BY <2>1, <2>2, <3>1, <3>2, Stops
  <2>3. CASE /\ Onward(r, "issue") /\ req'[r].new = req[r].new
             /\ code' = [code EXCEPT ![h] = "consumed"]
    <3>1. code'[g] \notin {"none", "fresh", "expired"}
      BY <1>2, <2>3 DEF Typed, TypeOK
    <3>2. Accounts(r, g)'
      BY <1>0, <2>1, <2>3, AccountsStay DEF Onward
    <3>3. "issue" \in Issuing
      BY DEF Issuing
    <3> QED BY <1>0, <2>1, <2>3, <3>1, <3>2, <3>3, Advances
  <2> QED BY <2>2, <2>3, ConsumeMoves
<1> QED BY <1>1, <1>2

LEMMA LoadKeeps ==
  ASSUME Typed, Chained, NEW r \in Reqs, LoadGrant(r), NEW g \in Grants, Orderly(g)
  PROVE  Orderly(g)'
<1> DEFINE h == req[r].grant
<1>0. req[r].pc = "issue" /\ UNCHANGED <<token, code, redeemed>>
  BY LoadMoves DEF rows
<1>m. \/ Ends(r)
      \/ \E p \in {"store", "touch"} : Onward(r, p) /\ req'[r].new = req[r].new
  BY LoadMoves
<1>n. req[r].new = None
  BY <1>0 DEF Chained, Linked
<1>1. CASE g # h
  <2>1. Alone(r) /\ (req'[r].pc \in Issuing => req'[r].grant = h)
    BY <1>m, IdleIsIdle DEF Ends, Onward, Issuing
  <2>2. Elsewhere(r, g)
    BY <1>0, <1>1, <2>1 DEF Elsewhere, Issued, Unspent
  <2> QED BY <2>2, ElsewhereIsQuiet, QuietKeeps
<1>2. CASE g = h
  <2>1. Issuer(r, g) /\ Accounts(r, g)
    BY <1>0, <1>2 DEF Issuer, Issuing, Orderly
  <2>2. redeemed'[g] <= 1 /\ code'[g] \notin {"none", "fresh", "expired"}
    BY <1>0, <2>1 DEF Orderly
  <2>3. CASE Ends(r)
    BY <1>0, <1>n, <2>1, <2>2, <2>3, SoleLeft, Stops
  <2>4. ASSUME NEW p \in {"store", "touch"}, Onward(r, p), req'[r].new = req[r].new
        PROVE  Orderly(g)'
    <3>1. Accounts(r, g)' /\ p \in Issuing
      BY <1>0, <2>1, <2>4, AccountsStay DEF Onward, Issuing
    <3> QED BY <1>0, <2>1, <2>2, <2>4, <3>1, Advances
  <2> QED BY <1>m, <2>3, <2>4
<1> QED BY <1>1, <1>2

LEMMA StoreKeeps ==
  ASSUME Typed, Chained, NEW r \in Reqs, StoreRefreshToken(r), NEW g \in Grants, Orderly(g)
  PROVE  Orderly(g)'
<1> DEFINE h == req[r].grant
<1>0. req[r].pc = "store" /\ UNCHANGED <<code, redeemed>>
  BY StoreMoves
<1>n. req[r].new = None
  BY <1>0 DEF Chained, Linked
<1>1. CASE Ends(r) /\ UNCHANGED token
  <2>1. CASE g # h
    <3>1. Elsewhere(r, g)
      BY <1>0, <1>1, <2>1, IdleIsIdle DEF Elsewhere, Ends, Issuing, Issued, Unspent
    <3> QED BY <3>1, ElsewhereIsQuiet, QuietKeeps
  <2>2. CASE g = h
    <3>1. Issuer(r, g) /\ Accounts(r, g)
      BY <1>0, <2>2 DEF Issuer, Issuing, Orderly
    <3>2. redeemed'[g] <= 1 /\ code'[g] \notin {"none", "fresh", "expired"}
      BY <1>0, <3>1 DEF Orderly
    <3> QED BY <1>n, <1>1, <3>1, <3>2, SoleLeft, Stops
  <2> QED BY <2>1, <2>2
<1>2. ASSUME NEW t \in Tokens, Onward(r, "touch"), req'[r].new = t, token[t].state = "free",
             token'[t] = [state |-> "fresh", grant |-> h, replacedBy |-> None],
             \A s \in Tokens \ {t} : token'[s] = token[s]
      PROVE  Orderly(g)'
  <2>0. token'[t].grant = h
    BY <1>2
  <2>1. CASE g # h
    <3>1. Elsewhere(r, g)
      BY <1>0, <1>2, <2>0, <2>1 DEF Elsewhere, Onward, Issued, Unspent
    <3> QED BY <3>1, ElsewhereIsQuiet, QuietKeeps
  <2>2. CASE g = h
    <3>1. Issuer(r, g) /\ Accounts(r, g)
      BY <1>0, <2>2 DEF Issuer, Issuing, Orderly
    <3>2. code'[g] \notin {"none", "fresh", "expired"}
      BY <1>0, <3>1 DEF Orderly
    <3>3. \A x \in Tokens \ {t} : x # None /\ (Issued(x, g)' => Issued(x, g))
                                 /\ (Unspent(x, g)' => Unspent(x, g))
      BY <1>2, NoneIsNoId DEF Issued, Unspent
    <3>4. Accounts(r, g)'
      BY <1>0, <1>n, <1>2, <3>1, <3>3 DEF Accounts, Onward
    <3>5. "touch" \in Issuing
      BY DEF Issuing
    <3> QED BY <1>0, <1>2, <3>1, <3>2, <3>4, <3>5, Advances
  <2> QED BY <2>1, <2>2
<1> QED BY <1>1, <1>2, StoreMoves


\* A request answered at h leaves the other grants alone.
LEMMA AnswerElsewhere ==
  ASSUME Typed, NEW r \in Reqs, req[r].pc # "idle", Answer(r), UNCHANGED code,
         NEW g \in Grants, g # req[r].grant,
         \A t \in Tokens : (Issued(t, g)' => Issued(t, g)) /\ (Unspent(t, g)' => Unspent(t, g))
  PROVE  Quiet(g)
<1>1. Ends(r) /\ redeemed'[g] = redeemed[g]
  BY AnswerMoves DEF Typed, TypeOK
<1>2. Elsewhere(r, g)
  BY <1>1, IdleIsIdle DEF Elsewhere, Ends, Issuing
<1> QED BY <1>2, ElsewhereIsQuiet

LEMMA TouchKeeps ==
  ASSUME Typed, Chained, Kept, NEW r \in Reqs, TouchGrant(r), NEW g \in Grants, Orderly(g)
  PROVE  Orderly(g)'
<1> DEFINE h == req[r].grant
<1>0. req[r].pc = "touch" /\ h \in Grants /\ UNCHANGED <<token, code>>
  BY TouchMoves DEF rows, Typed, Placed
<1>1. CASE g # h
  <2>1. CASE Answer(r)
    BY <1>0, <1>1, <2>1, AnswerElsewhere, QuietKeeps DEF Issued, Unspent
  <2>2. CASE ~Answer(r)
    <3>1. Alone(r) /\ redeemed' = redeemed /\ (req'[r].pc \in Issuing => req'[r].grant = h)
      BY <2>2, TouchMoves, IdleIsIdle DEF Ends, Onward, Issuing
    <3>2. Elsewhere(r, g)
      BY <1>0, <1>1, <3>1 DEF Elsewhere, Issued, Unspent
    <3> QED BY <3>2, ElsewhereIsQuiet, QuietKeeps
  <2> QED BY <2>1, <2>2
<1>2. CASE g = h
  <2>1. Issuer(r, g) /\ Accounts(r, g)
    BY <1>0, <1>2 DEF Issuer, Issuing, Orderly
  <2>2. code'[g] \notin {"none", "fresh", "expired"}
    BY <1>0, <2>1 DEF Orderly
  <2>3. CASE Ends(r) /\ ~Exists(h) /\ UNCHANGED <<held, redeemed>>
    <3>1. \A t \in Tokens : ~Unspent(t, g)'
      BY <1>0, <1>2, <2>3 DEF Kept, Unspent
    <3>2. redeemed'[g] <= 1
      BY <2>3 DEF Orderly
    <3> QED BY <2>1, <2>2, <2>3, <3>1, <3>2, Stops
  <2>4. CASE Answer(r) /\ req[r].old = None
    <3>1. redeemed[g] = 0
      BY <2>1, <2>4 DEF Accounts
    <3>2. Ends(r) /\ redeemed'[g] <= 1
      BY <1>0, <1>2, <2>4, <3>1, AnswerMoves DEF Typed, TypeOK
    <3>3. \A t, s \in Tokens : Unspent(t, g)' /\ Unspent(s, g)' => t = s
      BY <1>0, <2>1, <2>4, SoleLeft
    <3> QED BY <2>1, <2>2, <3>2, <3>3, Stops
  <2>5. CASE Onward(r, "spend") /\ req'[r].new = req[r].new /\ UNCHANGED <<held, redeemed>>
    <3>1. Accounts(r, g)'
      BY <1>0, <2>1, <2>5, AccountsStay DEF Onward
    <3>2. "spend" \in Issuing
      BY DEF Issuing
    <3> QED BY <2>1, <2>2, <2>5, <3>1, <3>2, Advances
  <2> QED BY <2>3, <2>4, <2>5, TouchMoves
<1> QED BY <1>1, <1>2

LEMMA SpendKeeps ==
  ASSUME Typed, Chained, NEW r \in Reqs, SpendRefreshToken(r), NEW g \in Grants, Orderly(g)
  PROVE  Orderly(g)'
<1> DEFINE h == req[r].grant
           t == req[r].old
<1>0. req[r].pc = "spend" /\ h \in Grants /\ t # None
  BY DEF SpendRefreshToken, Chained, Linked, Typed, Placed
<1>t. t \in Tokens /\ UNCHANGED code /\ token[t].grant = h
  BY <1>0, SpendMoves DEF Typed, Placed, Issued
<1>1. CASE Ends(r) /\ token[t].state = "gone" /\ UNCHANGED <<token, held, redeemed>>
  <2>1. CASE g # h
    <3>1. Elsewhere(r, g)
      BY <1>t, <1>1, <2>1, IdleIsIdle DEF Elsewhere, Ends, Issuing, Issued, Unspent
    <3> QED BY <3>1, ElsewhereIsQuiet, QuietKeeps
  <2>2. CASE g = h
    <3>1. Issuer(r, g) /\ Accounts(r, g)
      BY <1>0, <2>2 DEF Issuer, Issuing, Orderly
    <3>2. redeemed'[g] <= 1 /\ code'[g] \notin {"none", "fresh", "expired"}
      BY <1>0, <1>t, <1>1, <3>1 DEF Orderly
    <3>3. \A x \in Tokens : Unspent(x, g)' => x = req[r].new
      BY <1>0, <1>1, <3>1 DEF Accounts, Unspent
    <3> QED BY <1>1, <3>1, <3>2, <3>3, Stops
  <2> QED BY <2>1, <2>2
<1>2. CASE /\ Answer(r) /\ token'[t].state = "used" /\ token'[t].grant = token[t].grant
           /\ \A s \in Tokens \ {t} : token'[s] = token[s]
  <2>0. Ends(r) /\ redeemed' = redeemed
    BY <1>0, <1>2, AnswerMoves
  <2>1. CASE g # h
    <3>1. \A x \in Tokens : (Issued(x, g)' => Issued(x, g)) /\ (Unspent(x, g)' => Unspent(x, g))
      BY <1>t, <1>2, <2>1 DEF Issued, Unspent
    <3> QED BY <1>0, <1>t, <1>2, <2>1, <3>1, AnswerElsewhere, QuietKeeps
  <2>2. CASE g = h
    <3>1. Issuer(r, g) /\ Accounts(r, g)
      BY <1>0, <2>2 DEF Issuer, Issuing, Orderly
    <3>2. redeemed'[g] <= 1 /\ code'[g] \notin {"none", "fresh", "expired"}
      BY <1>0, <1>t, <2>0, <3>1 DEF Orderly
    <3>3. \A x \in Tokens : Unspent(x, g)' => x = req[r].new
      BY <1>0, <1>2, <3>1 DEF Accounts, Unspent
    <3> QED BY <2>0, <3>1, <3>2, <3>3, Stops
  <2> QED BY <2>1, <2>2
<1> QED BY <1>0, <1>1, <1>2, SpendMoves

LEMMA EndKeeps ==
  ASSUME Typed, NEW r \in Reqs,
         CutGrant(r) \/ NoticeAccessRevoked(r) \/ OpenSession(r) \/ FailReq(r), NEW g \in Grants,
         g \notin disturbed', Orderly(g)
  PROVE  Orderly(g)'
<1>1. (Ends(r) \/ Onward(r, "tell")) /\ UNCHANGED <<token, code, redeemed>>
  BY CutMoves, LastMoves, FailMoves DEF rows
<1>2. req[r].pc \in Issuing => req[r].grant # g
  BY CutMoves, LastMoves, FailMoves DEF Issuing
<1>3. Elsewhere(r, g)
  BY <1>1, <1>2, IdleIsIdle DEF Elsewhere, Ends, Onward, Issuing, Issued, Unspent
<1> QED BY <1>3, ElsewhereIsQuiet, QuietKeeps

LEMMA OrderlyStep ==
  ASSUME Typed, Rooted, Chained, Kept, AllOrderly, [Next]_vars
  PROVE  AllOrderly'
<1> SUFFICES ASSUME NEW g \in Grants \ disturbed' PROVE Orderly(g)'
  BY DEF AllOrderly
<1>0. Orderly(g)
  BY DisturbedGrows DEF AllOrderly
<1>1. CASE UNCHANGED req
  BY <1>0, <1>1, StillIsQuiet, QuietKeeps
<1>2. CASE req' # req
  <2> PICK r \in Reqs : \/ \E h \in Grants : ExchangeCode(r, h) \/ ExchangeForInternalToken(r, h)
                        \/ \E t \in Tokens : Refresh(r, t)
                        \/ ReqStep(r) \/ FailReq(r)
    BY <1>2, ReqMoves
  <2>1. ASSUME NEW h \in Grants, ExchangeCode(r, h) PROVE Orderly(g)'
    <3>1. \/ Proceed(r, h, None, "cut")
          \/ code[h] = "fresh" /\ Proceed(r, h, None, "consume")
      BY <1>2, <2>1 DEF ExchangeCode, vars, handlers
    <3>2. req[r].pc = "idle"
      BY <2>1 DEF ExchangeCode
    <3> QED BY <1>0, <3>1, <3>2, BeginKeeps
  <2>2. ASSUME NEW t \in Tokens, Refresh(r, t) PROVE Orderly(g)'
    <3>1. \/ token[t].state = "used" /\ Proceed(r, token[t].grant, t, "cut")
          \/ token[t].state = "fresh" /\ Proceed(r, token[t].grant, t, "issue")
      BY <1>2, <2>2 DEF Refresh, vars, handlers
    <3>2. req[r].pc = "idle"
      BY <2>2 DEF Refresh
    <3>3. token[t].grant \in Grants
      BY <3>1 DEF Typed, Placed
    <3> QED BY <1>0, <3>1, <3>2, <3>3, BeginKeeps
  <2>3. CASE ReqStep(r) \/ FailReq(r)
    BY <1>0, <2>3, ConsumeKeeps, LoadKeeps, StoreKeeps, TouchKeeps, SpendKeeps, EndKeeps
       DEF ReqStep
  <2>4. ASSUME NEW h \in Grants, ExchangeForInternalToken(r, h) PROVE Orderly(g)'
    BY <1>0, <2>4, BeginKeeps DEF ExchangeForInternalToken
  <2> QED BY <2>1, <2>2, <2>3, <2>4
<1> QED BY <1>1, <1>2

LEMMA OrderlyInit == Init => AllOrderly
  BY NoneIsNoId DEF Init, AllOrderly, Orderly, Unbought, Issued, Unspent, Issuer, Issuing, IdleReq, NoToken

\* Requests for one grant that neither overlap nor die half-way buy tokens with its
\* code at most once, and leave one unspent refresh token, or, while one is being
\* replaced, it and its replacement.
THEOREM ChainsAreSole == Spec => []SoleChain
<1>1. Inv /\ Chained /\ Kept /\ AllOrderly /\ [Next]_vars => Kept' /\ AllOrderly'
  BY KeptStep, OrderlyStep DEF Inv
<1>2. Kept /\ AllOrderly => SoleChain
  <2> SUFFICES ASSUME AllOrderly, NEW g \in Grants \ disturbed
               PROVE  /\ redeemed[g] <= 1
                      /\ \A t, s \in Tokens : Unspent(t, g) /\ Unspent(s, g) /\ t # s =>
                           \E r \in Reqs : {req[r].old, req[r].new} = {t, s}
    BY DEF SoleChain
  <2>1. Orderly(g)
    BY DEF AllOrderly
  <2>2. ASSUME NEW t \in Tokens, NEW s \in Tokens, Unspent(t, g), Unspent(s, g), t # s
        PROVE  \E r \in Reqs : {req[r].old, req[r].new} = {t, s}
    <3>1. PICK r \in Reqs : Issuer(r, g) /\ Accounts(r, g)
      BY <2>1, <2>2 DEF Orderly
    <3>2. t \in {req[r].old, req[r].new} /\ s \in {req[r].old, req[r].new}
      BY <2>2, <3>1 DEF Accounts, Issued, Unspent
    <3> QED BY <2>2, <3>2
  <2>3. redeemed[g] <= 1
    BY <2>1 DEF Orderly
  <2> QED BY <2>2, <2>3
<1> QED
  BY <1>1, <1>2, KeptInit, OrderlyInit, ChainedInductive, PTL DEF Spec

-----------------------------------------------------------------------------
(* Typing of the pages *)

\* What a page being processed points at.
Processed(p) ==
  p.pc # "idle" =>
    /\ p.request \in SealedRequest /\ p.request.offline \in Offline
    /\ p.pc # "seal" => p.user \in Users

PagesPlaced ==
  /\ PagesTypeOK
  /\ \A request \in sealed : request.offline \in Offline
  /\ \A f \in Forms : Processed(page[f])

\* The request of the login page of a client's URI.
LoginRequest(c, uri, o) == [client |-> c, uri |-> uri, offline |-> o, user |-> None]

\* Page f goes on from one of its awaits to the next.
Goes(f, from, to) ==
  /\ page[f].pc = from /\ page'[f].pc = to
  /\ page'[f].request = page[f].request /\ page'[f].user = page[f].user

LEMMA PageFields ==
  /\ NoPage \in PageRecord /\ NoPage.pc = "idle"
  /\ \A request \in SealedRequest, pc \in {"seal", "authenticate", "finish"}, u \in Users \cup {None} :
       LET q == [pc |-> pc, request |-> request, user |-> u]
       IN  q \in PageRecord /\ q.pc = pc /\ q.request = request /\ q.user = u
  BY DEF PageRecord, NoPage

LEMMA RequestFields ==
  /\ \A c \in Clients, uri \in Uris, o \in Offline :
       LET q == LoginRequest(c, uri, o)
       IN  q \in SealedRequest /\ q.client = c /\ q.uri = uri /\ q.offline = o /\ q.user = None
  /\ \A request \in SealedRequest, u \in Users :
       LET q == [request EXCEPT !.user = u]
       IN  /\ q \in SealedRequest /\ q.client = request.client /\ q.uri = request.uri
           /\ q.offline = request.offline /\ q.user = u
  BY OfflineIsBoolean DEF SealedRequest, LoginRequest

\* How a page comes to where it is.
LEMMA PageOrigins ==
  ASSUME PagesPlaced, [AuthorizeNext]_allVars, NEW f \in Forms, page'[f] # page[f]
  PROVE  /\ page'[f] \in PageRecord
         /\ \/ page'[f] = NoPage
            \/ \E c \in Clients, uri \in Uris, o \in Offline :
                 /\ ValidateAuthorizeRequest(c, uri, o)
                 /\ page'[f].pc = "seal" /\ page'[f].request = LoginRequest(c, uri, o)
            \/ \E request \in sealed : page'[f].request = request /\
                 \/ page'[f].pc = "authenticate" /\ page'[f].user \in Users
                 \/ /\ page'[f].pc = "finish" /\ page'[f].user = request.user
                    /\ request.user \in Users
            \/ /\ Goes(f, "authenticate", "workspaces")
               /\ <<page[f].user, page[f].request.client>> \in typed'
            \/ Goes(f, "workspaces", "finish")
            \/ Goes(f, "finish", "issue")
<1> DEFINE Origin ==
         /\ page'[f] \in PageRecord
         /\ \/ page'[f] = NoPage
            \/ \E c \in Clients, uri \in Uris, o \in Offline :
                 /\ ValidateAuthorizeRequest(c, uri, o)
                 /\ page'[f].pc = "seal" /\ page'[f].request = LoginRequest(c, uri, o)
            \/ \E request \in sealed : page'[f].request = request /\
                 \/ page'[f].pc = "authenticate" /\ page'[f].user \in Users
                 \/ /\ page'[f].pc = "finish" /\ page'[f].user = request.user
                    /\ request.user \in Users
            \/ /\ Goes(f, "authenticate", "workspaces")
               /\ <<page[f].user, page[f].request.client>> \in typed'
            \/ Goes(f, "workspaces", "finish")
            \/ Goes(f, "finish", "issue")
<1>p. page \in [Forms -> PageRecord] /\ sealed \subseteq SealedRequest
  BY DEF PagesPlaced, PagesTypeOK
<1>g. ASSUME NEW from, NEW to \in {"workspaces", "finish", "issue"},
             page[f].pc = from, page'[f] = [page[f] EXCEPT !.pc = to]
      PROVE  page'[f] \in PageRecord /\ Goes(f, from, to)
  <2> DEFINE q == [page[f] EXCEPT !.pc = to]
  <2>1. q \in PageRecord /\ q.pc = to /\ q.request = page[f].request /\ q.user = page[f].user
    <3>1. page[f] \in PageRecord
      BY <1>p
    <3> QED
      BY <3>1 DEF PageRecord
  <2> HIDE DEF q
  <2>2. page'[f] = q
    BY <1>g DEF q
  <2> QED
    BY <1>g, <2>1, <2>2 DEF Goes
<1>0. ASSUME NEW h \in Forms, Forget(h)
      PROVE  Origin
  BY <1>0, <1>p, PageFields DEF Forget
<1>1. ASSUME NEW h \in Forms, NEW c \in Clients, NEW uri \in Uris, NEW o \in Offline,
             Authorize(h, c, uri, o)
      PROVE  Origin
  <2>1. /\ ValidateAuthorizeRequest(c, uri, o)
        /\ page'[f] = [pc |-> "seal", request |-> LoginRequest(c, uri, o), user |-> None]
    BY <1>1, <1>p DEF Authorize, LoginRequest, NoPage
  <2>2. LoginRequest(c, uri, o) \in SealedRequest
    BY RequestFields
  <2> QED
    BY <2>1, <2>2, PageFields
<1>2. ASSUME NEW h \in Forms, NEW request \in sealed, NEW u \in Users, PostPassword(h, request, u)
      PROVE  Origin
  <2>1. page'[f] = [pc |-> "authenticate", request |-> request, user |-> u]
    BY <1>2, <1>p DEF PostPassword
  <2> QED
    BY <1>p, <2>1, PageFields
<1>3. ASSUME NEW h \in Forms, NEW request \in sealed, PostConsent(h, request)
      PROVE  Origin
  <2>1. page'[f] = [pc |-> "finish", request |-> request, user |-> request.user]
    BY <1>3, <1>p DEF PostConsent
  <2>2. request.user \in Users
    BY <1>3, <1>p DEF PostConsent, SealedRequest
  <2> QED
    BY <1>p, <2>1, <2>2, PageFields
<1>4. ASSUME NEW h \in Forms, Authenticate(h)
      PROVE  Origin
  <2>1. CASE Forget(h)
    BY <1>0, <2>1
  <2>2. CASE ~Forget(h)
    <3>1. /\ h = f /\ page[f].pc = "authenticate" /\ page'[f] = [page[f] EXCEPT !.pc = "workspaces"]
          /\ <<page[f].user, page[f].request.client>> \in typed'
      BY <1>4, <1>p, <2>2 DEF Authenticate
    <3> QED
      BY <1>g, <3>1
  <2> QED
    BY <2>1, <2>2
<1>5. ASSUME NEW h \in Forms, OfferWorkspaces(h)
      PROVE  Origin
  <2>1. CASE Forget(h)
    BY <1>0, <2>1
  <2>2. CASE ~Forget(h)
    <3>1. h = f /\ page[f].pc = "workspaces" /\ page'[f] = [page[f] EXCEPT !.pc = "finish"]
      BY <1>5, <1>p, <2>2 DEF OfferWorkspaces
    <3> QED
      BY <1>g, <3>1
  <2> QED
    BY <2>1, <2>2
<1>6. ASSUME NEW h \in Forms, Finish(h)
      PROVE  Origin
  <2>1. h = f /\ page[f].pc = "finish" /\ page'[f] = [page[f] EXCEPT !.pc = "issue"]
    BY <1>6, <1>p DEF Finish
  <2> QED
    BY <1>g, <2>1
<1>7. ASSUME NEW h \in Forms, LoginPage(h) \/ IssueCode(h) \/ FailPage(h)
      PROVE  Origin
  BY <1>0, <1>7 DEF LoginPage, IssueCode, FailPage
<1> HIDE DEF Origin
<1>8. Origin
  BY <1>1, <1>2, <1>3, <1>4, <1>5, <1>6, <1>7 DEF AuthorizeNext, PageStep, allVars, pages,
     RegisterClient, DisableClient, ExpireSealed
<1> QED
  BY <1>8 DEF Origin

\* Which blobs are sealed.
LEMMA SealedOrigins ==
  ASSUME PagesPlaced, [AuthorizeNext]_allVars, NEW request \in sealed', request \notin sealed
  PROVE  \E f \in Forms :
           \/ page[f].pc = "seal" /\ request = page[f].request
           \/ page[f].pc = "workspaces" /\ request = [page[f].request EXCEPT !.user = page[f].user]
<1>1. PICK f \in Forms : LoginPage(f) \/ OfferWorkspaces(f)
  BY DEF AuthorizeNext, PageStep, allVars, pages, RegisterClient, DisableClient, Authorize,
     PostPassword, PostConsent, Authenticate, Finish, IssueCode, FailPage, ExpireSealed
<1>2. CASE LoginPage(f)
  BY <1>2 DEF LoginPage, SealRequest
<1>3. CASE OfferWorkspaces(f)
  BY <1>3 DEF OfferWorkspaces, SealRequest
<1> QED
  BY <1>1, <1>2, <1>3

\* A client, once registered, keeps its URIs and its scope.
LEMMA ClientsStay ==
  ASSUME PagesPlaced, [AuthorizeNext]_allVars
  PROVE  /\ client' \in [Clients -> ClientRow]
         /\ \A c \in Clients : client[c].state # "free" =>
              /\ client'[c].state # "free" /\ client'[c].uris = client[c].uris
              /\ client'[c].offline = client[c].offline
         /\ \A c \in Clients : client'[c] # client[c] =>
              client'[c].uris = client[c].uris \/ \A uri \in client'[c].uris : CheckRedirectUri(uri)
<1>c. client \in [Clients -> ClientRow]
  BY DEF PagesPlaced, PagesTypeOK
<1>1. CASE UNCHANGED client
  BY <1>1, <1>c
<1>2. ASSUME NEW c \in Clients, NEW uris \in SUBSET Uris, NEW o \in BOOLEAN, RegisterClient(c, uris, o)
      PROVE  /\ client[c].state = "free" /\ \A uri \in uris : CheckRedirectUri(uri)
             /\ client' = [client EXCEPT ![c] = [state |-> "registered", uris |-> uris, offline |-> o]]
             /\ [state |-> "registered", uris |-> uris, offline |-> o] \in ClientRow
  BY <1>2 DEF RegisterClient, ClientRow
<1>3. ASSUME NEW c \in Clients, DisableClient(c)
      PROVE  LET row == [client[c] EXCEPT !.state = "disabled"]
             IN  /\ client' = [client EXCEPT ![c] = row]
                 /\ row \in ClientRow /\ row.state = "disabled"
                 /\ row.uris = client[c].uris /\ row.offline = client[c].offline
  BY <1>3, <1>c DEF DisableClient, ClientRow
<1>4. ASSUME NEW c \in Clients, NEW uris \in SUBSET Uris, NEW o \in BOOLEAN, RegisterClient(c, uris, o)
      PROVE  /\ client' \in [Clients -> ClientRow]
             /\ \A d \in Clients : client[d].state # "free" => client'[d] = client[d]
             /\ \A d \in Clients : client'[d] # client[d] =>
                  \A uri \in client'[d].uris : CheckRedirectUri(uri)
  <2> DEFINE row == [state |-> "registered", uris |-> uris, offline |-> o]
  <2>1. /\ client[c].state = "free" /\ \A uri \in uris : CheckRedirectUri(uri)
        /\ client' = [client EXCEPT ![c] = row] /\ row \in ClientRow /\ row.uris = uris
    BY <1>2, <1>4
  <2> HIDE DEF row
  <2> QED
    BY <1>c, <2>1
<1>5. CASE \E c \in Clients, uris \in SUBSET Uris, o \in BOOLEAN : RegisterClient(c, uris, o)
  BY <1>4, <1>5
<1>6. CASE \E c \in Clients : DisableClient(c)
  BY <1>3, <1>6, <1>c
<1> QED
  BY <1>1, <1>5, <1>6 DEF AuthorizeNext, PageStep, allVars, pages, Authorize, LoginPage,
     PostPassword, PostConsent, Authenticate, OfferWorkspaces, Finish, IssueCode, FailPage,
     ExpireSealed

LEMMA PagesInit == AuthorizeInit => PagesPlaced
<1> SUFFICES ASSUME AuthorizeInit PROVE PagesPlaced
  OBVIOUS
<1>1. client \in [Clients -> ClientRow]
  BY DEF AuthorizeInit, ClientRow
<1>2. page \in [Forms -> PageRecord] /\ \A f \in Forms : page[f].pc = "idle"
  BY PageFields DEF AuthorizeInit
<1> QED
  BY <1>1, <1>2 DEF AuthorizeInit, PagesPlaced, PagesTypeOK, Processed

LEMMA PagesStep == PagesPlaced /\ [AuthorizeNext]_allVars => PagesPlaced'
<1> SUFFICES ASSUME PagesPlaced, [AuthorizeNext]_allVars PROVE PagesPlaced'
  OBVIOUS
<1>p. page \in [Forms -> PageRecord] /\ sealed \subseteq SealedRequest
      /\ typed \subseteq Users \X Clients /\ delivered \subseteq Clients \X Uris
  BY DEF PagesPlaced, PagesTypeOK
<1>1. ASSUME NEW f \in Forms
      PROVE  page'[f] \in PageRecord /\ Processed(page'[f])
  <2>1. CASE page'[f] = page[f]
    BY <1>p, <2>1 DEF PagesPlaced
  <2>2. CASE page'[f] # page[f]
    <3>1. CASE page'[f] = NoPage
      BY <3>1, PageFields DEF Processed
    <3>2. ASSUME NEW c \in Clients, NEW uri \in Uris, NEW o \in Offline,
                 page'[f].pc = "seal", page'[f].request = LoginRequest(c, uri, o)
          PROVE  Processed(page'[f])
      BY <3>2, RequestFields DEF Processed
    <3>3. ASSUME NEW request \in sealed, page'[f].request = request, page'[f].user \in Users
          PROVE  Processed(page'[f])
      BY <1>p, <3>3 DEF Processed, PagesPlaced
    <3>4. ASSUME NEW from \in {"authenticate", "workspaces", "finish"}, NEW to, Goes(f, from, to)
          PROVE  Processed(page'[f])
      BY <3>4 DEF Processed, PagesPlaced, Goes
    <3> QED
      BY <2>2, <3>1, <3>2, <3>3, <3>4, PageOrigins
  <2> QED
    BY <2>1, <2>2
<1>2. page' \in [Forms -> PageRecord]
  <2>1. DOMAIN page' = Forms /\ page' = [f \in Forms |-> page'[f]]
    BY <1>p DEF AuthorizeNext, PageStep, allVars, pages, RegisterClient, DisableClient, Authorize,
       LoginPage, Forget, PostPassword, PostConsent, Authenticate, OfferWorkspaces, Finish,
       IssueCode, FailPage, ExpireSealed
  <2> QED
    BY <1>1, <2>1
<1>3. ASSUME NEW request \in sealed'
      PROVE  request \in SealedRequest /\ request.offline \in Offline
  <2>1. CASE request \in sealed
    BY <1>p, <2>1 DEF PagesPlaced
  <2>2. ASSUME NEW f \in Forms, page[f].pc \in {"seal", "workspaces"}
        PROVE  /\ page[f].request \in SealedRequest /\ page[f].request.offline \in Offline
               /\ page[f].pc = "workspaces" => page[f].user \in Users
    BY <2>2 DEF PagesPlaced, Processed
  <2>3. ASSUME NEW f \in Forms, page[f].pc = "workspaces",
               request = [page[f].request EXCEPT !.user = page[f].user]
        PROVE  request \in SealedRequest /\ request.offline \in Offline
    <3>1. page[f].request \in SealedRequest /\ page[f].user \in Users
      BY <2>2, <2>3
    <3>2. request.offline = page[f].request.offline /\ request \in SealedRequest
      BY <2>3, <3>1, RequestFields
    <3> QED
      BY <2>2, <2>3, <3>2
  <2> QED
    BY <2>1, <2>2, <2>3, SealedOrigins
<1>4. typed' \subseteq Users \X Clients
  <2>1. ASSUME NEW f \in Forms, Authenticate(f)
        PROVE  typed' \subseteq Users \X Clients
    <3>1. page[f].user \in Users /\ page[f].request.client \in Clients
      BY <2>1 DEF Authenticate, PagesPlaced, Processed, SealedRequest
    <3> QED
      BY <1>p, <2>1, <3>1 DEF Authenticate
  <2> QED
    BY <1>p, <2>1 DEF AuthorizeNext, PageStep, allVars, pages, RegisterClient, DisableClient,
       Authorize, LoginPage, PostPassword, PostConsent, OfferWorkspaces, Finish, IssueCode,
       FailPage, ExpireSealed
<1>5. delivered' \subseteq Clients \X Uris
  <2>1. ASSUME NEW f \in Forms, IssueCode(f)
        PROVE  delivered' \subseteq Clients \X Uris
    <3>1. page[f].request.client \in Clients /\ page[f].request.uri \in Uris
      BY <2>1 DEF IssueCode, PagesPlaced, Processed, SealedRequest
    <3> QED
      BY <1>p, <2>1, <3>1 DEF IssueCode
  <2> QED
    BY <1>p, <2>1 DEF AuthorizeNext, PageStep, allVars, pages, RegisterClient, DisableClient,
       Authorize, LoginPage, PostPassword, PostConsent, Authenticate, OfferWorkspaces, Finish,
       FailPage, ExpireSealed
<1> QED
  BY <1>1, <1>2, <1>3, <1>4, <1>5, ClientsStay DEF PagesPlaced, PagesTypeOK

\* PagesTypeOK holds in every reachable state.
THEOREM PagesTypeCorrect == AuthorizeSpec => []PagesTypeOK
<1>1. PagesPlaced => PagesTypeOK
  BY DEF PagesPlaced
<1> QED
  BY <1>1, PagesInit, PagesStep, PTL DEF AuthorizeSpec

-----------------------------------------------------------------------------
(* The pages and the grants *)

LEMMA PagesImplement ==
  ASSUME PagesPlaced, [AuthorizeNext]_allVars
  PROVE  [Next]_vars
<1>1. ASSUME NEW f \in Forms, Finish(f)
      PROVE  Next
  <2> DEFINE p == page[f]
  <2>1. p.user \in Users /\ p.request.client \in Clients /\ p.request.offline \in Offline
    BY <1>1 DEF Finish, PagesPlaced, Processed, SealedRequest
  <2>2. AllowWorkspace(f, p.user, p.request.client, p.request.offline)
    BY <1>1 DEF Finish
  <2> QED
    BY <2>1, <2>2 DEF Next
<1>2. ASSUME NEW f \in Forms, IssueCode(f)
      PROVE  Next
  BY <1>2 DEF IssueCode, Next
<1> QED
  BY <1>1, <1>2 DEF AuthorizeNext, PageStep, allVars, RegisterClient, DisableClient, Authorize,
     LoginPage, PostPassword, PostConsent, Authenticate, OfferWorkspaces, FailPage, ExpireSealed

\* Towards the grants, the pages and the token endpoint together behave as
\* OAuthGrants says: its invariants are theirs too.
LEMMA GrantsBehind == AuthorizeSpec => Spec
<1>1. AuthorizeInit => Init
  BY DEF AuthorizeInit
<1>2. PagesPlaced /\ [AuthorizeNext]_allVars => [Next]_vars
  BY PagesImplement
<1> QED
  BY <1>1, <1>2, PagesInit, PagesStep, PTL DEF AuthorizeSpec, Spec

\* A consent begins where a page finishes, and keeps its person and its client.
LEMMA FormOfPage ==
  ASSUME Typed, PagesPlaced, [AuthorizeNext]_allVars, NEW f \in Forms,
         form'[f].pc # "idle", form'[f] # form[f]
  PROVE  \/ /\ page[f].pc = "finish"
            /\ form'[f].user = page[f].user /\ form'[f].client = page[f].request.client
            /\ form'[f].offline = page[f].request.offline
         \/ /\ form[f].pc # "idle"
            /\ form'[f].user = form[f].user /\ form'[f].client = form[f].client
            /\ form'[f].offline = form[f].offline
<1>1. PICK h \in Forms : Finish(h) \/ IssueCode(h)
  BY DEF AuthorizeNext, PageStep, allVars, vars, handlers, RegisterClient, DisableClient,
     Authorize, LoginPage, PostPassword, PostConsent, Authenticate, OfferWorkspaces, FailPage,
     ExpireSealed
<1>2. CASE Finish(h)
  <2>1. h = f
    BY <1>2 DEF Finish, AllowWorkspace, Typed, TypeOK
  <2>2. form'[f] = [IdleForm EXCEPT !.pc = "find", !.user = page[f].user,
                      !.client = page[f].request.client, !.offline = page[f].request.offline]
    BY <1>2, <2>1 DEF Finish, AllowWorkspace, Typed, TypeOK
  <2> QED
    BY <1>2, <2>1, <2>2 DEF Finish, IdleForm
<1>3. CASE IssueCode(h)
  <2>1. h = f
    BY <1>3 DEF IssueCode, FormStep, FindLiveGrant, CreateGrant, CreateCode, FailForm, Typed, TypeOK
  <2>2. form'[f].pc \in {"grant", "code"}
    <3>1. form[f] \in FormRecord /\ DOMAIN form = Forms
      BY DEF Typed, TypeOK
    <3>2. ASSUME FindLiveGrant(f)
          PROVE  form'[f].pc = "grant"
      BY <3>1, <3>2 DEF FindLiveGrant, FormRecord
    <3>3. ASSUME CreateGrant(f)
          PROVE  form'[f].pc = "code"
      <4>1. \/ form'[f] = IdleForm
            \/ \E g \in Grants : form'[f] = [form[f] EXCEPT !.pc = "code", !.grant = g]
        BY <3>1, <3>3 DEF CreateGrant
      <4>2. form'[f] # IdleForm
        BY DEF IdleForm
      <4> QED
        BY <3>1, <4>1, <4>2 DEF FormRecord
    <3>4. ASSUME CreateCode(f) \/ FailForm(f)
          PROVE  FALSE
      BY <3>1, <3>4 DEF CreateCode, FailForm, IdleForm
    <3> QED
      BY <1>3, <2>1, <3>2, <3>3, <3>4 DEF IssueCode, FormStep
  <2>3. [Next]_vars
    BY PagesImplement
  <2> QED
    BY <2>2, <2>3, FormKeeps
<1> QED
  BY <1>1, <1>2, <1>3

\* A blob keeps the request it was sealed with; on the workspace page it says
\* who typed the password.
LEMMA BlobOrigins ==
  ASSUME PagesPlaced, [AuthorizeNext]_allVars, NEW request \in sealed', request \notin sealed
  PROVE  \E f \in Forms :
           /\ page[f].pc \in {"seal", "workspaces"}
           /\ request.client = page[f].request.client /\ request.uri = page[f].request.uri
           /\ request.offline = page[f].request.offline
           /\ request.user = IF page[f].pc = "seal" THEN page[f].request.user ELSE page[f].user
<1> PICK f \in Forms :
           \/ page[f].pc = "seal" /\ request = page[f].request
           \/ page[f].pc = "workspaces" /\ request = [page[f].request EXCEPT !.user = page[f].user]
  BY SealedOrigins
<1>1. CASE page[f].pc = "seal"
  BY <1>1
<1>2. CASE page[f].pc = "workspaces"
  <2>1. page[f].request \in SealedRequest /\ page[f].user \in Users
    BY <1>2 DEF PagesPlaced, Processed
  <2>2. request = [page[f].request EXCEPT !.user = page[f].user]
    BY <1>2
  <2> QED
    BY <1>2, <2>1, <2>2, RequestFields
<1> QED
  BY <1>1, <1>2

-----------------------------------------------------------------------------
(* Who consents *)

\* ConsentWasTyped, with what makes it inductive: the pages past the password,
\* the blobs that name a person and the consents under way were typed for too.
ConsentInv ==
  /\ \A request \in sealed : request.user # None => <<request.user, request.client>> \in typed
  /\ \A f \in Forms :
       /\ page[f].pc = "seal" => page[f].request.user = None
       /\ page[f].pc \in {"workspaces", "finish", "issue"} =>
            <<page[f].user, page[f].request.client>> \in typed
       /\ form[f].pc # "idle" => FormPair(f) \in typed
  /\ ConsentWasTyped

LEMMA ConsentTypedInit == AuthorizeInit => ConsentInv
  BY DEF AuthorizeInit, Init, ConsentInv, ConsentWasTyped, NoPage, IdleForm, NoGrant

LEMMA TypedGrows ==
  ASSUME [AuthorizeNext]_allVars
  PROVE  typed \subseteq typed'
<1>1. ASSUME NEW f \in Forms, Authenticate(f)
      PROVE  typed \subseteq typed'
  BY <1>1 DEF Authenticate
<1> QED
  BY <1>1 DEF AuthorizeNext, PageStep, allVars, pages, RegisterClient, DisableClient, Authorize,
     LoginPage, PostPassword, PostConsent, OfferWorkspaces, Finish, IssueCode, FailPage, ExpireSealed

LEMMA ConsentTypedStep ==
  Typed /\ Rooted /\ PagesPlaced /\ ConsentInv /\ [AuthorizeNext]_allVars => ConsentInv'
<1> SUFFICES ASSUME Typed, Rooted, PagesPlaced, ConsentInv, [AuthorizeNext]_allVars
             PROVE  ConsentInv'
  OBVIOUS
<1>n. [Next]_vars
  BY PagesImplement
<1>1. ASSUME NEW request \in sealed', request.user # None
      PROVE  <<request.user, request.client>> \in typed'
  BY <1>1, BlobOrigins, TypedGrows DEF ConsentInv
<1>2. ASSUME NEW f \in Forms
      PROVE  /\ page'[f].pc = "seal" => page'[f].request.user = None
             /\ page'[f].pc \in {"workspaces", "finish", "issue"} =>
                  <<page'[f].user, page'[f].request.client>> \in typed'
  <2>1. CASE page'[f] = page[f]
    BY <2>1, TypedGrows DEF ConsentInv
  <2>2. CASE page'[f] = NoPage
    BY <2>2 DEF NoPage
  <2>3. ASSUME NEW c \in Clients, NEW uri \in Uris, NEW o \in Offline,
               page'[f].pc = "seal", page'[f].request = LoginRequest(c, uri, o)
        PROVE  page'[f].request.user = None
    BY <2>3 DEF LoginRequest
  <2>4. ASSUME NEW request \in sealed, page'[f].request = request,
               page'[f].user = request.user, request.user \in Users
        PROVE  <<page'[f].user, page'[f].request.client>> \in typed'
    BY <2>4, NoneIsNoId, TypedGrows DEF ConsentInv
  <2>5. ASSUME NEW from \in {"workspaces", "finish"}, NEW to, Goes(f, from, to)
        PROVE  <<page'[f].user, page'[f].request.client>> \in typed'
    BY <2>5, TypedGrows DEF ConsentInv, Goes
  <2>6. ASSUME Goes(f, "authenticate", "workspaces"),
               <<page[f].user, page[f].request.client>> \in typed'
        PROVE  <<page'[f].user, page'[f].request.client>> \in typed'
    BY <2>6 DEF Goes
  <2>7. CASE page'[f] # page[f]
    <3>1. \A to \in {"workspaces", "finish", "issue"} : \A from : Goes(f, from, to) => page'[f].pc = to
      BY DEF Goes
    <3> QED
      BY <2>2, <2>3, <2>4, <2>5, <2>6, <2>7, <3>1, PageOrigins
  <2> QED
    BY <2>1, <2>7
<1>3. ASSUME NEW f \in Forms, form'[f].pc # "idle"
      PROVE  FormPair(f)' \in typed'
  <2>1. CASE form'[f] = form[f]
    BY <1>3, <2>1, TypedGrows DEF ConsentInv, FormPair
  <2>2. CASE form'[f] # form[f]
    BY <1>3, <2>2, FormOfPage, TypedGrows DEF ConsentInv, FormPair
  <2> QED
    BY <2>1, <2>2
<1>4. ASSUME NEW g \in Grants, Born(g)'
      PROVE  Pair(g)' \in typed'
  <2>1. CASE Born(g)
    <3>1. Pair(g)' = Pair(g)
      BY <1>n, <2>1, GrantsStay DEF Pair
    <3> QED
      BY <2>1, <3>1, TypedGrows DEF ConsentInv, ConsentWasTyped, Born
  <2>2. CASE ~Born(g)
    <3> PICK f \in Forms :
          /\ form[f].pc = "grant"
          /\ grant'[g] = [state |-> "live", user |-> form[f].user,
                          client |-> form[f].client, offline |-> form[f].offline]
      BY <1>n, <1>4, <2>2, BornOfForm
    <3>1. FormPair(f) \in typed
      BY DEF ConsentInv
    <3>2. Pair(g)' = FormPair(f)
      BY DEF Pair, FormPair
    <3> QED
      BY <3>1, <3>2, TypedGrows
  <2> QED
    BY <2>1, <2>2
<1> QED
  BY <1>1, <1>2, <1>3, <1>4 DEF ConsentInv, ConsentWasTyped, Born

\* A grant is its user's own doing, whatever pages are posted in whichever tab:
\* the password of that person was typed on a page of that client.
THEOREM ConsentsWereTyped == AuthorizeSpec => []ConsentWasTyped
<1>1. ConsentInv => ConsentWasTyped
  BY DEF ConsentInv
<1>2. Inv /\ PagesPlaced /\ ConsentInv /\ [AuthorizeNext]_allVars => ConsentInv'
  BY ConsentTypedStep DEF Inv
<1> QED
  BY <1>1, <1>2, ConsentTypedInit, PagesInit, PagesStep, GrantsBehind, InvInductive, PTL
     DEF AuthorizeSpec

-----------------------------------------------------------------------------
(* What the registration bounds *)

\* A client's row allows a URI and a scope.
Covers(row, uri, o) == row.state # "free" /\ uri \in row.uris /\ (o => row.offline)

\* RegistrationBounds, with what makes it inductive: the policy allowed every
\* registered URI, and blobs, pages and consents under way stay in bounds too.
BoundsInv ==
  /\ \A c \in Clients : \A uri \in client[c].uris : CheckRedirectUri(uri)
  /\ \A request \in sealed : Covers(client[request.client], request.uri, request.offline)
  /\ \A f \in Forms :
       /\ page[f].pc # "idle" =>
            LET r == page[f].request
            IN  Covers(client[r.client], r.uri, r.offline)
       /\ form[f].pc # "idle" =>
            \E uri \in Uris : Covers(client[form[f].client], uri, form[f].offline)
  /\ \A to \in delivered : Covers(client[to[1]], to[2], FALSE)
  /\ \A g \in Grants : Born(g) =>
       /\ grant[g].client \in Clients
       /\ \E uri \in Uris : Covers(client[grant[g].client], uri, grant[g].offline)

LEMMA BoundsInit == AuthorizeInit => BoundsInv
  BY DEF AuthorizeInit, Init, BoundsInv, NoPage, IdleForm, NoGrant, Born

LEMMA CoversStays ==
  ASSUME PagesPlaced, [AuthorizeNext]_allVars, NEW c \in Clients, NEW uri, NEW o,
         Covers(client[c], uri, o)
  PROVE  Covers(client'[c], uri, o)
  BY ClientsStay DEF Covers

LEMMA BoundsStep ==
  Typed /\ Rooted /\ PagesPlaced /\ BoundsInv /\ [AuthorizeNext]_allVars => BoundsInv'
<1> SUFFICES ASSUME Typed, Rooted, PagesPlaced, BoundsInv, [AuthorizeNext]_allVars
             PROVE  BoundsInv'
  OBVIOUS
<1>n. [Next]_vars
  BY PagesImplement
<1>p. ASSUME NEW f \in Forms, page[f].pc # "idle"
      PROVE  /\ page[f].request.client \in Clients
             /\ Covers(client'[page[f].request.client], page[f].request.uri, page[f].request.offline)
  <2>1. page[f].request.client \in Clients
    BY <1>p DEF PagesPlaced, Processed, SealedRequest
  <2> QED
    BY <1>p, <2>1, CoversStays DEF BoundsInv
<1>1. \A c \in Clients : \A uri \in client'[c].uris : CheckRedirectUri(uri)
  BY ClientsStay DEF BoundsInv
<1>2. ASSUME NEW request \in sealed'
      PROVE  Covers(client'[request.client], request.uri, request.offline)
  <2>1. CASE request \in sealed
    <3>1. request.client \in Clients
      BY <2>1 DEF PagesPlaced, PagesTypeOK, SealedRequest
    <3> QED
      BY <2>1, <3>1, CoversStays DEF BoundsInv
  <2>2. CASE request \notin sealed
    <3> PICK f \in Forms :
           /\ page[f].pc \in {"seal", "workspaces"}
           /\ request.client = page[f].request.client /\ request.uri = page[f].request.uri
           /\ request.offline = page[f].request.offline
      BY <2>2, BlobOrigins
    <3> QED
      BY <1>p
  <2> QED
    BY <2>1, <2>2
<1>3. ASSUME NEW f \in Forms, page'[f].pc # "idle"
      PROVE  Covers(client'[page'[f].request.client], page'[f].request.uri, page'[f].request.offline)
  <2>1. CASE page'[f] = page[f]
    BY <1>3, <1>p, <2>1
  <2>2. CASE page'[f] = NoPage
    BY <1>3, <2>2 DEF NoPage
  <2>3. ASSUME NEW c \in Clients, NEW uri \in Uris, NEW o \in Offline,
               ValidateAuthorizeRequest(c, uri, o), page'[f].request = LoginRequest(c, uri, o)
        PROVE  Covers(client'[page'[f].request.client], page'[f].request.uri, page'[f].request.offline)
    <3>1. Covers(client[c], uri, o)
      BY <2>3 DEF ValidateAuthorizeRequest, MatchesRegistered, Covers
    <3>2. Covers(client'[c], uri, o)
      BY <3>1, CoversStays
    <3> QED
      BY <2>3, <3>2 DEF LoginRequest
  <2>4. ASSUME NEW request \in sealed, page'[f].request = request
        PROVE  Covers(client'[page'[f].request.client], page'[f].request.uri, page'[f].request.offline)
    <3>1. request.client \in Clients
      BY DEF PagesPlaced, PagesTypeOK, SealedRequest
    <3> QED
      BY <2>4, <3>1, CoversStays DEF BoundsInv
  <2>5. ASSUME NEW from \in {"authenticate", "workspaces", "finish"}, NEW to, Goes(f, from, to)
        PROVE  Covers(client'[page'[f].request.client], page'[f].request.uri, page'[f].request.offline)
    BY <1>p, <2>5 DEF Goes
  <2> QED
    BY <2>1, <2>2, <2>3, <2>4, <2>5, PageOrigins
<1>4. ASSUME NEW f \in Forms, form'[f].pc # "idle"
      PROVE  \E uri \in Uris : Covers(client'[form'[f].client], uri, form'[f].offline)
  <2>1. ASSUME form[f].pc # "idle", form'[f].client = form[f].client,
               form'[f].offline = form[f].offline
        PROVE  \E uri \in Uris : Covers(client'[form'[f].client], uri, form'[f].offline)
    <3>1. form[f].client \in Clients
      BY <2>1 DEF Typed, Placed
    <3>2. PICK uri \in Uris : Covers(client[form[f].client], uri, form[f].offline)
      BY <2>1 DEF BoundsInv
    <3>3. Covers(client'[form[f].client], uri, form[f].offline)
      BY <3>1, <3>2, CoversStays
    <3> QED
      BY <2>1, <3>3
  <2>2. ASSUME page[f].pc = "finish", form'[f].client = page[f].request.client,
               form'[f].offline = page[f].request.offline
        PROVE  \E uri \in Uris : Covers(client'[form'[f].client], uri, form'[f].offline)
    <3>1. page[f].request.uri \in Uris
      BY <2>2 DEF PagesPlaced, Processed, SealedRequest
    <3> QED
      BY <1>p, <2>2, <3>1
  <2> QED
    BY <1>4, <2>1, <2>2, FormOfPage
<1>5. ASSUME NEW to \in delivered'
      PROVE  Covers(client'[to[1]], to[2], FALSE)
  <2>1. CASE to \in delivered
    <3>1. to[1] \in Clients
      BY <2>1 DEF PagesPlaced, PagesTypeOK
    <3> QED
      BY <2>1, <3>1, CoversStays DEF BoundsInv
  <2>2. CASE to \notin delivered
    <3>1. PICK f \in Forms : IssueCode(f)
      BY <2>2 DEF AuthorizeNext, PageStep, allVars, pages, RegisterClient, DisableClient,
         Authorize, LoginPage, PostPassword, PostConsent, Authenticate, OfferWorkspaces, Finish,
         FailPage, ExpireSealed
    <3>2. page[f].pc = "issue" /\ to = <<page[f].request.client, page[f].request.uri>>
      BY <2>2, <3>1 DEF IssueCode
    <3>3. Covers(client'[page[f].request.client], page[f].request.uri, page[f].request.offline)
      BY <1>p, <3>2
    <3> QED
      BY <3>2, <3>3 DEF Covers
  <2> QED
    BY <2>1, <2>2
<1>6. ASSUME NEW g \in Grants, Born(g)'
      PROVE  /\ grant'[g].client \in Clients
             /\ \E uri \in Uris : Covers(client'[grant'[g].client], uri, grant'[g].offline)
  <2>1. CASE Born(g)
    <3>1. grant'[g].client = grant[g].client /\ grant'[g].offline = grant[g].offline
      BY <1>n, <2>1, GrantsStay
    <3>2. grant[g].client \in Clients
      BY <2>1 DEF BoundsInv
    <3>3. PICK uri \in Uris : Covers(client[grant[g].client], uri, grant[g].offline)
      BY <2>1 DEF BoundsInv
    <3>4. Covers(client'[grant[g].client], uri, grant[g].offline)
      BY <3>2, <3>3, CoversStays
    <3> QED
      BY <3>1, <3>2, <3>4
  <2>2. CASE ~Born(g)
    <3> PICK f \in Forms :
          /\ form[f].pc = "grant"
          /\ grant'[g] = [state |-> "live", user |-> form[f].user,
                          client |-> form[f].client, offline |-> form[f].offline]
      BY <1>n, <1>6, <2>2, BornOfForm
    <3>1. grant'[g].client = form[f].client /\ grant'[g].offline = form[f].offline
      OBVIOUS
    <3>2. form[f].client \in Clients
      BY DEF Typed, Placed
    <3>3. PICK uri \in Uris : Covers(client[form[f].client], uri, form[f].offline)
      BY DEF BoundsInv
    <3>4. Covers(client'[form[f].client], uri, form[f].offline)
      BY <3>2, <3>3, CoversStays
    <3> QED
      BY <3>1, <3>2, <3>4
  <2> QED
    BY <2>1, <2>2
<1> QED
  BY <1>1, <1>2, <1>3, <1>4, <1>5, <1>6 DEF BoundsInv, Born

\* Codes go only where their client said when it registered, which the policy
\* allowed, and no grant is wider than the registration: the server's own checks
\* between registration and code, all made on data that travelled through
\* browsers, lose neither.
THEOREM RegistrationsBound == AuthorizeSpec => []RegistrationBounds
<1>1. PagesPlaced /\ BoundsInv => RegistrationBounds
  <2> SUFFICES ASSUME PagesPlaced, BoundsInv PROVE RegistrationBounds
    OBVIOUS
  <2>1. \A to \in delivered : to[1] \in Clients
    BY DEF PagesPlaced, PagesTypeOK
  <2> QED
    BY <2>1 DEF BoundsInv, RegistrationBounds, Covers, Born
<1>2. Inv /\ PagesPlaced /\ BoundsInv /\ [AuthorizeNext]_allVars => BoundsInv'
  BY BoundsStep DEF Inv
<1> QED
  BY <1>1, <1>2, BoundsInit, PagesInit, PagesStep, GrantsBehind, InvInductive, PTL
     DEF AuthorizeSpec

-----------------------------------------------------------------------------
(* Behind the pages *)

\* What is proved of the grants holds behind the pages: whatever is posted in
\* whatever order, in however many tabs, beside the token endpoint, revocation and
\* deactivation, reuse cuts a grant off for good, with at most one notice, chains
\* stay whole, and a person hears of every client let in.
THEOREM GrantsHoldBehindThePages ==
  AuthorizeSpec =>
    [](CaughtIsCutOff /\ AlarmIsForTheCut /\ ChainIntegrity /\ SoleChain /\ LetInIsAnnounced)
  BY GrantsBehind, CaughtAreCutOff, AlarmsAreForTheCut, ChainsHold, ChainsAreSole, LetInAreAnnounced, PTL

\* The pages, the token endpoint and the account changes together implement
\* StandingConsent: nobody may ask for a session on an ended consent.
THEOREM ConsentHoldsBehindThePages == AuthorizeSpec => ImplementsConsent
  BY GrantsBehind, ConsentImplemented
==============================================================================

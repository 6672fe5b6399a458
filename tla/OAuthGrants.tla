----------------------------- MODULE OAuthGrants -----------------------------
(***************************************************************************)
(* The life of an OAuth grant: consent (issueCode), the token endpoint     *)
(* (exchangeCode, refresh, issueTokens), revocation (revokeGrant,          *)
(* revokeByToken) and the exchange of an access token for an internal      *)
(* session (exchangeForInternalToken).                                     *)
(*                                                                         *)
(* A handler is a process that stops at every `await` on the database;     *)
(* what it read before is kept in its record and may be stale when it goes *)
(* on.  Each Prisma call is one atomic step, none of them is inside a      *)
(* transaction.  One code is written per grant, so a code is named by its  *)
(* grant; secrets, PKCE and redirect URIs are abstracted to "the caller    *)
(* presents what it should" or not.                                        *)
(***************************************************************************)
EXTENDS Naturals, FiniteSets

CONSTANTS
  Users,    \* User ids
  Clients,  \* OAuthClient ids
  Grants,   \* the grant ids ever drawn (a bound on consents)
  Tokens,   \* the refresh tokens ever drawn (a bound on rotations)
  Forms,    \* consent forms being processed at once
  Reqs,     \* token requests being processed at once
  Offline,  \* the values "the scope holds offline_access" may take
  None      \* no id

ASSUME NoneIsNoId == None \notin Users \cup Clients \cup Grants \cup Tokens
ASSUME OfflineIsBoolean == Offline \subseteq BOOLEAN

VARIABLES
  user,      \* [Users -> state of the User row]
  grant,     \* [Grants -> OAuthGrant row]
  code,      \* [Grants -> state of the grant's OAuthAuthorizationCode row]
  token,     \* [Tokens -> OAuthRefreshToken row]
  form,      \* [Forms -> issueCode in progress]
  req,       \* [Reqs -> token request in progress]
  held,      \* the refresh tokens a client received
  access,    \* the grants with an unexpired access token at a client
  session,   \* the grants with an unexpired internal session minted from them
  (* history, read by properties only *)
  redeemed,  \* [Grants -> token answers given for the grant's code]
  caught,    \* the grants of codes and tokens found used before
  cutBy,     \* [Grants -> who revoked it]
  alarms,    \* [Grants -> notices of a forced revocation started]
  muted,     \* the grants whose forced revocation died before its notice
  announced, \* the <<user, client>> pairs with a notice of access granted
  lapsed,    \* the pairs with a consent that died after writing its grant
  disturbed  \* the grants whose token requests overlapped or died half-way

rows    == <<user, grant, code, token>>
handlers == <<form, req>>
wallets == <<held, access, session>>
history == <<redeemed, caught, cutBy, alarms, muted, announced, lapsed, disturbed>>
vars == <<rows, handlers, wallets, history>>

-----------------------------------------------------------------------------
(* Rows and handlers *)

GrantRow ==
  [state : {"free", "live", "revoked", "gone"},
   user : Users \cup {None}, client : Clients \cup {None}, offline : BOOLEAN]

TokenRow ==
  [state : {"free", "fresh", "expired", "used", "gone"},
   grant : Grants \cup {None}, replacedBy : Tokens \cup {None}]

\* consumedAt is looked at before expiresAt, so a consumed code is just consumed.
CodeState == {"none", "fresh", "expired", "consumed", "gone"}

FormRecord ==
  [pc : {"idle", "find", "grant", "code"},
   user : Users \cup {None}, client : Clients \cup {None}, offline : BOOLEAN,
   known : BOOLEAN, grant : Grants \cup {None}]

\* "cut": about to revoke; "tell": has revoked, about to start the notice;
\* "consume": about to spend the code; "issue", "store" and "touch": in issueTokens;
\* "spend": about to mark the old refresh token; "account": about to read the user.
ReqRecord ==
  [pc : {"idle", "cut", "tell", "consume", "issue", "store", "touch", "spend", "account"},
   grant : Grants \cup {None}, old : Tokens \cup {None}, new : Tokens \cup {None}]

NoGrant == [state |-> "free", user |-> None, client |-> None, offline |-> FALSE]
NoToken == [state |-> "free", grant |-> None, replacedBy |-> None]
IdleForm == [pc |-> "idle", user |-> None, client |-> None, offline |-> FALSE,
             known |-> FALSE, grant |-> None]
IdleReq == [pc |-> "idle", grant |-> None, old |-> None, new |-> None]

Live(g) == grant[g].state = "live"
Exists(g) == grant[g].state \in {"live", "revoked"}
Pair(g) == <<grant[g].user, grant[g].client>>

\* Token requests past their checks, on their way to an answer with tokens.
Issuing == {"consume", "issue", "store", "touch", "spend"}
Busy(g) == \E r \in Reqs : req[r].grant = g /\ req[r].pc \in Issuing

TypeOK ==
  /\ user \in [Users -> {"active", "inactive", "deleted"}]
  /\ grant \in [Grants -> GrantRow]
  /\ code \in [Grants -> CodeState]
  /\ token \in [Tokens -> TokenRow]
  /\ form \in [Forms -> FormRecord]
  /\ req \in [Reqs -> ReqRecord]
  /\ held \subseteq Tokens
  /\ access \subseteq Grants
  /\ session \subseteq Grants
  /\ redeemed \in [Grants -> Nat]
  /\ caught \subseteq Grants
  /\ cutBy \in [Grants -> {"nobody", "server", "holder"}]
  /\ alarms \in [Grants -> Nat]
  /\ muted \subseteq Grants
  /\ announced \subseteq Users \X Clients
  /\ lapsed \subseteq Users \X Clients
  /\ disturbed \subseteq Grants

Init ==
  /\ user = [u \in Users |-> "active"]
  /\ grant = [g \in Grants |-> NoGrant]
  /\ code = [g \in Grants |-> "none"]
  /\ token = [t \in Tokens |-> NoToken]
  /\ form = [f \in Forms |-> IdleForm]
  /\ req = [r \in Reqs |-> IdleReq]
  /\ held = {} /\ access = {} /\ session = {}
  /\ redeemed = [g \in Grants |-> 0]
  /\ caught = {}
  /\ cutBy = [g \in Grants |-> "nobody"]
  /\ alarms = [g \in Grants |-> 0]
  /\ muted = {} /\ announced = {} /\ lapsed = {} /\ disturbed = {}

-----------------------------------------------------------------------------
(* Consent: issueCode *)

\* assertWorkspaceAllowed passed: the account is active and hr-api, whose
\* answer is its own, listed the workspace.
AllowWorkspace(f, u, c, o) ==
  /\ form[f].pc = "idle"
  /\ user[u] = "active"
  /\ form' = [form EXCEPT ![f] = [IdleForm EXCEPT !.pc = "find", !.user = u,
                                                  !.client = c, !.offline = o]]
  /\ UNCHANGED <<rows, req, wallets, history>>

\* alreadyConnected
FindLiveGrant(f) ==
  /\ form[f].pc = "find"
  /\ form' = [form EXCEPT ![f] = [@ EXCEPT
       !.pc = "grant",
       !.known = \E g \in Grants : Live(g) /\ Pair(g) = <<form[f].user, form[f].client>>]]
  /\ UNCHANGED <<rows, req, wallets, history>>

\* Mutant: alreadyConnected is asked after the grant is written, and finds it.
CreateGrantThenLook(f) ==
  /\ form[f].pc = "grant" /\ user[form[f].user] # "deleted"
  /\ \E g \in Grants :
       /\ grant[g].state = "free"
       /\ grant' = [grant EXCEPT ![g] =
                      [state |-> "live", user |-> form[f].user,
                       client |-> form[f].client, offline |-> form[f].offline]]
       /\ form' = [form EXCEPT ![f] = [@ EXCEPT !.pc = "code", !.grant = g, !.known = TRUE]]
  /\ UNCHANGED <<user, code, token, req, wallets, history>>

\* A user deleted meanwhile fails the foreign key, and with it the request.
CreateGrant(f) ==
  /\ form[f].pc = "grant"
  /\ \/ /\ user[form[f].user] = "deleted"
        /\ form' = [form EXCEPT ![f] = IdleForm]
        /\ UNCHANGED grant
     \/ /\ user[form[f].user] # "deleted"
        /\ \E g \in Grants :
             /\ grant[g].state = "free"
             /\ grant' = [grant EXCEPT ![g] =
                            [state |-> "live", user |-> form[f].user,
                             client |-> form[f].client, offline |-> form[f].offline]]
             /\ form' = [form EXCEPT ![f] = [@ EXCEPT !.pc = "code", !.grant = g]]
  /\ UNCHANGED <<user, code, token, req, wallets, history>>

\* The code is written and, for a client not yet connected, the notice started.
\* A crash between the two leaves a code nobody was given, which cannot be told
\* from no code at all.
CreateCode(f) ==
  LET g == form[f].grant
      pair == <<form[f].user, form[f].client>>
  IN /\ form[f].pc = "code"
     /\ form' = [form EXCEPT ![f] = IdleForm]
     /\ \/ /\ Exists(g)
           /\ code' = [code EXCEPT ![g] = "fresh"]
           /\ announced' = IF form[f].known THEN announced ELSE announced \cup {pair}
           /\ UNCHANGED lapsed
        \/ /\ ~Exists(g)
           /\ lapsed' = lapsed \cup {pair}
           /\ UNCHANGED <<code, announced>>
     /\ UNCHANGED <<user, grant, token, req, wallets,
                    redeemed, caught, cutBy, alarms, muted, disturbed>>

\* The process dies, or a database call fails, while the form is processed.
FailForm(f) ==
  /\ form[f].pc # "idle"
  /\ form' = [form EXCEPT ![f] = IdleForm]
  /\ lapsed' = IF form[f].pc = "code"
               THEN lapsed \cup {<<form[f].user, form[f].client>>} ELSE lapsed
  /\ UNCHANGED <<rows, req, wallets, redeemed, caught, cutBy, alarms, muted, announced, disturbed>>

-----------------------------------------------------------------------------
(* The token endpoint *)

\* Request r, past its checks, goes on with grant g and refresh token t.
Proceed(r, g, t, pc) ==
  /\ req' = [req EXCEPT ![r] = [IdleReq EXCEPT !.pc = pc, !.grant = g, !.old = t]]
  /\ disturbed' = IF Busy(g) /\ pc \in Issuing THEN disturbed \cup {g} ELSE disturbed
  /\ UNCHANGED <<rows, form, wallets, redeemed, caught, cutBy, alarms, muted, announced, lapsed>>

\* A spent code revokes before anything else is looked at.  Otherwise it must be
\* unexpired, presented by its client with its redirect URI and verifier, and on
\* a grant that was live when both rows were read; else the request is refused.
ExchangeCode(r, g) ==
  /\ req[r].pc = "idle"
  /\ \/ code[g] = "consumed" /\ Proceed(r, g, None, "cut")
     \/ code[g] = "fresh" /\ Live(g) /\ Proceed(r, g, None, "consume")
     \/ code[g] # "consumed" /\ UNCHANGED vars

\* The same order for a refresh token.
Refresh(r, t) ==
  LET g == token[t].grant
  IN /\ req[r].pc = "idle"
     /\ t \in held
     /\ \/ token[t].state = "used" /\ Proceed(r, g, t, "cut")
        \/ token[t].state = "fresh" /\ Live(g) /\ Proceed(r, g, t, "issue")
        \/ token[t].state # "used" /\ UNCHANGED vars

\* Request r ends without tokens.
Refuse(r) ==
  /\ req' = [req EXCEPT ![r] = IdleReq]
  /\ UNCHANGED <<rows, form, wallets, history>>

\* Mutant: the code gets the mark of a spent refresh token.
ConsumeCodeAsUsed(r) ==
  /\ req[r].pc = "consume"
  /\ code' = [code EXCEPT ![req[r].grant] = "used"]
  /\ req' = [req EXCEPT ![r].pc = "issue"]
  /\ UNCHANGED <<user, grant, token, form, wallets, history>>

\* The update names the code by its hash only: it does not ask that the code is
\* still unspent, and fails only if the row is gone.
ConsumeCode(r) ==
  LET g == req[r].grant
  IN /\ req[r].pc = "consume"
     /\ \/ code[g] = "gone" /\ Refuse(r)
        \/ /\ code[g] # "gone"
           /\ code' = [code EXCEPT ![g] = "consumed"]
           /\ req' = [req EXCEPT ![r].pc = "issue"]
           /\ UNCHANGED <<user, grant, token, form, wallets, history>>

\* issueTokens reads the grant again, with its user.  It asks that both exist
\* and that the account is active, not that the grant is unrevoked.
LoadGrant(r) ==
  LET g == req[r].grant
      ok == Exists(g) /\ user[grant[g].user] = "active"
  IN /\ req[r].pc = "issue"
     /\ \/ ~ok /\ Refuse(r)
        \/ /\ ok
           /\ req' = [req EXCEPT ![r].pc = IF grant[g].offline THEN "store" ELSE "touch"]
           /\ UNCHANGED <<rows, form, wallets, history>>

StoreRefreshToken(r) ==
  LET g == req[r].grant
  IN /\ req[r].pc = "store"
     /\ \/ ~Exists(g) /\ Refuse(r)
        \/ /\ Exists(g)
           /\ \E t \in Tokens :
                /\ token[t].state = "free"
                /\ token' = [token EXCEPT ![t] =
                               [state |-> "fresh", grant |-> g, replacedBy |-> None]]
                /\ req' = [req EXCEPT ![r] = [@ EXCEPT !.pc = "touch", !.new = t]]
           /\ UNCHANGED <<user, grant, code, form, wallets, history>>

\* The tokens go out; the answer may be lost on the way.
Answer(r) ==
  LET g == req[r].grant
      new == {req[r].new} \ {None}
  IN /\ req' = [req EXCEPT ![r] = IdleReq]
     /\ \/ held' = held \cup new /\ access' = access \cup {g}
        \/ UNCHANGED <<held, access>>
     /\ redeemed' = IF req[r].old = None
                    THEN [redeemed EXCEPT ![g] = @ + 1] ELSE redeemed
     /\ UNCHANGED <<form, session, caught, cutBy, alarms, muted, announced, lapsed, disturbed>>

\* Mutant: the whole row is written back as issueTokens read it, revokedAt included.
TouchGrantWithStaleRow(r) ==
  /\ req[r].pc = "touch"
  /\ Exists(req[r].grant)
  /\ grant' = [grant EXCEPT ![req[r].grant].state = "live"]
  /\ req' = [req EXCEPT ![r] = IdleReq]
  /\ UNCHANGED <<user, code, token, form, wallets, history>>

\* grant.lastUsedAt is written; a code exchange is then answered.
TouchGrant(r) ==
  LET g == req[r].grant
  IN /\ req[r].pc = "touch"
     /\ \/ ~Exists(g) /\ Refuse(r)
        \/ Exists(g) /\ req[r].old = None /\ Answer(r) /\ UNCHANGED rows
        \/ /\ Exists(g) /\ req[r].old # None
           /\ req' = [req EXCEPT ![r].pc = "spend"]
           /\ UNCHANGED <<rows, form, wallets, history>>

\* Mutants: the presented hash is stored as its own replacement; usedAt is left out.
SpendRefreshTokenBySelf(r) ==
  /\ req[r].pc = "spend"
  /\ token' = [token EXCEPT ![req[r].old] = [@ EXCEPT !.state = "used",
                                                         !.replacedBy = req[r].old]]
  /\ UNCHANGED <<user, grant, code>>
  /\ Answer(r)

SpendRefreshTokenUnmarked(r) ==
  /\ req[r].pc = "spend"
  /\ token' = [token EXCEPT ![req[r].old].replacedBy = req[r].new]
  /\ UNCHANGED <<user, grant, code>>
  /\ Answer(r)

\* usedAt and replacedBy of the presented token, named by its hash only.
SpendRefreshToken(r) ==
  LET t == req[r].old
  IN /\ req[r].pc = "spend"
     /\ \/ token[t].state = "gone" /\ Refuse(r)
        \/ /\ token[t].state # "gone"
           /\ token' = [token EXCEPT ![t] = [@ EXCEPT !.state = "used", !.replacedBy = req[r].new]]
           /\ UNCHANGED <<user, grant, code>>
           /\ Answer(r)

\* The process dies, a database call fails or its answer is lost, while the
\* request is processed: between a revocation and its notice too.
FailReq(r) ==
  /\ req[r].pc # "idle"
  /\ req' = [req EXCEPT ![r] = IdleReq]
  /\ muted' = IF req[r].pc = "tell" THEN muted \cup {req[r].grant} ELSE muted
  /\ disturbed' = IF req[r].pc \in Issuing THEN disturbed \cup {req[r].grant} ELSE disturbed
  /\ UNCHANGED <<rows, form, wallets, redeemed, caught, cutBy, alarms, announced, lapsed>>

-----------------------------------------------------------------------------
(* Revocation *)

\* Only the call that found revokedAt null changes the row.
RevokeGrant(g, who) ==
  /\ grant' = IF Live(g) THEN [grant EXCEPT ![g].state = "revoked"] ELSE grant
  /\ cutBy' = IF Live(g) THEN [cutBy EXCEPT ![g] = who] ELSE cutBy

\* A replayed code or a reused refresh token, found by the read before, is
\* revoked, and the request goes on to the notice if `tell` says so.
CutAndTellIf(r, tell) ==
  LET g == req[r].grant
  IN /\ req[r].pc = "cut"
     /\ RevokeGrant(g, "server")
     /\ caught' = caught \cup {g}
     /\ req' = [req EXCEPT ![r] = IF tell THEN [@ EXCEPT !.pc = "tell"] ELSE IdleReq]
     /\ UNCHANGED <<user, code, token, form, wallets, redeemed, alarms, muted,
                    announced, lapsed, disturbed>>

\* Mutant: the notice does not wait for the count of rows changed.
CutGrantTellingAlways(r) == CutAndTellIf(r, TRUE)

\* Only the call that changed the row tells the person.
CutGrant(r) == CutAndTellIf(r, Live(req[r].grant))

\* The update has been answered; the notice starts and is not awaited.
NoticeAccessRevoked(r) ==
  /\ req[r].pc = "tell"
  /\ alarms' = [alarms EXCEPT ![req[r].grant] = @ + 1]
  /\ req' = [req EXCEPT ![r] = IdleReq]
  /\ UNCHANGED <<rows, form, wallets, redeemed, caught, cutBy, muted,
                 announced, lapsed, disturbed>>

\* RFC 7009, with a refresh token (used and expired ones too) or an unexpired
\* access token: nobody is told.  The grant a token belongs to never changes, so
\* finding it and revoking it are one step.
RevokeByToken(g) ==
  /\ \/ g \in access
     \/ \E t \in held : token[t].grant = g /\ token[t].state # "gone"
  /\ RevokeGrant(g, "holder")
  /\ UNCHANGED <<user, code, token, handlers, wallets,
                 redeemed, caught, alarms, muted, announced, lapsed, disturbed>>

-----------------------------------------------------------------------------
(* The internal exchange, accounts and time *)

\* Mutant: revokedAt is not looked at.
ExchangeOfRevoked(r, g) ==
  /\ req[r].pc = "idle"
  /\ g \in access /\ Exists(g)
  /\ Proceed(r, g, None, "account")

\* The grant is read first, and its user by a query of its own; of the grant only
\* what was read is looked at.
ExchangeForInternalToken(r, g) ==
  /\ req[r].pc = "idle"
  /\ g \in access /\ Live(g)
  /\ Proceed(r, g, None, "account")

\* The user is read; of an active account the session is signed.
OpenSession(r) ==
  LET g == req[r].grant
  IN /\ req[r].pc = "account"
     /\ req' = [req EXCEPT ![r] = IdleReq]
     /\ session' = IF user[grant[g].user] = "active" THEN session \cup {g} ELSE session
     /\ UNCHANGED <<rows, form, held, access, history>>

DeactivateUser(u) ==
  /\ user[u] = "active"
  /\ user' = [user EXCEPT ![u] = "inactive"]
  /\ UNCHANGED <<grant, code, token, handlers, wallets, history>>

ReactivateUser(u) ==
  /\ user[u] = "inactive"
  /\ user' = [user EXCEPT ![u] = "active"]
  /\ UNCHANGED <<grant, code, token, handlers, wallets, history>>

\* onDelete: Cascade takes the grants, their codes and their refresh tokens.
DeleteUser(u) ==
  LET dead == {g \in Grants : grant[g].user = u}
  IN /\ user[u] # "deleted"
     /\ user' = [user EXCEPT ![u] = "deleted"]
     /\ grant' = [g \in Grants |->
                    IF g \in dead THEN [grant[g] EXCEPT !.state = "gone"] ELSE grant[g]]
     /\ code' = [g \in Grants |->
                   IF g \in dead /\ code[g] # "none" THEN "gone" ELSE code[g]]
     /\ token' = [t \in Tokens |->
                    IF token[t].grant \in dead THEN [token[t] EXCEPT !.state = "gone"]
                    ELSE token[t]]
     /\ UNCHANGED <<handlers, wallets, history>>

ExpireCode(g) ==
  /\ code[g] = "fresh"
  /\ code' = [code EXCEPT ![g] = "expired"]
  /\ UNCHANGED <<user, grant, token, handlers, wallets, history>>

ExpireRefreshToken(t) ==
  /\ token[t].state = "fresh"
  /\ token' = [token EXCEPT ![t].state = "expired"]
  /\ UNCHANGED <<user, grant, code, handlers, wallets, history>>

ExpireAccessToken(g) ==
  /\ g \in access
  /\ access' = access \ {g}
  /\ UNCHANGED <<rows, handlers, held, session, history>>

ExpireSession(g) ==
  /\ g \in session
  /\ session' = session \ {g}
  /\ UNCHANGED <<rows, handlers, held, access, history>>

-----------------------------------------------------------------------------

FormStep(f) ==
  FindLiveGrant(f) \/ CreateGrant(f) \/ CreateCode(f)

ReqStep(r) ==
  \/ ConsumeCode(r) \/ LoadGrant(r) \/ StoreRefreshToken(r)
  \/ TouchGrant(r) \/ SpendRefreshToken(r)
  \/ CutGrant(r) \/ NoticeAccessRevoked(r) \/ OpenSession(r)

Next ==
  \/ \E f \in Forms :
       \/ \E u \in Users, c \in Clients, o \in Offline : AllowWorkspace(f, u, c, o)
       \/ FormStep(f)
       \/ FailForm(f)
  \/ \E r \in Reqs :
       \/ \E g \in Grants : ExchangeCode(r, g) \/ ExchangeForInternalToken(r, g)
       \/ \E t \in Tokens : Refresh(r, t)
       \/ ReqStep(r)
       \/ FailReq(r)
  \/ \E u \in Users : DeactivateUser(u) \/ ReactivateUser(u) \/ DeleteUser(u)
  \/ \E g \in Grants :
       \/ RevokeByToken(g)
       \/ ExpireCode(g) \/ ExpireAccessToken(g) \/ ExpireSession(g)
  \/ \E t \in Tokens : ExpireRefreshToken(t)

Spec == Init /\ [][Next]_vars

\* Time passes: a session JWT lives internalTokenTtlSec.  Nothing is assumed of
\* handlers and clients.
Fairness == \A g \in Grants : WF_vars(ExpireSession(g))

LiveSpec == Spec /\ Fairness

-----------------------------------------------------------------------------
(* Properties *)

\* A spent refresh token names the token issued in its place, a token of the
\* same grant; only grants with offline access have refresh tokens at all; and
\* nobody holds a refresh token that has no row behind it (refresh, issueTokens).
ChainIntegrity ==
  /\ \A t \in Tokens : token[t].state \in {"fresh", "expired", "used"} =>
       token[t].grant \in Grants /\ grant[token[t].grant].offline
  /\ \A t \in Tokens : token[t].state = "used" =>
       /\ token[t].replacedBy \in Tokens \ {t}
       /\ token[token[t].replacedBy].grant = token[t].grant
  /\ \A t \in held : token[t].state # "free"

\* Whoever was told "already used" left no live grant behind, whatever ran
\* beside it and whatever runs later (the theft rules of exchangeCode, refresh).
CaughtIsCutOff ==
  \A g \in caught : ~Live(g)

\* The request that cut g off has yet to start the notice.
Telling(g) == \E r \in Reqs : req[r].pc = "tell" /\ req[r].grant = g

\* A person is told of a cut-off at most once, and of one the server made on its
\* own only.  Of each of those the person is told, or is about to be, however many
\* replays raced for it, unless the very request that made it died before the
\* notice; and nothing but those and the holder's own revocations ends a grant
\* (revokeGrant).
AlarmIsForTheCut ==
  \A g \in Grants :
    /\ alarms[g] = 0 \/ (alarms[g] = 1 /\ cutBy[g] = "server" /\ ~Telling(g) /\ g \notin muted)
    /\ cutBy[g] = "server" /\ alarms[g] = 0 => Telling(g) \/ g \in muted
    /\ cutBy[g] = "nobody" => grant[g].state # "revoked"
    /\ Live(g) => cutBy[g] = "nobody"

Unspent(t, g) ==
  token[t].grant = g /\ token[t].state \in {"fresh", "expired"}

\* If the token requests of a grant neither overlapped nor died half-way, its
\* code bought tokens at most once, and it has one unspent refresh token, or two
\* while the request replacing one by the other is still at work.
SoleChain ==
  \A g \in Grants \ disturbed :
    /\ redeemed[g] <= 1
    /\ \A t1, t2 \in Tokens :
         Unspent(t1, g) /\ Unspent(t2, g) /\ t1 # t2 =>
           \E r \in Reqs : {req[r].old, req[r].new} = {t1, t2}

\* Some form will start the notice of access granted for this pair.
WillAnnounce(pair) ==
  \E f \in Forms :
    form[f].pc = "code" /\ ~form[f].known /\ <<form[f].user, form[f].client>> = pair

\* A client that was given a code for a person was announced to the person, or
\* is about to be, unless some consent of theirs died after writing its grant.
LetInIsAnnounced ==
  \A g \in Grants : code[g] # "none" =>
    Pair(g) \in announced \cup lapsed \/ WillAnnounce(Pair(g))

\* What a consent promises, implemented: the mapping.
ConsentState(g) ==
  CASE grant[g].state = "free" -> "none"
    [] grant[g].state = "live" -> "given"
    [] grant[g].state = "revoked" -> "revoked"
    [] grant[g].state = "gone" -> "gone"

Consent == INSTANCE StandingConsent WITH
  consent <- [g \in Grants |-> ConsentState(g)],
  active <- {g \in Grants : Exists(g) /\ user[grant[g].user] = "active"},
  asked <- {g \in Grants : \E r \in Reqs : req[r].pc = "account" /\ req[r].grant = g},
  session <- session

\* Revoking a grant, or deleting its user, ends it for good, and an internal
\* session opens only on an exchange that found the grant unrevoked, while the
\* account is active (exchangeForInternalToken).
ImplementsConsent == Consent!Spec

\* After a revocation every internal session of the grant lapses, and none is
\* ever opened again: the cut-off is complete without recalling anything.
RevocationCompletes ==
  \A g \in Grants : [](grant[g].state = "revoked" => <>[](g \notin session))

\* schema.prisma: "A one-time authorization code."
OneTimeCode ==
  \A g \in Grants : redeemed[g] <= 1

\* schema.prisma: "A rotating refresh token. Only ever one live token per chain."
\* (A chain: the tokens of a live grant whose code bought tokens once.)
OneLiveToken ==
  \A t1, t2 \in held :
    /\ token[t1].state = "fresh" /\ token[t2].state = "fresh"
    /\ token[t1].grant = token[t2].grant
    /\ Live(token[t1].grant) /\ redeemed[token[t1].grant] = 1
    => t1 = t2

\* issueCode: "A notice for a client this person has not already let in."
FirstAccessIsAnnounced ==
  \A g \in Grants : redeemed[g] > 0 =>
    Pair(g) \in announced \/ WillAnnounce(Pair(g))
=============================================================================

---------------------------- MODULE OAuthAuthorize ----------------------------
(***************************************************************************)
(* Client registration and the pages of /oauth/authorize, composed with    *)
(* the grants: what may begin an issueCode, which OAuthGrants leaves open. *)
(* The server keeps no session: a validated request is sealed into a blob  *)
(* the page posts back, and the blob of the workspace page names who typed *)
(* the password.  Sealed blobs are not used up: any page may be posted     *)
(* again, in another tab, until the blob expires.                          *)
(***************************************************************************)
EXTENDS OAuthGrants

CONSTANTS
  Uris,                   \* redirect URIs, parsed
  AllowLoopbackRedirects, \* config.allowLoopbackRedirects
  MaxSealed               \* a bound on the blobs in browsers at once

\* A URI, as far as the policy looks at it; `path` tells those apart it does not.
Uri == [scheme : {"https", "http", "other"}, host : {"permitted", "loopback", "foreign"},
        hash : BOOLEAN, path : Nat]

ASSUME UrisAreUris == Uris \subseteq Uri
ASSUME AllowLoopbackIsBoolean == AllowLoopbackRedirects \in BOOLEAN
ASSUME MaxSealedIsNat == MaxSealed \in Nat

VARIABLES
  client,     \* [Clients -> OAuthClient row]
  sealed,     \* the unexpired sealed requests in people's browsers
  page,       \* [Forms -> GET or POST /oauth/authorize in progress]
  (* history, read by properties only *)
  typed,      \* the <<user, client>> pairs of a right password on the client's page
  delivered   \* the <<client, uri>> pairs a code was sent to

pages == <<client, sealed, page, typed, delivered>>
allVars == <<vars, pages>>

ClientRow == [state : {"free", "registered", "disabled"}, uris : SUBSET Uris, offline : BOOLEAN]

\* AuthorizeRequest & { userId }: state, challenge and resource are the client's.
SealedRequest ==
  [client : Clients, uri : Uris, offline : BOOLEAN, user : Users \cup {None}]

PageRecord ==
  [pc : {"idle", "seal", "authenticate", "workspaces", "finish", "issue"},
   request : SealedRequest \cup {None}, user : Users \cup {None}]

NoPage == [pc |-> "idle", request |-> None, user |-> None]

PagesTypeOK ==
  /\ client \in [Clients -> ClientRow]
  /\ sealed \subseteq SealedRequest
  /\ page \in [Forms -> PageRecord]
  /\ typed \subseteq Users \X Clients
  /\ delivered \subseteq Clients \X Uris

AuthorizeInit ==
  /\ Init
  /\ client = [c \in Clients |-> [state |-> "free", uris |-> {}, offline |-> FALSE]]
  /\ sealed = {}
  /\ page = [f \in Forms |-> NoPage]
  /\ typed = {} /\ delivered = {}

-----------------------------------------------------------------------------
(* Registration *)

\* https to a permitted host, or http to this very machine where a deployment
\* allows it; a fragment never.
CheckRedirectUri(uri) ==
  /\ ~uri.hash
  /\ \/ uri.scheme = "http" /\ uri.host = "loopback" /\ AllowLoopbackRedirects
     \/ uri.scheme = "https" /\ uri.host = "permitted"

\* The whole list has to pass; the scope bounds what the client may ask for.
RegisterClient(c, uris, o) ==
  /\ client[c].state = "free"
  /\ uris # {} /\ \A uri \in uris : CheckRedirectUri(uri)
  /\ client' = [client EXCEPT ![c] = [state |-> "registered", uris |-> uris, offline |-> o]]
  /\ UNCHANGED <<vars, sealed, page, typed, delivered>>

\* Mutant: the row is taken away.
RemoveClient(c) ==
  /\ client[c].state = "registered"
  /\ client' = [client EXCEPT ![c].state = "gone"]
  /\ UNCHANGED <<vars, sealed, page, typed, delivered>>

\* disabledAt is set at the database.
DisableClient(c) ==
  /\ client[c].state = "registered"
  /\ client' = [client EXCEPT ![c].state = "disabled"]
  /\ UNCHANGED <<vars, sealed, page, typed, delivered>>

-----------------------------------------------------------------------------
(* The pages *)

\* Mutant: the policy is consulted a second time, instead of the registration.
MatchesPolicy(uri, registered) == CheckRedirectUri(uri)

MatchesRegistered(uri, registered) == uri \in registered

ValidateAuthorizeRequest(c, uri, o) ==
  /\ client[c].state = "registered"
  /\ MatchesRegistered(uri, client[c].uris)
  /\ o => client[c].offline

Forget(f) == page' = [page EXCEPT ![f] = NoPage]

SealRequest(request) ==
  /\ sealed' = sealed \cup {request}
  /\ Cardinality(sealed') <= MaxSealed

\* GET: the request is looked at, or an error page shown; the client's name is
\* read, and the login page carries the request away sealed.
Authorize(f, c, uri, o) ==
  /\ page[f].pc = "idle"
  /\ \/ ~ValidateAuthorizeRequest(c, uri, o) /\ UNCHANGED page
     \/ /\ ValidateAuthorizeRequest(c, uri, o)
        /\ page' = [page EXCEPT ![f] = [NoPage EXCEPT !.pc = "seal",
             !.request = [client |-> c, uri |-> uri, offline |-> o, user |-> None]]]
  /\ UNCHANGED <<vars, client, sealed, typed, delivered>>

LoginPage(f) ==
  /\ page[f].pc = "seal"
  /\ SealRequest(page[f].request)
  /\ Forget(f)
  /\ UNCHANGED <<vars, client, typed, delivered>>

\* openRequest: signed by this server, and unexpired.
OpenRequest(f, request) ==
  /\ page[f].pc = "idle"
  /\ request \in sealed

\* The login page is posted, with u's right password.
PostPassword(f, request, u) ==
  /\ OpenRequest(f, request)
  /\ page' = [page EXCEPT ![f] = [pc |-> "authenticate", request |-> request, user |-> u]]
  /\ UNCHANGED <<vars, client, sealed, typed, delivered>>

\* Mutant: who consents is read from the form.
PostConsentAsAnyone(f, request) ==
  /\ OpenRequest(f, request)
  /\ \E u \in Users :
       page' = [page EXCEPT ![f] = [pc |-> "finish", request |-> request, user |-> u]]
  /\ UNCHANGED <<vars, client, sealed, typed, delivered>>

\* The workspace page is posted: who consents is read from the blob.
PostConsent(f, request) ==
  /\ OpenRequest(f, request)
  /\ request.user # None
  /\ page' = [page EXCEPT ![f] = [pc |-> "finish", request |-> request, user |-> request.user]]
  /\ UNCHANGED <<vars, client, sealed, typed, delivered>>

\* authenticate: signIn looks at the account.
Authenticate(f) ==
  LET p == page[f]
      ok == user[p.user] = "active"
  IN /\ p.pc = "authenticate"
     /\ IF ok THEN page' = [page EXCEPT ![f] = [@ EXCEPT !.pc = "workspaces"]] ELSE Forget(f)
     /\ typed' = IF ok THEN typed \cup {<<p.user, p.request.client>>} ELSE typed
     /\ UNCHANGED <<vars, client, sealed, delivered>>

\* workspacesFor reads the account again and asks hr-api.  One workspace is
\* taken; of several one is to be chosen on a page with a new blob, good for its
\* whole life again.
OfferWorkspaces(f) ==
  LET p == page[f]
  IN /\ p.pc = "workspaces"
     /\ user[p.user] = "active"
     /\ \/ page' = [page EXCEPT ![f] = [@ EXCEPT !.pc = "finish"]] /\ UNCHANGED sealed
        \/ Forget(f) /\ SealRequest([p.request EXCEPT !.user = p.user])
     /\ UNCHANGED <<vars, client, typed, delivered>>

\* finish: issueCode begins by asserting the workspace.
Finish(f) ==
  LET p == page[f]
  IN /\ p.pc = "finish"
     /\ page' = [page EXCEPT ![f] = [@ EXCEPT !.pc = "issue"]]
     /\ AllowWorkspace(f, p.user, p.request.client, p.request.offline)
     /\ UNCHANGED <<client, sealed, typed, delivered>>

\* No workspace, a failure of hr-api or the database, an error page, a crash.
FailPage(f) ==
  /\ page[f].pc \notin {"idle", "issue"}
  /\ Forget(f)
  /\ UNCHANGED <<vars, client, sealed, typed, delivered>>

\* issueCode goes on or fails; with its code the browser is sent to the URI.
IssueCode(f) ==
  LET to == <<page[f].request.client, page[f].request.uri>>
  IN /\ page[f].pc = "issue"
     /\ FormStep(f) \/ FailForm(f)
     /\ IF form'[f].pc = "idle" THEN Forget(f) ELSE UNCHANGED page
     /\ delivered' = IF code' = code THEN delivered ELSE delivered \cup {to}
     /\ UNCHANGED <<client, sealed, typed>>

ExpireSealed(request) ==
  /\ sealed' = sealed \ {request}
  /\ UNCHANGED <<vars, client, page, typed, delivered>>

-----------------------------------------------------------------------------

PageStep ==
  \/ \E c \in Clients :
       \/ \E uris \in SUBSET Uris, o \in BOOLEAN : RegisterClient(c, uris, o)
       \/ DisableClient(c)
  \/ \E f \in Forms :
       \/ \E c \in Clients, uri \in Uris, o \in Offline : Authorize(f, c, uri, o)
       \/ \E request \in sealed :
            (\E u \in Users : PostPassword(f, request, u)) \/ PostConsent(f, request)
       \/ LoginPage(f) \/ Authenticate(f) \/ OfferWorkspaces(f) \/ Finish(f)
       \/ IssueCode(f) \/ FailPage(f)
  \/ \E request \in sealed : ExpireSealed(request)

\* The rest of OAuthGrants runs beside the pages.
AuthorizeNext == PageStep \/ (Next /\ UNCHANGED <<form, pages>>)

AuthorizeSpec == AuthorizeInit /\ [][AuthorizeNext]_allVars

-----------------------------------------------------------------------------
(* Properties *)

\* A grant is its user's own doing: that person typed the password on a page of
\* that client, whatever was posted when, in whichever tab ("Who chose it comes
\* from the sealed ticket, never from the form").
ConsentWasTyped ==
  \A g \in Grants : grant[g].state # "free" => Pair(g) \in typed

\* Codes only go where the client said when it registered, which the policy
\* allowed then, and no grant is wider than the registration (redirect-policy.ts:
\* the comparison is never loosened to the rule).
RegistrationBounds ==
  /\ \A to \in delivered : to[2] \in client[to[1]].uris /\ CheckRedirectUri(to[2])
  /\ \A g \in Grants : grant[g].state # "free" /\ grant[g].offline => client[grant[g].client].offline
=============================================================================

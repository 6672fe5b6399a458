# Formal models of nairon-auth-api

TLA+ models of the parts of auth-api where the order of events matters: OAuth grants, their
tokens and the pages that begin them, the one-time cross-app sign-in codes, the session cookie
of a browser, accounts, the roles that decide who can still administer, the permission
catalogue, and the delegated AI tokens minted on those roles' rights. TLC checks them on small
instances; TLAPS proves every safety property the passing runs check, and the refinements, for
instances of every size.

Paths are relative to the repository: `src/...` is the service, `prisma/...` its schema.

## The system

auth-api is one NestJS process over one PostgreSQL database. It keeps no state of its own
that matters but one cache; every handler reads and writes rows through Prisma and stops at
every `await`. Nothing but `assignRoleMapToUser` uses a transaction, so between any two
database calls of one request, calls of any other request may run, and the process may die.

| component | state | operations | talks to |
|---|---|---|---|
| OAuth grants and tokens (`src/oauth/oauth.service.ts`, `oauth.controller.ts`) | `OAuthGrant`, `OAuthAuthorizationCode`, `OAuthRefreshToken` | issueCode, exchangeCode, refresh, issueTokens, revokeGrant, revokeByToken | accounts (foreign keys, deactivation), hr-api (workspaces, notices) |
| Token exchange for the MCP resource (`src/oauth/token-exchange.controller.ts`) | none | exchangeForInternalToken | grants, accounts |
| Client registration and authorize pages (`src/oauth/redirect-policy.ts`, `views.ts`, `oauth.config.ts`) | `OAuthClient`, the sealed request a browser carries | registerClient, validateAuthorizeRequest, sealRequest, openRequest, authorizeSubmit | sign-in, hr-api, grants |
| Cross-app sign-in codes (`src/handoff/`) | `AuthHandoffCode` | issue, exchange, pruning | accounts, sessions |
| Sign-in and session (`src/auth/`) | `nairon_session` cookie in the browser, AI dock cache | signIn, getMe, logout, sessionForUser, AuthGuard | accounts, roles, permissions |
| Accounts (`src/users/`) | `User` | create, update, password reset, delete, deactivate, reactivate | everything by cascade |
| Roles (`src/roles/`) | `Role`, `UserRole`, `RolePermission` | create, update, delete, assignPermissionsToRole, assignRolesToUser, assignRoleMapToUser | accounts |
| Permission catalogue (`src/permissions/`) | `Permission` | start-up seed, ensure | roles, AI dock cache |
| Delegated AI tokens (`src/delegated/`) | none | mint, mintWrite | accounts, roles, hr-api |
| Notices (`src/shared/hub-notifier.ts`) | none | notify, best effort | hr-api |
| Internal guards, filters, bootstrap | environment | one comparison or lookup per request | |

What makes each correct, and hard:

* **Grants.** A revoked grant is worth nothing, whatever was in flight; a replayed code or a
  reused refresh token cuts the grant off once and tells its person once; codes and refresh
  tokens are spent once; a person hears of every client let in. Hard: every check is made on
  rows read several awaits earlier, answers get lost, clients retry.
* **Cross-app codes.** One code, one session, one origin. Hard: many exchanges at once, a
  foreign origin beside the right one, requests whose `now` is old, a pruning nobody awaits.
* **Roles and accounts.** Somebody can always administer; nobody is both kinds of
  super-admin; only a managed save touches super-admin assignments; a sign-in finds the account
  whose address it is; the day somebody left stays; a list read in pages is whole. Hard: counts
  and checks taken before the write they allow, READ COMMITTED transactions that do not see each
  other's rows, an index that compares spellings, rows that move between two pages.
* **Registration and authorize pages.** A grant is the doing of somebody who typed a password
  on that client's page; a code goes where the client registered. Hard: the server keeps no
  session, the sealed request a page carries can be posted again and in any order.
* **Sessions.** /me answers for the person who signed in last; a deactivated person is out
  within a bounded time. Hard: two cookies of one name, answers out of order, tokens that
  outlive the account's state.
* **Delegated tokens.** Nothing is minted on rights the person did not hold, and an outage of
  hr-api is not a refusal. Hard: four reads at four times, and saves in two calls.
* **Permission catalogue.** A row is reported created once, a running server has the whole
  catalogue, the dock marker does not come and go. Hard: racing and deadlocking statements, a
  start-up that dies half-way, a cache filled from a read that is already old.

The full list of hazards, each at its line and with the properties that cover it, or a note why
none does, is in `PROJECT.json` under `hazards`.

## Modules

| module | role |
|---|---|
| `OAuthGrants` | grants, codes, refresh tokens, access tokens, internal sessions |
| `StandingConsent` | what a consent promises; implemented by `OAuthGrants` |
| `MCOAuthGrants` | symmetry for the runs of `OAuthGrants` |
| `OAuthAuthorize` | registration and the authorize pages, composed with `OAuthGrants` |
| `MCOAuthAuthorize` | redirect URIs and symmetry for the run of `OAuthAuthorize` |
| `OAuth_proofs` | the theorems about `OAuthGrants` and `OAuthAuthorize` |
| `Handoff` | cross-app codes: issue, exchange, prune |
| `OneTimeCode` | what a one-time code promises; implemented by `Handoff` |
| `MCHandoff` | symmetry for the run of `Handoff` |
| `Handoff_proofs` | the theorems about `Handoff` |
| `BrowserSessions` | sign-in, /me, logout, the two cookies of one browser, the global guard |
| `MCBrowserSessions` | symmetry for the run of `BrowserSessions` |
| `BrowserSessions_proofs` | the theorems about `BrowserSessions` |
| `Accounts` | creation, addresses, deletion, deactivation, reactivation |
| `Accounts_proofs` | the theorems about `Accounts` |
| `PeopleList` | getAllUsers, page by page, beside the writes of `Accounts` |
| `PeopleList_proofs` | the theorem about `PeopleList` |
| `PermissionCatalogue` | the seed, the ensure route, the catalogue, the dock marker's cache |
| `MCPermissionCatalogue` | the ensure requests, and symmetry, for the run of `PermissionCatalogue` |
| `PermissionCatalogue_proofs` | the theorems about `PermissionCatalogue` |
| `SuperAdmins` | role assignments, role deletion, deactivation |
| `MCSuperAdmins` | the maps held and posted, and symmetry, for the runs of `SuperAdmins` |
| `SuperAdmins_proofs` | the theorems about `SuperAdmins` |
| `DelegatedTokens` | mint and mintWrite, assignPermissionsToRole, what their rights depend on |
| `MCDelegatedTokens` | the forms saved and the tokens asked for, for the runs of `DelegatedTokens` |
| `DelegatedTokens_proofs` | the theorems about `DelegatedTokens` |

Conventions. A handler is a record with a `pc`; each action is the code from one `await` to the
next, and one Prisma call or one statement of a `$transaction` is atomic. A call with an `include`
is several SELECTs without a transaction (Prisma 5.9.1 sends one per relation); where that can be
told from one read it is several steps, and "What is not modelled" says where it is not. What a handler read stays in its record and may be stale when used. A `Fail...` action
ends any handler at any point: a failed call or a dead process. Time is an `Expire...` action where
only "before or after" matters, and a clock where times are compared: in `Handoff`,
`BrowserSessions`, `Accounts` and `PermissionCatalogue`. Secrets and PKCE are abstracted to "the
caller presents what it should", scopes to "it holds `offline_access`". Variables under `history`
are read by properties only. Definitions with a comment `Mutant:` are deliberate bugs that show each
property can fail; nothing refers to them.

### OAuthGrants

| code | model |
|---|---|
| `OAuthGrant` row, `revokedAt` | `grant[g]`: free, live, revoked, gone (cascade) |
| `OAuthAuthorizationCode`, `consumedAt`, `expiresAt` | `code[g]`: one code is written per grant |
| `OAuthRefreshToken`, `usedAt`, `replacedBy` | `token[t]` |
| `issueCode` | AllowWorkspace, FindLiveGrant, CreateGrant, CreateCode |
| `exchangeCode` | ExchangeCode, then ConsumeCode, or CutGrant for a replay |
| `issueTokens` | LoadGrant, StoreRefreshToken, TouchGrant |
| `refresh` | Refresh, then issueTokens and SpendRefreshToken, or CutGrant for a reuse |
| the HTTP answer, which may be lost | Answer: `held`, `access` |
| `revokeGrant`, up to the answer of its update | RevokeGrant, used by CutGrant and RevokeByToken |
| `revokeGrant`, the notice of a forced one | NoticeAccessRevoked, a step of its own: the request may die before it (`muted`) |
| `exchangeForInternalToken` | ExchangeForInternalToken reads the grant, OpenSession its user: `session` |
| users service | DeactivateUser, ReactivateUser, DeleteUser (with the cascade) |

`workspacesFor` asks hr-api, whose answer is external: AllowWorkspace may happen for any
active account. `announced` and `alarms` count notices *started*; delivery is best effort.

### OAuthAuthorize

It extends `OAuthGrants`, which leaves open what may begin a consent. Here the pages do: the
steps of a consent form are taken by Finish and IssueCode only, all other steps of the grants run
beside the pages (AuthorizeNext).

| code | model |
|---|---|
| `OAuthClient`, `disabledAt` | `client[c]`, RegisterClient, DisableClient |
| the sealed request in a page, with `userId` after the password | `sealed`: a set, so a page may be posted again; ExpireSealed takes one out |
| `checkRedirectUri`, `matchesRegistered` | CheckRedirectUri over parsed URIs, MatchesRegistered |
| `GET /oauth/authorize` | ValidateAuthorizeRequest, SealRequest, LoginPage |
| `POST /oauth/authorize`, first page | PostPassword, Authenticate, OfferWorkspaces |
| the same, second page | PostConsent, Finish (AllowWorkspace), then `issueCode` of `OAuthGrants`, IssueCode |

A sealed request that fails to open answers an error page and changes nothing, so only
requests this server sealed are posted. `typed` and `delivered` are history: who typed a right
password on a page of which client, and where codes were sent.

### BrowserSessions

One browser with its host-only cookie `host` and a stale cookie of the parent domain `parent`.
`call[b]` is a request under way or its answer: a request takes the cookies it finds, an answer
sets or clears cookies when it comes in, in any order, or is lost. `sessionTokens` is Newest of
what is left to try; a token that fails in GetMe, a database failure included, because getMe
catches it all, gives way to the older one. Replace is what external apps do with the token of an
answer: they keep it as Bearer (`received`). The exchange of a cross-app code sets the cookie
the way a sign-in does and is a sign-in here. A session's token is its person and the second it
was signed in; two tokens of one second are tried in either order.

### Accounts and PeopleList

`row[u]` is the `User` row, ids being drawn in ascending order and never again. An address is
what it is of and whether it is spelled plainly, in lower case and trimmed; the unique index
compares spellings. createUser and deactivateUser read, wait (for the hash, for the count of the
admins) and write, so they are calls with a `pc`; updateUser, deleteUser and reactivateUser
depend on nothing they read before. Whether a deactivation is refused for the last admin's sake
is the question of `SuperAdmins`; here it may always be (Fail).

`PeopleList` keeps of a row what the list depends on: a rank of the name, and whether the person
is in the list. A reader asks for page after page until one is short; the rows may change
between any two pages. What it saw, and who was in the list all along, is history.

### PermissionCatalogue

| code | model |
|---|---|
| `Permission` rows | `rows`, committed; `call[c].mine`, inserted by a statement that has not committed |
| `onModuleInit`, before `listen` | Start, SeedPermission (an upsert each), Listen; Stop at any point |
| `parseEnsurePermissionsRequest` | a body of another namespace, or too long, changes nothing; the names lose their repetitions |
| `INSERT ... ON CONFLICT DO NOTHING RETURNING` | BeginEnsure, InsertName for each name, CommitEnsure; WaitsFor is the unique index, DeadlockVictim PostgreSQL's deadlock detector |
| `aiDockCatalogue` | AiDockCatalogue (the cached answer), CountDock, FillDockCatalogue, CountFails |
| `getAllPermissions` | GetAllPermissions |

The cache is per server and dies with it. An upsert of the seed is one step: it finds the row or
makes it. The nine dock permissions are two here: what counts is whether all are there.

### Handoff

`code[c]` is the row; `issuer[i]` and `req[r]` are requests with the `now` they captured;
`pruning` holds the cutoffs of `deleteMany` calls started and not awaited, which may run at
any time or fail. `taken` and `sessions` count, per code, the exchanges that won the
conditional update and the sessions answered. A session issuer's account may be in any state,
because AuthGuard verifies the token only. `Lost` names codes that are issued and never
presented; it is a bound, not a feature of the code.

### SuperAdmins

`holds` is the `UserRole` table; `job[j]` a request. A `$transaction([deleteMany, createMany])`
is two steps, DeleteRows and CommitMap: under READ COMMITTED the deletion takes the rows its
statement saw (`doomed`), skips those another transaction deleted first (Removing takes them
out of the others' `doomed`), and does not see rows inserted meanwhile. A row's foreign keys
fail the transaction (KeysExist). `own` says that the actor of a managed save is its subject.
`raced` records the users, plain roles, and the right to administer (`Authority`) that two
jobs were at work on at once: the properties with `raced` say exactly which overlap they
exclude. Creating accounts and roles adds rows nobody holds anything of yet, so the model
starts with them.

### DelegatedTokens

| code | model |
|---|---|
| `User.deactivatedAt`, `UserRole`, `RolePermission` | `account`, `assigned`, `granted` |
| hr-api's `GET /api/entities` | `member`, which may change at any time; it may also not answer |
| parse of the request | BeginMint, BeginMintWrite: entity 0 is refused |
| `mint`, `mintWrite` | FindUser, ReadAssignments, ReadGrants, OrganisationsOf, Sign |
| the 403 with its reason, the 503 | `refused` with `reason`, `unavailable` |
| `assignPermissionsToRole` | BeginSave, DeleteGrants, CreateGrants |

`mint` and `mintWrite` are the same steps over different rights (`Needs`, `AnyOf`). The one
`findMany` of `permissionNames` is two steps here, one per query it sends. If the person's roles change between the two, roles of before are joined with grants of after, and
the rights put together need never have been held at once. `seen[m].moved` records that, and
the properties exclude exactly that. `seen[m].met` and `seen[m].failed` record which facts
about the person were so, or not so, at some moment since the request arrived. `Reassign` is
any step of `SuperAdmins` that changes a person's roles; role deletion is left to that module.
The rows of `Permission` a save creates first are never deleted, so a right is its name.

## What is checked

| run | question | states |
|---|---|---|
| `oauth_tokens` | one grant, two overlapping token requests, three refresh tokens | 793 000 |
| `oauth_live` | two consents of one person for one client at once, and an exchange; liveness, so no symmetry | 543 000 |
| `oauth_authorize` | two people, one client, its pages and grants together | 621 000 |
| `handoff` | one code presented in two requests from two origins, a second one whose issue prunes the first | 1 800 000 |
| `sessions` | two people at one browser, two requests at a time, two cookies of one name | 3 250 000 |
| `accounts` | three ids, two addresses in two spellings, two calls at a time | 792 000 |
| `people_list` | four people, two names, one reader, pages of two | 848 000 |
| `catalogue` | two ensure calls, two session responses, two servers that die and start again | 1 300 000 |
| `roles` | two people, two jobs, one role of each kind, two scopes | 1 610 000 |
| `delegated` | one person with one role, one mint at a time beside two saves of the role, two organisations | 760 000 |

Grants and tokens:

* `ChainIntegrity`: refresh tokens belong to grants with offline access; a spent one names a
  different token of the same grant as its replacement; nobody holds one without a row.
* `CaughtIsCutOff`: after "already used", the grant is never live again, although a request
  that read it live may still be writing to it.
* `AlarmIsForTheCut`: at most one notice per forced cut-off and none otherwise, with replays
  and the holder's own revocation arriving together; and a forced cut-off goes untold only if
  the very request that made it died between its update and the notice. That does happen: the
  retry finds the grant revoked, changes no row, and tells nobody.
* `SoleChain`: what single use amounts to. If the token requests of a grant neither overlapped
  nor died half-way, its code bought tokens once and one refresh token is unspent (two while
  the rotation is at work). The condition is needed: see the findings.
* `ImplementsConsent`: refinement of `StandingConsent`. An ended consent never stands again,
  and an internal session opens only on an exchange that found it unrevoked, and while the
  account is active: revocation, deactivation and deletion in every order. In particular tokens
  issued by a request that overlapped a revocation are worth nothing. The exchange reads the
  grant and then its user, so the two need not have been good at one moment: an account that is
  inactive while the grant is read, and reactivated after the grant was revoked, still opens
  the session of that one exchange.
* `LetInIsAnnounced`: a client with a code for a person was announced to the person, except
  where a consent of that pair died half-way; two consents of one pair at once included.
* `RevocationCompletes`: after a revocation every internal session is eventually gone for good.

Registration and authorize pages:

* `ConsentWasTyped`: no grant without its person's password on a page of that client.
* `RegistrationBounds`: a code is sent only to a URI its client registered, which the policy
  allowed; no grant has offline access its client did not register for.

The steps of the pages are written over the actions of `OAuthGrants`, or leave its variables alone,
so what holds of the grants holds behind the pages by construction; no run spends its time on that,
and the theorems carry it over. Nothing is stated of sign-ins under way at a client that is
disabled: `disabledAt` is looked at when a sign-in starts, every page posted renews the sealed
request, and nothing in the code ends that.

Sessions:

* `SessionIsTheLast`: the cookie that counts is of the person who signed in last, and there is
  none after a logout, unless an answer of /me that was sent before came in after.
* `MeAnswersForTheLast`: /me answers for that person, whichever cookie is sent first, unless
  the newer token failed.
* `GuardWindow`: AuthGuard never looks at the account; still a deactivated person passes it for
  less than a token's life. The exception is a sign-in that read the account before. The schema
  promises more: see `DeactivatedIsRejected` below.

Accounts and lists:

* `AddressFindsItsOwner`: creations in any spelling racing for one address; a sign-in finds an
  account by any spelling of its address, and finds only that one, unless updateUser wrote the
  address.
* `LeavingDateStaysUnlessRaced`: the date moves only if two deactivations of the person were
  under way at once, whatever is reactivated or deleted in between.
* `PagesAreWhole`: a reader sees everybody who stayed in their place of the list, unless
  somebody left it, and nobody twice, unless somebody came in: the two reasons offset paging has,
  and ties are not a third.

Permission catalogue:

* `EachRowCreatedOnce`: of the calls that race on a name exactly one reports it created, and an
  answer names rows that are there; nothing outside the skills' namespace is written.
* `CatalogueIsWhole`: a server that listens offers the whole catalogue, whatever dies half-way.
* `MarkerStays`: the dock marker is in every session response whose own count did not fail. The
  seed is awaited before `listen`, so a running server never finds the rows absent: the minute
  for which `absent` would be remembered never begins.

That calls which name the same rows in opposite orders do not hang is the work of PostgreSQL's
deadlock detector, which is modelled (DeadlockVictim) and nothing is stated about.

Cross-app codes:

* `ImplementsOneTimeCode`: refinement of `OneTimeCode`. A code is taken at most once, only
  while open, and buys at most one session, whatever crashes in between.
* `RefusedMeansClosed`: a refusal leaves nothing to try again, unless the request came late.
  In particular a foreign origin burns the code even if it lost the race.
* `PrunedIsExpired`: the late pruning never takes a code that a request arriving from now on
  could use. A request that has been under way since before the code's time was up is outside it.

Roles:

* `AdminStaysUnlessRaced`, `OneSuperRoleUnlessRaced`, `OwnSuperRoleStays`: the three
  invariants the comments of `assignRoleMapToUser` and `deactivateUser` claim, up to the
  overlaps that break them (and the deletion of accounts, which asks nobody).
* `SuperRowsUntouched`: super-admin assignments change in managed saves, or go with their
  account, and in no other step.
* `DeletionStripsNobody`: a role no save was adding meanwhile is deleted only if nobody holds
  it in any scope.

Delegated tokens:

* `MintedWasQualified`: at some moment of the request the person held all the rights a token
  stands on in the organisation asked for, at some moment one of the tool's, at some moment an
  active account, and at some moment was a member. Nothing says these were one moment.
* `RefusedWasUnqualified`: a refusal, after which a goal is suspended or an approval revoked,
  names something the person lacked at some moment. An outage of hr-api is never one.
* `LoneSaveReplaces`: a save that no other save of that role and scope overlapped leaves what
  it posted, through both its calls and whatever is saved in other scopes meanwhile.

Every property of a passing run has a mutant in `PROJECT.json`: a plausible bug in a modelled
definition under which TLC finds the property violated.

### Findings

Two runs expect a violation; each shows a claim of a comment that the code does not keep.

1. `oauth_one_time_code`: two exchanges of one code at once both get tokens
   (`src/oauth/oauth.service.ts:449`, against `prisma/schema.prisma:153`).
2. `roles_last_admin`: two deactivations at once leave no admin
   (`src/users/users.service.ts:121`, against `:119`).

More claims that do not hold are definitions of the modules which no run checks. A passing
property beside each names the very overlap that breaks it. To see one fail, check it with the
constants given:

| definition | what breaks it | instead |
|---|---|---|
| `OAuthGrants.OneLiveToken` (`schema.prisma:178`) | two refreshes with one token at once fork the chain (`oauth.service.ts:486`). `oauth_tokens.cfg` | `SoleChain` |
| `OAuthGrants.FirstAccessIsAnnounced` (`oauth.service.ts:377`) | a consent dies between its grant and its code, and the next one counts as already connected (`:385`). `oauth_live.cfg` | `LetInIsAnnounced` |
| `SuperAdmins.OneSuperRole` (`roles.service.ts:174`) | two managed saves at once leave both super-admin roles on one account (`:201`). `roles.cfg` | `OneSuperRoleUnlessRaced` |
| `Accounts.LeavingDateStays` (`users.service.ts:107`) | a double click: both calls read null, the second moves the date (`:123`). `accounts.cfg` with one id and one address | `LeavingDateStaysUnlessRaced` |
| `DelegatedTokens.RefusedHasLostRight` (`delegated-write-token.contract.ts:22`) | a save deletes a role's rights and writes them again in a second call; a mint in between is refused as if the person had lost one (`roles.service.ts:104`). `delegated.cfg` | `RefusedWasUnqualified` |
| `BrowserSessions.DeactivatedIsRejected` (`schema.prisma:24`: a deactivated user "cannot log in, is rejected by every guard") | AuthGuard verifies the token and never reads the account (`auth.guard.ts:22`), so it admits a deactivated person until the token expires. `sessions.cfg` with one person and one tab | `GuardWindow` |
| `BrowserSessions.LogoutSticks` (`auth.controller.ts:74`) | a /me sent before a logout and answered after it sets the cookie again (`:89`). `sessions.cfg` with one person | `SessionIsTheLast` |

Two more things to know, which no comment denies. getMe answers a failing database like a bad
token, so /me may then answer for the older of two cookies (`auth.service.ts:95`). updateUser
writes an address as it was typed (`users.service.ts:85`) while creation and sign-in use lower
case: an account patched to `Ann@x` cannot sign in, and `ann@x` may be created beside it.

### Bounds

The races above need two requests on one row, so two handlers at once; a third adds only more
of the same overlaps. Three refresh tokens allow a rotation, a fork and a rotation of one
branch. In `oauth_live` two forms process two consents of one pair at once, so each may find or
miss the other's grant, and either may die; a second client multiplies the states by ten and adds
pairs that share nothing (FindLiveGrant compares the pair; `LetInAreAnnounced` is proved for any
number of them). In `handoff` a code lives one tick and the clock has
four instants: late requests, an expired code and a cutoff past it all occur; the second code
exists to start a pruning. In `roles` one role of each kind and two scopes tell apart every
condition of the code (which rows are super-admin, which may write, which scope); the maps
posted (`SmallMaps`) are single rows and both super-admin roles together: the checks for the
person's own role and the last admin's ask something of each row, the refusal of both super-admin
roles asks something of two. To begin with a person may hold the super-admin role in two scopes
(`StartMaps`), which a map then drops in one and keeps in the other. The empty map, and maps of more
rows, are covered by the theorems.
In `delegated` mints share nothing, so one at a time is enough; two saves let the properties
tell a lone one from overlapping ones. The role may be given the AI rights everywhere and one
warehouse right in either organisation (`FewForms`), so a tool's right can be there, missing,
or there in the other organisation only; `FewAsked` has a tool, a goal, and a goal for entity
0, which no step may accept.
In `oauth_authorize` two people may post each other's pages of one client; that a page of another
client does not serve is left to `ConsentsWereTyped`, as a second client does not fit. `MaxSealed`
bounds the sealed requests in browsers to two, enough for one page to be posted after another has replaced it.
In `sessions` a token lives two seconds of four, so both the renewal by /me and expiry occur, and
two requests at a time cross in every order. In `accounts` two spellings of an address meet in
two creations while a third id stands by; a date can move with two clock values. In `people_list`
a page boundary can cut two people of one name, and the last page may be full or short. In
`catalogue` two lists name two rows in opposite orders, which is the smallest deadlock; one server
may start or die beside one that listens; the absent cache would live one tick of two.
`Tokens`, `Grants` and `Codes` bound how many are ever drawn: when they run out the handler
waits. No run disables the deadlock check. Symmetry is used for safety only.

### Fairness

`oauth_live` assumes that an internal session expires (a JWT with a lifetime,
`internalTokenTtlSec`), and nothing of handlers, which may hang, or of clients. No other run assumes
anything.

## What is proved

`OAuth_proofs`, first part, for every set of users, clients, grants, tokens, forms and requests,
from the assumptions of `OAuthGrants` alone (`None` is no id; `Offline` is a set of Booleans):

* `TypeCorrect`: `Spec => []TypeOK`
* `CaughtAreCutOff`: `Spec => []CaughtIsCutOff`
* `AlarmsAreForTheCut`: `Spec => []AlarmIsForTheCut`
* `ConsentImplemented`: `Spec => ImplementsConsent`
* `LetInAreAnnounced`: `Spec => []LetInIsAnnounced`
* `ChainsHold`: `Spec => []ChainIntegrity`
* `ChainsAreSole`: `Spec => []SoleChain`

The inductive invariant is `Inv == Typed /\ Rooted /\ CutInv`. `Typed` is `TypeOK` and `Placed`: the
type invariant with `Grants`-valued fields where a handler is past the step that fills them.
`Rooted` says what a handler and a row refer to: a request that is at work has a grant that was once
created, a token that is not free belongs to a grant, a code exists only for a grant. Without it a
request about to revoke might name a free grant, which would later be created live: then
`CaughtIsCutOff` is not inductive. `CutInv` ties who cut a grant off to its state, its notices and
`caught`. Between an update and its notice it has to know that the request at work there is the only
one for its grant, that the server did cut this grant, and that its notice was not lost already:
otherwise the notice could be a second one. That there is only one follows from the update, which
changes the row for one call only. Frame lemmas (GrantsStay, CodeMoves, TokenMoves, FormMoves, ReqMoves, UserMoves,
SessionMoves) say which steps write a variable, so that each conjunct is argued over the few actions
that can disturb it. The refinement maps each step to a step of `StandingConsent` or a stutter by
how it moves `user`, `grant`, `session` and the requests between the two reads of an exchange
(AskerMoves). A session may open for a grant that is revoked by then, but not for one that is gone:
`Cascaded` says that such a grant's user is deleted, so the second read does not find an active
account. `Told`, for the notices, says of every grant that was
created, with a code or without, that its pair was announced, has lapsed, or is in the hands of a
form about to announce it, and the same of a form that found its pair let in: it is silent because
another consent, perhaps still under way, speaks for it.

The chains of refresh tokens have an invariant of their own. `Chained` says what a request carries
(`Linked`) and what a row points at (`Follows`): the token a request has stored is new and of its
grant, and until the answer it is in the request that will name it as the replacement. `Kept` says
that one form writes the code of a grant, once, and that unspent tokens go with their grant.
`Orderly(g)`, of a grant whose requests neither overlapped nor died, counts what there is to spend:
while the code is unspent nothing was bought with it; while a request is at work, which is then the
only one, the unspent tokens are the one it replaces and the one it stored (`Accounts`); and when
none is at work there is at most one. `SoleChain` looks at rows alone, but the next request starts
from them, so the phases have to be told apart. A grant that becomes disturbed leaves the invariant,
one that is disturbed never returns to it.

`OAuth_proofs`, second part, for every set of redirect URIs, pages and sealed requests besides:

* `PagesTypeCorrect`: `AuthorizeSpec => []PagesTypeOK`
* `ConsentsWereTyped`: `AuthorizeSpec => []ConsentWasTyped`
* `RegistrationsBound`: `AuthorizeSpec => []RegistrationBounds`
* `GrantsHoldBehindThePages`: `AuthorizeSpec => []` of the five invariants of the grants above
* `ConsentHoldsBehindThePages`: `AuthorizeSpec => ImplementsConsent`

`PagesPlaced` is the typing of a page that holds a request. Every step of the pages that touches a
variable of `OAuthGrants` is one of its steps (lemma GrantsBehind, which holds by the shape of the
definitions), so the last two theorems are the first part's, of the two composed; and `Typed` and
`Rooted` may be used here. `ConsentInv` follows a password along its way:
into a sealed request, a page, a form, a grant, each of which names a pair that was typed.
`BoundsInv` does the same for the URI and the scope of a request, from the registration to the
code; clients only ever gain a registration (ClientsStay). PageOrigins and SealedOrigins say where a
page and a sealed request come from.

`Handoff_proofs`, for every set of users, origins, codes and requests and every TTL, pruning
delay and clock bound, from the assumptions of `Handoff` (`None` is no id; `Lost` are codes;
the three durations are natural numbers):

* `TypeCorrect`: `Spec => []TypeOK`
* `RefusalsCloseCodes`: `Spec => []RefusedMeansClosed`
* `PruningIsSafe`: `Spec => []PrunedIsExpired`
* `OneTimeCodeImplemented`: `Spec => ImplementsOneTimeCode`

`Typed` is again `TypeOK` and what a request past its first step points at: an issued code.
On top of it each property has an invariant of its own. `Settled` adds to
`RefusedMeansClosed` what the request knew two steps earlier: one that is about to spend
comes from the code's origin, one that is signing in has closed the code; otherwise a request
refused by the conditional update might be of a foreign origin and leave an open code.
`Punctual` says that no request and no cutoff is of the future, so a pruning that hangs only
deletes less. `Spent`, for the refinement, says that an open code was never taken, that a
request in sign-in holds a taken code without a session, and that no two requests in sign-in
hold the same code. `RowMoves` and `RequestMoves` are the frame lemmas: an issued row keeps
its origin and time and never opens again; a request moves by its own steps only. The
refinement takes the issue of a row to `Issue`, the successful conditional update to `Take`,
burning and pruning to `Close`, the session to `Deliver`, everything else to a stutter.

`DelegatedTokens_proofs`, for every set of people, roles, organisations, maps, forms, mints
and saves, from the assumptions of `DelegatedTokens` (entity 0 is no organisation; what is
posted has the shape the forms admit; `None` is no id):

* `TypeCorrect`: `Spec => []TypeOK`
* `MintsAreQualified`: `Spec => MintedWasQualified`
* `RefusalsAreEarned`: `Spec => RefusedWasUnqualified`
* `LoneSavesReplace`: `Spec => LoneSaveReplaces`

The last three are action properties. `Seen` is the invariant of the two about requests.
`Current` says that the history is up to date: what is so now counts as met, and what may
still be refused for and is not so counts as failed. `Decided` says what a request past a
read knows: the account was met, the roles it holds are still the person's unless `moved`,
the rights were met. The step that mints is `Sign` (MintedBySign), so `Decided` gives the
facts; a refusal is the step of a read (RefusedByRead), so `Current` before that step gives
the failure. `Lonely` is the invariant of saves: a lone save has no other of its set at work,
and once it has deleted, the set stays empty until it writes; without the first half another
save could fill the set in between.

`BrowserSessions_proofs`, for every set of users and tabs, every lifetime and with or without a
parent domain, from the assumptions of `BrowserSessions` (`None` is no id; a lifetime is positive):

* `TypeCorrect`: `Spec => []TypeOK`
* `SessionsAreTheLast`: `Spec => []SessionIsTheLast`
* `MeIsForTheLast`: `Spec => []MeAnswersForTheLast`
* `WindowIsBounded`: `Spec => []GuardWindow`

`CookieInv` is the invariant of the two cookies: the host-only cookie is no older than the parent's;
what a request without a twin carried is the parent's cookie, if there is one; and of a request that
nobody crossed, what is left to try begins with the last person's token. `WindowInv` says of every
token at hand - in a cookie, in a request, in an answer, in an app - that it was signed before its
person left, or is `late`; the property looks at the apps only, but a token may have waited in a
cookie.

`Accounts_proofs`, for every set of ids, addresses and calls, from the assumptions of `Accounts`
(ids are natural numbers; `None` is neither a date nor an address):

* `TypeCorrect`: `Spec => []TypeOK`
* `AddressesFindTheirOwner`: `Spec => []AddressFindsItsOwner`
* `LeavingDatesStay`: `Spec => LeavingDateStaysUnlessRaced`

RowsMove and JobsMove say what a step may do to a row and to the calls. `Indexed` and `Spelled` are
the invariant of addresses: no two rows have one spelling, and an address updateUser did not write
is plain, so that two accounts of one address would have one spelling. For the date, `Paired` says
that of two deactivations of a person under way at once each knows of the other, and `Late` that
one still under way when the person has left knows of another; `Late` is kept by `Paired` in the
very step that writes the date.

`PermissionCatalogue_proofs`, for every catalogue, every set of servers and calls and every list of
names, from the assumptions of `PermissionCatalogue` (the namespaces are disjoint, there is a
server, lists are lists of names):

* `TypeCorrect`: `Spec => []TypeOK`
* `RowsCreatedOnce`: `Spec => []EachRowCreatedOnce`
* `CatalogueIsAlwaysWhole`: `Spec => []CatalogueIsWhole`
* `MarkerAlwaysStays`: `Spec => []MarkerStays`

`SeedInv` says that what a seeding server has not to do any more has its row, and a listening one
has nothing left. `MarkerInv` builds on it: a count runs only on a server that is up, so it finds all
rows, and no cache ever holds `absent`. `EnsureInv` has three parts: the names of a
request are of the namespace and taken in turn; a row a statement holds is not committed and held by
nobody else; and the counts of `created`, which the second part makes exact.

`SuperAdmins_proofs`, for every set of users, roles, organisations, maps and jobs, from the
assumptions of `SuperAdmins` (no role is of two kinds; what is posted is a set of assignments;
`None` and `Authority` are no ids):

* `TypeCorrect`: `Spec => []TypeOK`
* `SuperRowsAreUntouched`: `Spec => SuperRowsUntouched`
* `OneSuperRoleHolds`: `Spec => []OneSuperRoleUnlessRaced`
* `OwnSuperRoleIsKept`: `Spec => OwnSuperRoleStays`
* `DeletionIsHarmless`: `Spec => DeletionStripsNobody`
* `AdminStays`: `Spec => []AdminStaysUnlessRaced`

`Typed` is `TypeOK` and what a job may carry: only a managed map posts super-admin roles, never
both kinds, and a transaction removes rows of its own user only. From this alone follows
`SuperRowsUntouched`. The others say what happens unless two jobs raced, and begin with `Apart`:
whatever two jobs at work both touch is in `raced`, so of what is not there, one job at most is the
cause. Then each check keeps its meaning until the write it allows, which is what these say:
`Replaces`, that a managed map about to commit removes every super-admin row of its user and that
one's own posts each of them again; `Unheld`, that a role about to go is held by nobody; `Governed`,
that somebody administers, and that somebody else does while a job may take it from its user
(`Spared`). Without `Spared` the count of the admins says nothing of the write two steps later.

`PeopleList_proofs`, for every set of names and readers, every finite set of ids and every page
size, from the assumptions of `PeopleList` (ids and names are natural numbers, which is all that is
used of their order; finitely many ids are ever drawn; a page is not empty):

* `PagesStayWhole`: `Spec => []PagesAreWhole`

The order ends with the id, so two people never have one place (OrderIsTotal, PlacesDiffer), and a
place is between 1 and the number of people (PlaceRange). Then a page behind which somebody is left
is full (PageIsFull): as many places, all different, as there are people, leave none empty. The
invariant says of whoever was in the list all along: unless somebody came in, not read yet, or once
and within the pages read; unless somebody went out, read already or still behind those pages.
PlaceMoves says how a
write moves a place: somebody who comes moves others down only, somebody who goes up only, which is
why the two halves of the property have one excuse each.

The invariants of the chains, of `SuperAdmins` and of `PeopleList` were checked by TLC on the
instances of `oauth_tokens`, `roles` and `people_list` before they were proved.

Only model-checked: liveness (`RevocationCompletes`). It needs ENABLED, which the
prover does not reason about.

## What is not modelled

* Of the authorize pages: PKCE, `state`, `resource` and response types, which are checked once and
  carried along; metadata documents, CSP and rendering; throttling.
* Of the session: the cookie's Secure flag and domains, which are configuration; the secret.
* Of accounts: passwords, the one-time flag and profile fields. `createRole` and `updateRole`,
  which write names and levels.
* The flags, secrets and claims of delegated tokens and the shape of their targets.
* The pure rules of the handoff contract (target origins, the clamp of the lifetime, which
  tokens count as a session).
* Prisma's pool, hr-api itself, hashing, signatures, error wording, validation messages, and the
  internal guards and the exchange guard, which compare one header with the environment.
* That the SELECTs behind one Prisma `include` are several, except in `exchangeForInternalToken`
  and `permissionNames`. In `exchangeCode` and `refresh` nothing is lost: a code or token read
  unspent, and a grant read live after it, were both so at the first read, as a grant never
  becomes live again. In `issueTokens` neither: a grant read first exists as long as its user
  does, and a user found active by the second query still had it then. The includes of sign-in
  and /me read roles, which `BrowserSessions` does not keep.

## Plan

Done: every module above, with the proofs of its invariants, action properties and refinements.
Next, in this order:

1. Lemmas that make the excuses of the properties explicit: what puts a grant among `disturbed`
   and a user among `raced`, and that a run without overlap never does.
2. Pure rules as operators checked against reference definitions on bounded inputs (lifetime
   clamp, session payload, write-tool rights).

Runs answer one question each; where two questions fit one instance they share a run.

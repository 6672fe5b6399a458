--------------------------- MODULE DelegatedTokens ---------------------------
(***************************************************************************)
(* The delegated AI tokens of DelegatedTokenService and the rights they    *)
(* stand on: mint and mintWrite against assignPermissionsToRole, changes   *)
(* of assignments, of the account and of membership.                       *)
(*                                                                         *)
(* A mint re-reads the person at every request, in four reads at four      *)
(* times: the account, the assignments, the grants of the roles found (one *)
(* Prisma findMany sends these two queries one after the other), and       *)
(* hr-api's answer.                                                        *)
(***************************************************************************)
EXTENDS FiniteSets

CONSTANTS
  Users,       \* user ids
  Roles,       \* the roles forms may save; super-admin roles are refused
  Entities,    \* the organisations
  Everywhere,  \* entity 0
  Maps,        \* the sets of <<role, scope>> a person may be given (a bound)
  Forms,       \* the <<role, scope, rights>> saved (a bound)
  Asked,       \* the <<kind, user, scope>> asked for, entity 0 perhaps among them (a bound)
  Mints,       \* mint requests at once
  Savers,      \* assignPermissionsToRole requests at once
  None

Scopes == Entities \cup {Everywhere}

Tools == {"warehouse.reservations.create", "chat.messages.send"}
Capacities == {"ai-goal", "ai-workflow:author", "ai-workflow:approver"}

\* A read token is asked for in a capacity, a write token for a tool.
Kinds == Capacities \cup Tools

AiRights ==
  {"use_ai_assistant", "ai_long_goals", "ai_workflow_author", "ai_write_actions",
   "ai_standing_approvals"}
WarehouseRights == {"view_warehouse", "manage_reservations", "manage_warehouse"}
Rights == AiRights \cup WarehouseRights

\* Rights that must all be held.
Needs ==
  [k \in Kinds |->
     CASE k = "ai-goal" -> {"use_ai_assistant", "ai_long_goals"}
       [] k = "ai-workflow:author" -> {"use_ai_assistant", "ai_workflow_author"}
       [] k = "ai-workflow:approver" -> {"use_ai_assistant"}
       [] k \in Tools -> AiRights \ {"ai_workflow_author"}]

\* Rights one of which must be held, where there are any.
AnyOf ==
  [k \in Kinds |-> IF k = "warehouse.reservations.create" THEN WarehouseRights ELSE {}]

ASSUME ScopeZero == Everywhere \notin Entities
ASSUME MapsAreRows == Maps \subseteq SUBSET (Roles \X Scopes)
ASSUME FormsAreRows == Forms \subseteq Roles \X Scopes \X SUBSET Rights
ASSUME AskedIsPosted == Asked \subseteq Kinds \X Users \X Scopes
ASSUME NoneIsNoId == None \notin Users \cup Roles \cup Scopes \cup Kinds

VARIABLES
  account,   \* [Users -> state of the User row]
  assigned,  \* the UserRole rows, <<user, role, scope>>
  granted,   \* the RolePermission rows, <<role, right, scope>>
  member,    \* the <<user, entity>> hr-api would answer with
  mint,      \* [Mints -> request in progress, or the last one with its answer]
  save,      \* [Savers -> assignPermissionsToRole in progress]
  seen       \* history: [Mints -> what was so at some moment of the request]

vars == <<account, assigned, granted, member, mint, save, seen>>

\* What a mint asks about the person.
Facts == {"account", "rights", "tool", "member"}

MintRecord ==
  [pc : {"idle", "user", "assignments", "grants", "ask", "sign",
         "minted", "refused", "unavailable"},
   kind : Kinds \cup {None}, user : Users \cup {None}, entity : Entities \cup {None},
   roles : SUBSET Roles, reason : Facts \cup {None}]

\* For properties only: `alone`, no other save of the same role and scope has been
\* at work meanwhile; `kept`, the rights deleted that are about to be written again.
SaveRecord ==
  [pc : {"idle", "delete", "create"}, role : Roles \cup {None}, scope : Scopes \cup {None},
   rights : SUBSET Rights, alone : BOOLEAN, kept : SUBSET Rights]

TypeOK ==
  /\ account \in [Users -> {"active", "inactive", "deleted"}]
  /\ assigned \subseteq Users \X Roles \X Scopes
  /\ granted \subseteq Roles \X Rights \X Scopes
  /\ member \subseteq Users \X Entities
  /\ mint \in [Mints -> MintRecord]
  /\ save \in [Savers -> SaveRecord]
  /\ seen \in [Mints -> [met : SUBSET Facts, failed : SUBSET Facts, moved : BOOLEAN]]

NoMint == [pc |-> "idle", kind |-> None, user |-> None, entity |-> None, roles |-> {},
           reason |-> None]
NoSave == [pc |-> "idle", role |-> None, scope |-> None, rights |-> {}, alone |-> TRUE,
           kept |-> {}]
NotSeen == [met |-> {}, failed |-> {}, moved |-> FALSE]

Init ==
  /\ account = [u \in Users |-> "active"]
  /\ \E map \in [Users -> Maps] :
       assigned = UNION {{<<u, x[1], x[2]>> : x \in map[u]} : u \in Users}
  /\ granted = {}
  /\ member = Users \X Entities
  /\ mint = [m \in Mints |-> NoMint]
  /\ save = [s \in Savers |-> NoSave]
  /\ seen = [m \in Mints |-> NotSeen]

-----------------------------------------------------------------------------
(* Rights *)

\* A row counts in an organisation when it is for that one or for everywhere.
InScope(e) == {e, Everywhere}

RolesOf(u, e) == {r \in Roles : \E s \in InScope(e) : <<u, r, s>> \in assigned}

\* What roles carry in e, if the rows were `rows`.
Carried(roles, e, rows) ==
  {g[2] : g \in {x \in rows : x[1] \in roles /\ x[3] \in InScope(e)}}

Suffices(kind, held) == Needs[kind] \subseteq held
SufficesForTool(kind, held) == AnyOf[kind] = {} \/ AnyOf[kind] \cap held # {}

-----------------------------------------------------------------------------
(* mint and mintWrite *)

Answered == {"idle", "minted", "refused", "unavailable"}

Goto(m, pc) == mint' = [mint EXCEPT ![m] = [@ EXCEPT !.pc = pc]]
Answer(m, pc) == mint' = [mint EXCEPT ![m] = [NoMint EXCEPT !.pc = pc]]
Refuse(m, reason) ==
  mint' = [mint EXCEPT ![m] = [NoMint EXCEPT !.pc = "refused", !.reason = reason]]

\* Mutant: entity 0 is not refused.
BeginAnywhere(m, k, u, e) ==
  /\ mint[m].pc \in Answered
  /\ mint' = [mint EXCEPT ![m] = [NoMint EXCEPT
                 !.pc = "user", !.kind = k, !.user = u, !.entity = e]]
  /\ UNCHANGED <<account, assigned, granted, member, save>>

\* A request that parses: both forms refuse entity 0.
Begin(m, k, u, e) ==
  /\ mint[m].pc \in Answered
  /\ e # Everywhere
  /\ mint' = [mint EXCEPT ![m] = [NoMint EXCEPT
                 !.pc = "user", !.kind = k, !.user = u, !.entity = e]]
  /\ UNCHANGED <<account, assigned, granted, member, save>>

BeginMint(m, k, u, e) == k \in Capacities /\ Begin(m, k, u, e)
BeginMintWrite(m, k, u, e) == k \in Tools /\ Begin(m, k, u, e)

FindUser(m) ==
  /\ mint[m].pc = "user"
  /\ IF account[mint[m].user] = "active" THEN Goto(m, "assignments") ELSE Refuse(m, "account")
  /\ UNCHANGED <<account, assigned, granted, member, save>>

ReadAssignments(m) ==
  /\ mint[m].pc = "assignments"
  /\ mint' = [mint EXCEPT ![m] = [@ EXCEPT
       !.pc = "grants", !.roles = RolesOf(mint[m].user, mint[m].entity)]]
  /\ UNCHANGED <<account, assigned, granted, member, save>>

\* The decision on the rights, and on the tool's for a write token.
Decide(m, held) ==
  LET k == mint[m].kind
  IN \/ ~Suffices(k, held) /\ Refuse(m, "rights")
     \/ Suffices(k, held) /\ ~SufficesForTool(k, held) /\ Refuse(m, "tool")
     \/ Suffices(k, held) /\ SufficesForTool(k, held) /\ Goto(m, "ask")

\* Mutant: a role's grants count whatever organisation they are for.
ReadGrantsOfAnyScope(m) ==
  /\ mint[m].pc = "grants"
  /\ Decide(m, UNION {Carried(mint[m].roles, e, granted) : e \in Entities})
  /\ UNCHANGED <<account, assigned, granted, member, save>>

ReadGrants(m) ==
  /\ mint[m].pc = "grants"
  /\ Decide(m, Carried(mint[m].roles, mint[m].entity, granted))
  /\ UNCHANGED <<account, assigned, granted, member, save>>

\* Mutant: no answer is taken for an empty one, as in oauth.workspacesFor.
OrganisationsOrNone(m) ==
  /\ mint[m].pc = "ask"
  /\ \/ Refuse(m, "member")
     \/ <<mint[m].user, mint[m].entity>> \in member /\ Goto(m, "sign")
  /\ UNCHANGED <<account, assigned, granted, member, save>>

\* hr-api answers, or does not: an outage is no refusal.
OrganisationsOf(m) ==
  LET in == <<mint[m].user, mint[m].entity>> \in member
  IN /\ mint[m].pc = "ask"
     /\ \/ in /\ Goto(m, "sign")
        \/ ~in /\ Refuse(m, "member")
        \/ Answer(m, "unavailable")
     /\ UNCHANGED <<account, assigned, granted, member, save>>

Sign(m) ==
  /\ mint[m].pc = "sign"
  /\ Answer(m, "minted")
  /\ UNCHANGED <<account, assigned, granted, member, save>>

\* A database error, or the process dies.
FailMint(m) ==
  /\ mint[m].pc \notin Answered
  /\ Answer(m, "unavailable")
  /\ UNCHANGED <<account, assigned, granted, member, save>>

-----------------------------------------------------------------------------
(* assignPermissionsToRole *)

Peers(s, f) ==
  {t \in Savers \ {s} : save[t].pc # "idle" /\ save[t].role = f[1] /\ save[t].scope = f[2]}

\* The role is no super-admin role and the permission rows exist.
BeginSave(s, f) ==
  /\ save[s].pc = "idle"
  /\ save' = [t \in Savers |->
       IF t = s THEN [pc |-> "delete", role |-> f[1], scope |-> f[2], rights |-> f[3],
                      alone |-> Peers(s, f) = {}, kept |-> {}]
       ELSE IF t \in Peers(s, f) THEN [save[t] EXCEPT !.alone = FALSE] ELSE save[t]]
  /\ UNCHANGED <<account, assigned, granted, member, mint>>

Rows(r, scope) == {g \in granted : g[1] = r /\ g[3] = scope}

\* The deletion done: an empty set needs no second call.
Deleted(s, rows) ==
  save' = [save EXCEPT ![s] = IF save[s].rights = {} THEN NoSave
             ELSE [@ EXCEPT !.pc = "create", !.kept = {g[2] : g \in rows} \cap save[s].rights]]

\* Mutant: the base set is replaced, whatever scope is saved.
DeleteBaseGrants(s) ==
  /\ save[s].pc = "delete"
  /\ granted' = granted \ Rows(save[s].role, Everywhere)
  /\ Deleted(s, Rows(save[s].role, Everywhere))
  /\ UNCHANGED <<account, assigned, member, mint>>

\* Two calls outside any transaction.
DeleteGrants(s) ==
  /\ save[s].pc = "delete"
  /\ granted' = granted \ Rows(save[s].role, save[s].scope)
  /\ Deleted(s, Rows(save[s].role, save[s].scope))
  /\ UNCHANGED <<account, assigned, member, mint>>

Posted(s) == {<<save[s].role, p, save[s].scope>> : p \in save[s].rights}

\* skipDuplicates
CreateGrants(s) ==
  /\ save[s].pc = "create"
  /\ granted' = granted \cup Posted(s)
  /\ save' = [save EXCEPT ![s] = NoSave]
  /\ UNCHANGED <<account, assigned, member, mint>>

FailSave(s) ==
  /\ save[s].pc # "idle"
  /\ save' = [save EXCEPT ![s] = NoSave]
  /\ UNCHANGED <<account, assigned, granted, member, mint>>

-----------------------------------------------------------------------------
(* The person *)

\* A role map, or one of the two calls of assignRolesToUser: see SuperAdmins.
Reassign(u, map) ==
  /\ account[u] # "deleted"
  /\ assigned' = {x \in assigned : x[1] # u} \cup {<<u, x[1], x[2]>> : x \in map}
  /\ UNCHANGED <<account, granted, member, mint, save>>

SetAccount(u, from, to) ==
  /\ account[u] \in from
  /\ account' = [account EXCEPT ![u] = to]
  /\ assigned' = IF to = "deleted" THEN {x \in assigned : x[1] # u} ELSE assigned
  /\ UNCHANGED <<granted, member, mint, save>>

DeactivateUser(u) == SetAccount(u, {"active"}, "inactive")
ReactivateUser(u) == SetAccount(u, {"inactive"}, "active")
DeleteUser(u) == SetAccount(u, {"active", "inactive"}, "deleted")

\* hr-api's own data, where anything is asked about it.
MoveMember(u, e) ==
  /\ e \in Entities
  /\ member' = IF <<u, e>> \in member THEN member \ {<<u, e>>} ELSE member \cup {<<u, e>>}
  /\ UNCHANGED <<account, assigned, granted, mint, save>>

-----------------------------------------------------------------------------
(* History *)

\* What is so of the person of request m, if the grants were `rows`.
Truth(m, rows) ==
  LET k == mint[m].kind
      held == Carried(RolesOf(mint[m].user, mint[m].entity), mint[m].entity, rows)
  IN {f \in Facts :
        \/ f = "account" /\ account[mint[m].user] = "active"
        \/ f = "rights" /\ Suffices(k, held)
        \/ f = "tool" /\ SufficesForTool(k, held)
        \/ f = "member" /\ <<mint[m].user, mint[m].entity>> \in member}

TruthNow(m) == Truth(m, granted)

\* The same with the rows counted that a save has deleted and is about to write again.
TruthMeant(m) ==
  Truth(m, granted \cup
    UNION {{<<save[s].role, p, save[s].scope>> : p \in save[s].kept} : s \in Savers})

\* The facts a request may still be refused for.
Undecided(pc) ==
  CASE pc = "user" -> Facts
    [] pc \in {"assignments", "grants"} -> Facts \ {"account"}
    [] pc = "ask" -> {"member"}
    [] OTHER -> {}

\* A request is watched from its arrival to its answer.
Watch ==
  seen' = [m \in Mints |->
    IF mint'[m].pc \in Answered THEN NotSeen
    ELSE LET now == TruthNow(m)'
         IN [met |-> seen[m].met \cup now,
             failed |-> (seen[m].failed \cup (Facts \ now)) \cap Undecided(mint'[m].pc),
             moved |-> seen[m].moved \/ (mint[m].pc = "grants" /\ assigned' # assigned)]]

Step ==
  \/ \E m \in Mints :
       \/ \E a \in Asked :
            BeginMint(m, a[1], a[2], a[3]) \/ BeginMintWrite(m, a[1], a[2], a[3])
       \/ FindUser(m) \/ ReadAssignments(m) \/ ReadGrants(m) \/ OrganisationsOf(m)
       \/ Sign(m) \/ FailMint(m)
  \/ \E s \in Savers :
       \/ \E f \in Forms : BeginSave(s, f)
       \/ DeleteGrants(s) \/ CreateGrants(s) \/ FailSave(s)
  \/ \E u \in Users :
       \/ \E map \in Maps : Reassign(u, map)
       \/ DeactivateUser(u) \/ ReactivateUser(u) \/ DeleteUser(u)
  \/ \E a \in Asked : MoveMember(a[2], a[3])

Next == Step /\ Watch

Spec == Init /\ [][Next]_vars

-----------------------------------------------------------------------------
(* Properties *)

\* The step that answers request m with pc.
Answers(m, pc) == mint[m].pc \notin Answered /\ mint'[m].pc = pc

\* A token is minted only for a person who, at some moment of the request, had the
\* account; at some moment all the rights asked for, and the tool's; and at some
\* moment was a member - the rights unless the person's roles were changed between
\* the two queries that read them (mint, mintWrite).
MintedWasQualified ==
  [][ \A m \in Mints : Answers(m, "minted") =>
        /\ {"account", "member"} \subseteq seen[m].met
        /\ seen[m].moved \/ {"rights", "tool"} \subseteq seen[m].met ]_vars

\* A refusal, which ends a goal, has its reason: at some moment of the request the
\* person lacked what it names, with the same exception.  No outage of hr-api and
\* no failure is answered as one.
RefusedWasUnqualified ==
  [][ \A m \in Mints : Answers(m, "refused") =>
        \/ mint'[m].reason \in seen[m].failed
        \/ mint'[m].reason \in {"rights", "tool"} /\ seen[m].moved ]_vars

\* A save nobody else's save of that role and scope overlapped leaves there exactly
\* what it posted (assignPermissionsToRole).
LoneSaveReplaces ==
  [][ \A s \in Savers :
        save[s].alone /\ save[s].pc # "idle" /\ save'[s].pc = "idle" /\ granted' # granted =>
          {g \in granted' : g[1] = save[s].role /\ g[3] = save[s].scope} = Posted(s) ]_vars

\* delegated-write-token.contract: a 403 says "the owner lost a right".  A save that
\* has deleted a role's right and is about to write it again takes none away.
RefusedHasLostRight ==
  [][ \A m \in Mints : Answers(m, "refused") /\ ~seen[m].moved =>
        mint'[m].reason \notin TruthMeant(m) ]_vars
=============================================================================

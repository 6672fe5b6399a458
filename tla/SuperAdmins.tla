----------------------------- MODULE SuperAdmins -----------------------------
(***************************************************************************)
(* Who holds which role, and who can still administer: the role maps of    *)
(* RolesService (assignRoleMapToUser, assignRolesToUser, deleteRole) and   *)
(* the deactivation and deletion of accounts by UsersService.              *)
(*                                                                         *)
(* A handler is a job that stops at every `await` on the database.  A      *)
(* $transaction runs under READ COMMITTED: its deleteMany removes the rows *)
(* it saw, less those another transaction removed first, and none of the   *)
(* rows others add meanwhile.  Super-admin roles are written at the        *)
(* database only, so which roles they are never changes here.              *)
(***************************************************************************)
EXTENDS FiniteSets

CONSTANTS
  Users,      \* User ids
  Full,       \* the super-admin roles that may write
  ReadOnly,   \* the read-only super-admin roles
  Plain,      \* the other roles
  Entities,   \* the scopes of an assignment, 0 (everywhere) among them
  Held,       \* the sets of <<role, entity>> a person may hold at the start (a bound)
  Maps,       \* the sets of <<role, entity>> a form may post (a bound)
  Jobs,       \* requests being processed at once
  Authority,  \* stands for the right to administer, in `raced`
  None        \* no user, no role

Super == Full \cup ReadOnly
Roles == Super \cup Plain

ASSUME RoleKinds == Full \cap ReadOnly = {} /\ Super \cap Plain = {}
ASSUME MapsAreRows == Held \cup Maps \subseteq SUBSET (Roles \X Entities)
ASSUME Distinct == None \notin Users \cup Roles /\ Authority \notin Users \cup Roles

VARIABLES
  user,   \* [Users -> state of the User row]
  roles,  \* the Role rows
  holds,  \* the UserRole rows, <<user, role, entity>>
  job,    \* [Jobs -> request in progress]
  (* history, read by properties only *)
  raced   \* the users and plain roles, or the Authority, two jobs were at work on at once

vars == <<user, roles, holds, job, raced>>

Row == Users \X Roles \X Entities

\* "admins", "others", "holders": before a check; "write", "delete", "clear",
\* "drop": before the write it allows; "commit" and "add": before the second write.
JobRecord ==
  [pc : {"idle", "admins", "write", "others", "delete", "commit", "clear", "add", "drop"},
   user : Users \cup {None}, role : Roles \cup {None},
   rows : SUBSET (Roles \X Entities), scope : SUBSET Entities,
   manage : BOOLEAN, own : BOOLEAN, doomed : SUBSET Row]

TypeOK ==
  /\ user \in [Users -> {"active", "inactive", "deleted"}]
  /\ roles \subseteq Roles
  /\ holds \subseteq Row
  /\ job \in [Jobs -> JobRecord]
  /\ raced \subseteq Users \cup Plain \cup {Authority}

Idle == [pc |-> "idle", user |-> None, role |-> None, rows |-> {}, scope |-> {},
         manage |-> FALSE, own |-> FALSE, doomed |-> {}]

RowsOf(u) == {h \in holds : h[1] = u}
Holders(S) == {u \in Users : \E h \in holds : h[1] = u /\ h[2] \in S}
Assigned(u, rows) == {<<u, x[1], x[2]>> : x \in rows}

\* The accounts that can administer: active, with a super-admin role that is not read-only.
Admins == {u \in Holders(Full) : user[u] = "active"}

Init ==
  /\ user = [u \in Users |-> "active"]
  /\ roles = Roles
  /\ \E map \in [Users -> Held] : holds = UNION {Assigned(u, map[u]) : u \in Users}
  /\ Holders(Full) # {} /\ Holders(Full) \cap Holders(ReadOnly) = {}
  /\ job = [j \in Jobs |-> Idle]
  /\ raced = {}

-----------------------------------------------------------------------------
(* Jobs *)

\* What a job is at work on, super-admin roles excepted: for the history only.
Touched(k) ==
  (({k.user, k.role} \cup {x[1] : x \in k.rows}) \cap (Users \cup Plain))
    \cup (IF k.pc \in {"admins", "write"} \/ k.manage THEN {Authority} ELSE {})

Begin(j, k) ==
  /\ job[j].pc = "idle"
  /\ job' = [job EXCEPT ![j] = k]
  /\ raced' = raced \cup (Touched(k) \cap
                UNION {Touched(job[i]) : i \in Jobs \ {j}})
  /\ UNCHANGED <<user, roles, holds>>

Goto(j, pc) == job' = [job EXCEPT ![j].pc = pc]
End(j) == job' = [job EXCEPT ![j] = Idle]

\* Refused by a check, stopped by a database error, or the process died: a
\* transaction rolls back.
Stop(j) == End(j) /\ UNCHANGED <<user, roles, holds, raced>>

FailJob(j) == job[j].pc # "idle" /\ Stop(j)

\* Job j removes the rows S and goes on as k: no transaction that saw them
\* removes them again.
Removing(j, S, k) ==
  job' = [i \in Jobs |-> IF i = j THEN k ELSE [job[i] EXCEPT !.doomed = job[i].doomed \ S]]

-----------------------------------------------------------------------------
(* Accounts *)

\* A deactivated account is answered as it is; a deleted one is not found.
BeginDeactivate(j, u) ==
  /\ user[u] = "active"
  /\ Begin(j, [Idle EXCEPT !.pc = "admins", !.user = u])

\* Mutant: read-only super-admins count as admins.
AssertNotLastOfAnyAdmin(j) ==
  LET admins == {u \in Holders(Super) : user[u] = "active"}
  IN /\ job[j].pc = "admins"
     /\ IF admins = {job[j].user} THEN Stop(j)
        ELSE Goto(j, "write") /\ UNCHANGED <<user, roles, holds, raced>>

AssertNotLastAdmin(j) ==
  /\ job[j].pc = "admins"
  /\ IF Admins = {job[j].user} THEN Stop(j)
     ELSE Goto(j, "write") /\ UNCHANGED <<user, roles, holds, raced>>

WriteDeactivated(j) ==
  LET u == job[j].user
  IN /\ job[j].pc = "write"
     /\ \/ user[u] = "deleted" /\ Stop(j)
        \/ /\ user[u] # "deleted"
           /\ user' = [user EXCEPT ![u] = "inactive"]
           /\ End(j)
           /\ UNCHANGED <<roles, holds, raced>>

\* One step: nothing is decided between the read and the update.
ReactivateUser(u) ==
  /\ user[u] = "inactive"
  /\ user' = [user EXCEPT ![u] = "active"]
  /\ UNCHANGED <<roles, holds, job, raced>>

\* The last admin is not asked about; the assignments go by cascade.
DeleteUser(u) ==
  /\ user[u] # "deleted"
  /\ user' = [user EXCEPT ![u] = "deleted"]
  /\ holds' = holds \ RowsOf(u)
  /\ UNCHANGED <<roles, job, raced>>

-----------------------------------------------------------------------------
(* assignRoleMapToUser *)

HasFull(rows) == \E x \in rows : x[1] \in Full
HasReadOnly(rows) == \E x \in rows : x[1] \in ReadOnly

\* Mutants: a form may hold both roles; nobody is asked whether the role dropped is
\* their own.
BeginManagedMapOfBoth(j, u, rows, own) ==
  LET dropped == {h \in RowsOf(u) : h[2] \in Super} \ Assigned(u, rows)
  IN /\ ~(own /\ dropped # {})
     /\ Begin(j, [Idle EXCEPT
          !.pc = IF (\E h \in dropped : h[2] \in Full) /\ ~HasFull(rows)
                 THEN "others" ELSE "delete",
          !.user = u, !.rows = rows, !.manage = TRUE, !.own = own])

BeginManagedMapOfAnyone(j, u, rows, own) ==
  LET dropped == {h \in RowsOf(u) : h[2] \in Super} \ Assigned(u, rows)
  IN /\ ~(HasFull(rows) /\ HasReadOnly(rows))
     /\ Begin(j, [Idle EXCEPT
          !.pc = IF (\E h \in dropped : h[2] \in Full) /\ ~HasFull(rows)
                 THEN "others" ELSE "delete",
          !.user = u, !.rows = rows, !.manage = TRUE, !.own = own])

\* A super-admin saves the form: both roles at once are refused, so is dropping
\* one's own, and dropping a writing super-admin role for none asks about others.
BeginManagedMap(j, u, rows, own) ==
  LET current == {h \in RowsOf(u) : h[2] \in Super}
      dropped == current \ Assigned(u, rows)
      dropsFull == \E h \in dropped : h[2] \in Full
  IN /\ ~(HasFull(rows) /\ HasReadOnly(rows))
     /\ ~(own /\ dropped # {})
     /\ Begin(j, [Idle EXCEPT
          !.pc = IF dropsFull /\ ~HasFull(rows) THEN "others" ELSE "delete",
          !.user = u, !.rows = rows, !.manage = TRUE, !.own = own])

CountOthers(j) ==
  /\ job[j].pc = "others"
  /\ IF Admins \ {job[j].user} = {} THEN Stop(j)
     ELSE Goto(j, "delete") /\ UNCHANGED <<user, roles, holds, raced>>

\* Anyone else's form holds no super-admin role.
BeginPlainMap(j, u, rows) ==
  /\ ~HasFull(rows) /\ ~HasReadOnly(rows)
  /\ Begin(j, [Idle EXCEPT !.pc = "delete", !.user = u, !.rows = rows])

\* Mutants: the full-map replace takes super-admin assignments along; it spares
\* them for a managed map too.
DeleteEveryRow(j) ==
  /\ job[j].pc = "delete"
  /\ job' = [job EXCEPT ![j] = [job[j] EXCEPT !.pc = "commit", !.doomed = RowsOf(job[j].user)]]
  /\ UNCHANGED <<user, roles, holds, raced>>

DeletePlainRows(j) ==
  /\ job[j].pc = "delete"
  /\ job' = [job EXCEPT ![j] = [job[j] EXCEPT
       !.pc = "commit", !.doomed = {h \in RowsOf(job[j].user) : h[2] \notin Super}]]
  /\ UNCHANGED <<user, roles, holds, raced>>

\* The transaction's deleteMany: every row it sees, or every row of a role that
\* is no super-admin role.
DeleteRows(j) ==
  /\ job[j].pc = "delete"
  /\ job' = [job EXCEPT ![j] = [job[j] EXCEPT
       !.pc = "commit",
       !.doomed = {h \in RowsOf(job[j].user) : job[j].manage \/ h[2] \notin Super}]]
  /\ UNCHANGED <<user, roles, holds, raced>>

\* A role or user that is gone fails the foreign key of the new rows.
KeysExist(j) ==
  \/ job[j].rows = {}
  \/ user[job[j].user] # "deleted" /\ {x[1] : x \in job[j].rows} \subseteq roles

\* Its createMany, which skips duplicates, and the commit.
CommitMap(j) ==
  LET k == job[j]
  IN /\ k.pc = "commit"
     /\ \/ ~KeysExist(j) /\ Stop(j)
        \/ /\ KeysExist(j)
           /\ holds' = (holds \ k.doomed) \cup Assigned(k.user, k.rows)
           /\ Removing(j, k.doomed, Idle)
           /\ UNCHANGED <<user, roles, raced>>

-----------------------------------------------------------------------------
(* assignRolesToUser *)

\* One entity's set is replaced, super-admin roles excepted both ways.
BeginAssign(j, u, rows, e) ==
  /\ \A x \in rows : x[1] \notin Super /\ x[2] = e
  /\ Begin(j, [Idle EXCEPT !.pc = "clear", !.user = u, !.rows = rows, !.scope = {e}])

\* Two calls outside any transaction.
ClearScope(j) ==
  LET k == job[j]
      gone == {h \in RowsOf(k.user) : h[3] \in k.scope /\ h[2] \notin Super}
  IN /\ k.pc = "clear"
     /\ holds' = holds \ gone
     /\ Removing(j, gone, IF k.rows = {} THEN Idle ELSE [k EXCEPT !.pc = "add"])
     /\ UNCHANGED <<user, roles, raced>>

\* Mutant: the new rows lack userId.
AddRowsOfNobody(j) ==
  /\ job[j].pc = "add"
  /\ holds' = holds \cup job[j].rows
  /\ End(j)
  /\ UNCHANGED <<user, roles, raced>>

\* No duplicates are skipped here: one fails the whole call.
AddRows(j) ==
  LET k == job[j]
      new == Assigned(k.user, k.rows)
  IN /\ k.pc = "add"
     /\ \/ (~KeysExist(j) \/ new \cap holds # {}) /\ Stop(j)
        \/ /\ KeysExist(j) /\ new \cap holds = {}
           /\ holds' = holds \cup new
           /\ End(j)
           /\ UNCHANGED <<user, roles, raced>>

-----------------------------------------------------------------------------
(* deleteRole *)

\* Mutant: only holders in the first scope are counted.
BeginDeleteRoleOfScope(j, r) ==
  /\ r \in roles \ Super
  /\ \E e \in Entities : \A h \in holds : ~(h[2] = r /\ h[3] = e)
  /\ Begin(j, [Idle EXCEPT !.pc = "drop", !.role = r])

\* Refused for a super-admin role, and while anyone holds it in any scope.
BeginDeleteRole(j, r) ==
  /\ r \in roles \ Super
  /\ Holders({r}) = {}
  /\ Begin(j, [Idle EXCEPT !.pc = "drop", !.role = r])

DropRole(j) ==
  LET r == job[j].role
  IN /\ job[j].pc = "drop"
     /\ roles' = roles \ {r}
     /\ holds' = {h \in holds : h[2] # r}
     /\ End(j)
     /\ UNCHANGED <<user, raced>>

-----------------------------------------------------------------------------

Start(j) ==
  \/ \E u \in Users :
       \/ BeginDeactivate(j, u)
       \/ \E rows \in Maps :
            \/ \E own \in BOOLEAN : BeginManagedMap(j, u, rows, own)
            \/ BeginPlainMap(j, u, rows)
            \/ \E e \in Entities : BeginAssign(j, u, rows, e)
  \/ \E r \in Plain : BeginDeleteRole(j, r)

Continue(j) ==
  \/ AssertNotLastAdmin(j) \/ WriteDeactivated(j)
  \/ CountOthers(j) \/ DeleteRows(j) \/ CommitMap(j)
  \/ ClearScope(j) \/ AddRows(j)
  \/ DropRole(j)

Next ==
  \/ \E j \in Jobs : Start(j) \/ Continue(j) \/ FailJob(j)
  \/ \E u \in Users : ReactivateUser(u) \/ DeleteUser(u)

Spec == Init /\ [][Next]_vars

-----------------------------------------------------------------------------
(* Properties *)

NobodyDeleted == \A u \in Users : user[u] # "deleted"

\* Deactivations and managed maps that do not overlap, whatever else runs beside
\* them and wherever they die, leave someone who can administer, unless an account
\* was deleted (assertNotLastAdmin, assignRoleMapToUser).
AdminStaysUnlessRaced ==
  NobodyDeleted /\ Authority \notin raced => Admins # {}

\* Nobody two saves were not at work on at once is a super-admin and a read-only
\* super-admin (assignRoleMapToUser).
OneSuperRoleUnlessRaced ==
  Holders(Full) \cap Holders(ReadOnly) \subseteq raced

\* Super-admin assignments change by a managed map, or go with their account, and
\* by nothing else: not by the plain saves, not by the deletion of roles.
SuperRowsUntouched ==
  [][ \A h \in (holds \ holds') \cup (holds' \ holds) :
        h[2] \in Super =>
          \/ user'[h[1]] = "deleted"
          \/ \E j \in Jobs : job[j].pc = "commit" /\ job[j].manage /\ job[j].user = h[1]
                             /\ job'[j].pc = "idle" ]_vars

\* A role no save was adding meanwhile is deleted only when nobody holds it: the
\* cascade strips nobody (deleteRole).
DeletionStripsNobody ==
  [][ \A r \in roles \ roles' : r \notin raced => Holders({r}) = {} ]_vars

\* Who saves their own map keeps every super-admin role they have, unless two
\* saves were at work on them at once (assignRoleMapToUser).
OwnSuperRoleStays ==
  [][ \A j \in Jobs :
        LET u == job[j].user
        IN job[j].own /\ job[j].pc = "commit" /\ u \notin raced
             => {h \in RowsOf(u) : h[2] \in Super} \subseteq holds'
                \/ user'[u] = "deleted" ]_vars

\* deactivateUser: "The last account that can administer users must stay usable".
LastAdminStays ==
  NobodyDeleted => Admins # {}

\* assignRoleMapToUser: "One account is a super-admin or a read-only super-admin,
\* never both".
OneSuperRole ==
  Holders(Full) \cap Holders(ReadOnly) = {}
=============================================================================

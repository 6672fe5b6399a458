-------------------------- MODULE SuperAdmins_proofs --------------------------
(* Theorems about SuperAdmins, for every value of its constants. *)
EXTENDS SuperAdmins, TLAPS

-----------------------------------------------------------------------------
(* The invariant *)

Deciding == {"admins", "write", "others", "delete", "commit", "clear", "add"}

\* A job past its first check names its user or its role; only a managed map posts
\* super-admin roles, never both kinds; a transaction removes rows of its user only,
\* none of a super-admin role unless it is a managed map.
Placed(k) ==
  /\ k.pc \in Deciding => k.user \in Users
  /\ k.pc = "drop" => k.role \in Plain
  /\ k.own => k.manage
  /\ k.manage => k.pc \in {"others", "delete", "commit"}
  /\ IF k.manage THEN ~(HasFull(k.rows) /\ HasReadOnly(k.rows))
     ELSE ~HasFull(k.rows) /\ ~HasReadOnly(k.rows)
  /\ \A h \in k.doomed : h[1] = k.user /\ (h[2] \in Super => k.manage)

Typed == TypeOK /\ \A j \in Jobs : Placed(job[j])

\* Two jobs at work on one user, one plain role or the right to administer are
\* known to be.
Apart ==
  \A i, j \in Jobs : i # j => Touched(job[i]) \cap Touched(job[j]) \subseteq raced

SuperRowsOf(u) == {h \in RowsOf(u) : h[2] \in Super}

\* The replace of a managed map removes every super-admin row there is, and
\* one's own posts every one of them again.
Replaces(k) ==
  k.user \notin raced =>
    \A h \in holds : h[1] = k.user /\ h[2] \in Super =>
      /\ k.manage /\ k.pc = "commit" => h \in k.doomed
      /\ k.own => h \in Assigned(k.user, k.rows)

\* A role about to go is held by nobody.
Unheld(k) == k.pc = "drop" /\ k.role \notin raced => Holders({k.role}) = {}

\* Somebody administers, and somebody else does when a job may take it from its
\* user.
Spared(k) ==
  k.pc = "write" \/ (k.manage /\ k.pc \in {"delete", "commit"} /\ ~HasFull(k.rows))
    => Admins \ {k.user} # {}
Governed ==
  NobodyDeleted /\ Authority \notin raced =>
    Admins # {} /\ \A j \in Jobs : Spared(job[j])

AllReplace == \A j \in Jobs : Replaces(job[j])
AllUnheld == \A j \in Jobs : Unheld(job[j])

Inv == Typed /\ Apart /\ AllReplace /\ AllUnheld /\ OneSuperRoleUnlessRaced /\ Governed

-----------------------------------------------------------------------------
(* Jobs *)

LEMMA IdleFields ==
  /\ Idle \in JobRecord /\ Idle.pc = "idle" /\ Idle.user = None /\ Idle.role = None
  /\ Idle.rows = {} /\ Idle.manage = FALSE /\ Idle.own = FALSE /\ Idle.doomed = {}
  BY DEF Idle, JobRecord

LEMMA NobodyIsIdle == Placed(Idle) /\ Touched(Idle) = {}
<1>1. ~HasFull({}) /\ ~HasReadOnly({})
  BY DEF HasFull, HasReadOnly
<1>2. Placed(Idle)
  BY <1>1, IdleFields DEF Placed, Deciding
<1>3. None \notin Users \cup Plain
  BY Distinct DEF Roles
<1> QED BY <1>2, <1>3, IdleFields DEF Touched

LEMMA PcFields ==
  ASSUME NEW k \in JobRecord,
         NEW p \in Deciding \cup {"idle", "drop"}, NEW l, l = [k EXCEPT !.pc = p]
  PROVE  /\ l \in JobRecord /\ l.pc = p /\ l.user = k.user /\ l.role = k.role
         /\ l.rows = k.rows /\ l.manage = k.manage /\ l.own = k.own /\ l.doomed = k.doomed
  BY DEF JobRecord, Deciding

CommitJob(k, S) == [k EXCEPT !.pc = "commit", !.doomed = S]

LEMMA CommitFields ==
  ASSUME NEW k \in JobRecord, NEW S \in SUBSET Row, NEW l, l = CommitJob(k, S)
  PROVE  /\ l \in JobRecord /\ l.pc = "commit" /\ l.user = k.user /\ l.role = k.role
         /\ l.rows = k.rows /\ l.manage = k.manage /\ l.own = k.own /\ l.doomed = S
  BY DEF CommitJob, JobRecord

LEMMA DoomedFields ==
  ASSUME NEW k \in JobRecord, NEW S, NEW l, l = [k EXCEPT !.doomed = k.doomed \ S]
  PROVE  /\ l \in JobRecord /\ l.pc = k.pc /\ l.user = k.user /\ l.role = k.role
         /\ l.rows = k.rows /\ l.manage = k.manage /\ l.own = k.own
         /\ l.doomed = k.doomed \ S
  BY DEF JobRecord

\* The jobs the handlers begin.
DeactivateJob(u) == [Idle EXCEPT !.pc = "admins", !.user = u]
ManagedJob(p, u, rows, own) ==
  [Idle EXCEPT !.pc = p, !.user = u, !.rows = rows, !.manage = TRUE, !.own = own]
PlainJob(u, rows) == [Idle EXCEPT !.pc = "delete", !.user = u, !.rows = rows]
AssignJob(u, rows, e) ==
  [Idle EXCEPT !.pc = "clear", !.user = u, !.rows = rows, !.scope = {e}]
DropJob(r) == [Idle EXCEPT !.pc = "drop", !.role = r]

LEMMA DeactivateFields ==
  ASSUME NEW u \in Users, NEW k, k = DeactivateJob(u)
  PROVE  /\ k \in JobRecord /\ k.pc = "admins" /\ k.user = u /\ k.role = None
         /\ k.rows = {} /\ k.manage = FALSE /\ k.own = FALSE /\ k.doomed = {}
  BY DEF DeactivateJob, Idle, JobRecord

LEMMA ManagedFields ==
  ASSUME NEW u \in Users, NEW rows \in Maps, NEW own \in BOOLEAN,
         NEW p \in {"others", "delete"}, NEW k, k = ManagedJob(p, u, rows, own)
  PROVE  k \in JobRecord /\ k.pc = p /\ k.user = u /\ k.rows = rows /\ k.doomed = {}
  BY MapsAreRows DEF ManagedJob, Idle, JobRecord

LEMMA ManagedFlags ==
  ASSUME NEW u, NEW rows, NEW own \in BOOLEAN, NEW p, NEW k, k = ManagedJob(p, u, rows, own)
  PROVE  k.manage = TRUE /\ k.own = own
  BY DEF ManagedJob, Idle

LEMMA PlainFields ==
  ASSUME NEW u \in Users, NEW rows \in Maps,
         NEW k, k = PlainJob(u, rows)
  PROVE  /\ k \in JobRecord /\ k.pc = "delete" /\ k.user = u /\ k.rows = rows
         /\ k.manage = FALSE /\ k.own = FALSE /\ k.doomed = {}
  BY MapsAreRows DEF PlainJob, Idle, JobRecord

LEMMA AssignFields ==
  ASSUME NEW u \in Users, NEW rows \in Maps, NEW e \in Entities,
         NEW k, k = AssignJob(u, rows, e)
  PROVE  /\ k \in JobRecord /\ k.pc = "clear" /\ k.user = u /\ k.rows = rows
         /\ k.manage = FALSE /\ k.own = FALSE /\ k.doomed = {}
  BY MapsAreRows DEF AssignJob, Idle, JobRecord

LEMMA DropFields ==
  ASSUME NEW r \in Plain, NEW k, k = DropJob(r)
  PROVE  /\ k \in JobRecord /\ k.pc = "drop" /\ k.user = None /\ k.role = r
         /\ k.rows = {} /\ k.manage = FALSE /\ k.own = FALSE /\ k.doomed = {}
  BY DEF DropJob, Idle, JobRecord, Roles

-----------------------------------------------------------------------------
(* How jobs move *)

Alike(k, l) ==
  /\ l.user = k.user /\ l.role = k.role /\ l.rows = k.rows
  /\ l.manage = k.manage /\ l.own = k.own

\* A job goes on, or is over; beside it another may lose doomed rows of user u.
Later(k, l) ==
  \/ l = Idle
  \/ /\ Alike(k, l)
     /\ <<k.pc, l.pc>> \in {<<"admins", "write">>, <<"others", "delete">>,
                            <<"delete", "commit">>, <<"clear", "add">>}
     /\ l.pc # "commit" => l.doomed = k.doomed
Beside(k, l, u) ==
  /\ Alike(k, l) /\ l.pc = k.pc /\ l.doomed \subseteq k.doomed
  /\ \A h \in k.doomed \ l.doomed : h[1] = u

\* A step of job j.
Moves(j) ==
  /\ job' \in [Jobs -> JobRecord]
  /\ Placed(job'[j]) /\ Later(job[j], job'[j])
  /\ \A i \in Jobs \ {j} : Beside(job[i], job'[i], job[j].user)
  /\ raced' = raced

LEMMA Goes ==
  ASSUME Typed, NEW j \in Jobs, NEW l \in JobRecord, job' = [job EXCEPT ![j] = l],
         Placed(l), Later(job[j], l), raced' = raced
  PROVE  Moves(j) /\ job'[j] = l
  BY DEF Typed, TypeOK, Moves, Beside, Alike

LEMMA Ends ==
  ASSUME Typed, NEW j \in Jobs, End(j), raced' = raced
  PROVE  Moves(j) /\ job'[j] = Idle
  BY Goes, IdleFields, NobodyIsIdle DEF End, Later

LEMMA Removes ==
  ASSUME Typed, NEW j \in Jobs, NEW l \in JobRecord, NEW S, Removing(j, S, l),
         Placed(l), Later(job[j], l), raced' = raced, \A h \in S : h[1] = job[j].user
  PROVE  Moves(j) /\ job'[j] = l
<1>1. \A i \in Jobs : job[i] \in JobRecord
  BY DEF Typed, TypeOK
<1>2. job'[j] = l
  BY DEF Removing
<1>3. ASSUME NEW i \in Jobs \ {j}
      PROVE  job'[i] \in JobRecord /\ Beside(job[i], job'[i], job[j].user)
  <2>1. job'[i] = [job[i] EXCEPT !.doomed = job[i].doomed \ S]
    BY DEF Removing
  <2>2. /\ job'[i] \in JobRecord /\ Alike(job[i], job'[i]) /\ job'[i].pc = job[i].pc
        /\ job'[i].doomed = job[i].doomed \ S
    BY <1>1, <2>1, DoomedFields DEF Alike
  <2> QED BY <2>2 DEF Beside
<1>4. job' \in [Jobs -> JobRecord]
  BY <1>2, <1>3 DEF Removing
<1> QED BY <1>2, <1>3, <1>4 DEF Moves

-----------------------------------------------------------------------------
(* What the steps do *)

LEMMA AssignedRows ==
  ASSUME NEW u \in Users, NEW rows \in SUBSET (Roles \X Entities)
  PROVE  /\ Assigned(u, rows) \subseteq Row
         /\ \A h \in Assigned(u, rows) :
              h[1] = u /\ (\E x \in rows : x[1] = h[2] /\ x[2] = h[3])
         /\ ~HasFull(rows) => \A h \in Assigned(u, rows) : h[2] \notin Full
         /\ ~HasReadOnly(rows) => \A h \in Assigned(u, rows) : h[2] \notin ReadOnly
<1>1. \A x \in rows : x[1] \in Roles /\ x[2] \in Entities
  OBVIOUS
<1>2. \A h \in Assigned(u, rows) : \E x \in rows : h = <<u, x[1], x[2]>>
  BY DEF Assigned
<1>3. Assigned(u, rows) \subseteq Row
  BY <1>1, <1>2 DEF Row
<1> QED BY <1>1, <1>2, <1>3 DEF HasFull, HasReadOnly

\* Job j writes rows it posts and, if it commits a managed map, removes
\* super-admin rows it doomed; nobody else's super-admin row changes.
RowsMove(j) ==
  /\ holds' \subseteq Row
  /\ \A h \in holds' \ holds :
       /\ job[j].pc \in {"commit", "add"} /\ job'[j] = Idle
       /\ h \in Assigned(job[j].user, job[j].rows)
  /\ \A h \in holds \ holds' : h[2] \in Super =>
       job[j].pc = "commit" /\ job[j].manage /\ job'[j] = Idle /\ h \in job[j].doomed

\* It writes one account at most, as a deactivation.
UserMoves(j) ==
  \/ UNCHANGED user
  \/ /\ job[j].pc = "write" /\ job[j].user \in Users /\ user[job[j].user] # "deleted"
     /\ user' = [user EXCEPT ![job[j].user] = "inactive"] /\ UNCHANGED holds

LEMMA StopMoves ==
  ASSUME Typed, NEW j \in Jobs, Stop(j)
  PROVE  Moves(j) /\ job'[j] = Idle /\ RowsMove(j) /\ UNCHANGED <<user, roles, holds, raced>>
  BY Ends DEF Stop, RowsMove, Typed, TypeOK

LEMMA NotLastMoves ==
  ASSUME Typed, NEW j \in Jobs, AssertNotLastAdmin(j)
  PROVE  /\ Moves(j) /\ RowsMove(j) /\ UNCHANGED <<user, roles, holds, raced>>
         /\ job'[j] = Idle \/ (job'[j].pc = "write" /\ Admins # {job[j].user})
<1>1. CASE Stop(j)
  BY <1>1, StopMoves
<1>2. CASE Admins # {job[j].user} /\ Goto(j, "write") /\ UNCHANGED <<user, roles, holds, raced>>
  <2> DEFINE k == job[j]
             l == [k EXCEPT !.pc = "write"]
  <2>1. k \in JobRecord /\ k.pc = "admins" /\ Placed(k)
    BY DEF Typed, TypeOK, AssertNotLastAdmin
  <2>2. job' = [job EXCEPT ![j] = l]
    BY <1>2 DEF Goto
  <2>3. l \in JobRecord /\ l.pc = "write" /\ Alike(k, l) /\ l.doomed = k.doomed
    BY <2>1, PcFields DEF Alike, Deciding
  <2> HIDE DEF k, l
  <2>4. Placed(l) /\ Later(k, l)
    BY <2>1, <2>3 DEF Placed, Later, Alike, Deciding
  <2>5. Moves(j) /\ job'[j] = l
    BY <1>2, <2>2, <2>3, <2>4, Goes DEF k
  <2> QED BY <1>2, <2>3, <2>5 DEF RowsMove, Typed, TypeOK
<1> QED BY <1>1, <1>2 DEF AssertNotLastAdmin

LEMMA CountMoves ==
  ASSUME Typed, NEW j \in Jobs, CountOthers(j)
  PROVE  /\ Moves(j) /\ RowsMove(j) /\ UNCHANGED <<user, roles, holds, raced>>
         /\ job'[j] = Idle \/ (job'[j].pc = "delete" /\ Admins \ {job[j].user} # {})
<1>1. CASE Stop(j)
  BY <1>1, StopMoves
<1>2. CASE Admins \ {job[j].user} # {} /\ Goto(j, "delete") /\ UNCHANGED <<user, roles, holds, raced>>
  <2> DEFINE k == job[j]
             l == [k EXCEPT !.pc = "delete"]
  <2>1. k \in JobRecord /\ k.pc = "others" /\ Placed(k)
    BY DEF Typed, TypeOK, CountOthers
  <2>2. job' = [job EXCEPT ![j] = l]
    BY <1>2 DEF Goto
  <2>3. l \in JobRecord /\ l.pc = "delete" /\ Alike(k, l) /\ l.doomed = k.doomed
    BY <2>1, PcFields DEF Alike, Deciding
  <2> HIDE DEF k, l
  <2>4. Placed(l) /\ Later(k, l)
    BY <2>1, <2>3 DEF Placed, Later, Alike, Deciding
  <2>5. Moves(j) /\ job'[j] = l
    BY <1>2, <2>2, <2>3, <2>4, Goes DEF k
  <2> QED BY <1>2, <2>3, <2>5 DEF RowsMove, Typed, TypeOK
<1> QED BY <1>1, <1>2 DEF CountOthers

LEMMA DeleteMoves ==
  ASSUME Typed, NEW j \in Jobs, DeleteRows(j)
  PROVE  /\ Moves(j) /\ RowsMove(j) /\ UNCHANGED <<user, roles, holds, raced>>
         /\ job[j].pc = "delete" /\ job'[j].pc = "commit"
         /\ job[j].manage => SuperRowsOf(job[j].user) \subseteq job'[j].doomed
<1> DEFINE k == job[j]
           S == {h \in RowsOf(k.user) : k.manage \/ h[2] \notin Super}
           l == CommitJob(k, S)
<1>1. k \in JobRecord /\ k.pc = "delete" /\ Placed(k) /\ S \in SUBSET Row
  BY DEF Typed, TypeOK, DeleteRows, RowsOf
<1>2. job' = [job EXCEPT ![j] = l] /\ UNCHANGED <<user, roles, holds, raced>>
  BY DEF DeleteRows, CommitJob
<1>3. \A h \in S : h[1] = k.user /\ (h[2] \in Super => k.manage)
  BY DEF RowsOf
<1>4. k.manage => SuperRowsOf(k.user) \subseteq S
  BY DEF SuperRowsOf
<1> HIDE DEF k, S
<1>5. l \in JobRecord /\ l.pc = "commit" /\ Alike(k, l) /\ l.doomed = S
  BY <1>1, CommitFields DEF Alike
<1> HIDE DEF l
<1>6. Placed(l) /\ Later(k, l)
  BY <1>1, <1>3, <1>5 DEF Placed, Later, Alike, Deciding
<1>7. Moves(j) /\ job'[j] = l
  BY <1>2, <1>5, <1>6, Goes DEF k
<1> QED BY <1>1, <1>2, <1>4, <1>5, <1>7 DEF RowsMove, Typed, TypeOK, k

LEMMA DeactivatedMoves ==
  ASSUME Typed, NEW j \in Jobs, WriteDeactivated(j)
  PROVE  /\ Moves(j) /\ RowsMove(j) /\ UNCHANGED <<roles, holds, raced>>
         /\ job'[j] = Idle /\ UserMoves(j)
<1>1. job[j].user \in Users
  BY DEF WriteDeactivated, Typed, Placed, Deciding
<1>2. CASE Stop(j)
  BY <1>2, StopMoves DEF WriteDeactivated, UserMoves
<1>3. CASE End(j) /\ UNCHANGED <<roles, holds, raced>>
  BY <1>1, <1>3, Ends DEF WriteDeactivated, RowsMove, UserMoves, Typed, TypeOK, Stop
<1> QED BY <1>2, <1>3 DEF WriteDeactivated

LEMMA CommitMoves ==
  ASSUME Typed, NEW j \in Jobs, CommitMap(j)
  PROVE  /\ Moves(j) /\ RowsMove(j) /\ UNCHANGED <<user, roles, raced>>
         /\ job[j].pc = "commit" /\ job'[j] = Idle
         /\ \/ UNCHANGED holds
            \/ holds' = (holds \ job[j].doomed) \cup Assigned(job[j].user, job[j].rows)
<1> DEFINE k == job[j]
           new == Assigned(k.user, k.rows)
<1>1. /\ k \in JobRecord /\ k.pc = "commit" /\ Placed(k) /\ k.user \in Users
      /\ k.rows \in SUBSET (Roles \X Entities)
  BY DEF Typed, TypeOK, CommitMap, Placed, Deciding, JobRecord
<1>2. CASE Stop(j)
  BY <1>1, <1>2, StopMoves
<1>3. CASE /\ holds' = (holds \ k.doomed) \cup new
           /\ Removing(j, k.doomed, Idle) /\ UNCHANGED <<user, roles, raced>>
  <2> HIDE DEF new
  <2>1. \A h \in k.doomed : h[1] = k.user /\ (h[2] \in Super => k.manage)
    BY <1>1 DEF Placed
  <2>2. Moves(j) /\ job'[j] = Idle
    BY <1>3, <2>1, IdleFields, NobodyIsIdle, Removes DEF Later
  <2>3. new \subseteq Row
    BY <1>1, AssignedRows DEF new
  <2>4. RowsMove(j)
    BY <1>1, <1>3, <2>1, <2>2, <2>3 DEF RowsMove, Typed, TypeOK, new
  <2> QED BY <1>1, <1>3, <2>2, <2>4 DEF new
<1> QED BY <1>2, <1>3 DEF CommitMap

LEMMA ClearMoves ==
  ASSUME Typed, NEW j \in Jobs, ClearScope(j)
  PROVE  /\ Moves(j) /\ RowsMove(j) /\ UNCHANGED <<user, roles, raced>>
         /\ job[j].pc = "clear" /\ (job'[j] = Idle \/ job'[j].pc = "add")
<1> DEFINE k == job[j]
           gone == {h \in RowsOf(k.user) : h[3] \in k.scope /\ h[2] \notin Super}
           l == IF k.rows = {} THEN Idle ELSE [k EXCEPT !.pc = "add"]
<1>1. k \in JobRecord /\ k.pc = "clear" /\ Placed(k)
  BY DEF Typed, TypeOK, ClearScope
<1>2. holds' = holds \ gone /\ Removing(j, gone, l) /\ UNCHANGED <<user, roles, raced>>
  BY DEF ClearScope
<1>3. \A h \in gone : h[1] = k.user /\ h[2] \notin Super
  BY DEF RowsOf
<1> HIDE DEF gone
<1>4. \/ l = Idle
      \/ l \in JobRecord /\ l.pc = "add" /\ Alike(k, l) /\ l.doomed = k.doomed
  BY <1>1, PcFields DEF Alike, Deciding
<1> HIDE DEF k, l
<1>5. l \in JobRecord /\ Placed(l) /\ Later(k, l)
  BY <1>1, <1>4, IdleFields, NobodyIsIdle DEF Placed, Later, Alike, Deciding
<1>6. Moves(j) /\ job'[j] = l
  BY <1>2, <1>3, <1>5, Removes DEF k
<1>7. RowsMove(j)
  BY <1>2, <1>3 DEF RowsMove, Typed, TypeOK
<1> QED BY <1>1, <1>2, <1>4, <1>6, <1>7 DEF k

LEMMA AddMoves ==
  ASSUME Typed, NEW j \in Jobs, AddRows(j)
  PROVE  /\ Moves(j) /\ RowsMove(j) /\ UNCHANGED <<user, roles, raced>>
         /\ job[j].pc = "add" /\ job'[j] = Idle
<1> DEFINE k == job[j]
           new == Assigned(k.user, k.rows)
<1>1. /\ k \in JobRecord /\ k.pc = "add" /\ k.user \in Users
      /\ k.rows \in SUBSET (Roles \X Entities)
  BY DEF Typed, TypeOK, AddRows, Placed, Deciding, JobRecord
<1>2. CASE Stop(j)
  BY <1>1, <1>2, StopMoves
<1>3. CASE holds' = holds \cup new /\ End(j) /\ UNCHANGED <<user, roles, raced>>
  <2>1. Moves(j) /\ job'[j] = Idle
    BY <1>3, Ends
  <2>2. new \subseteq Row
    BY <1>1, AssignedRows
  <2> QED BY <1>1, <1>3, <2>1, <2>2 DEF RowsMove, Typed, TypeOK
<1> QED BY <1>2, <1>3 DEF AddRows

LEMMA DropMoves ==
  ASSUME Typed, NEW j \in Jobs, DropRole(j)
  PROVE  /\ Moves(j) /\ RowsMove(j) /\ UNCHANGED <<user, raced>>
         /\ job[j].pc = "drop" /\ job'[j] = Idle
         /\ roles' = roles \ {job[j].role}
<1>1. job[j].pc = "drop" /\ job[j].role \in Plain
  BY DEF DropRole, Typed, Placed
<1>2. job[j].role \notin Super
  BY <1>1, RoleKinds
<1>3. Moves(j) /\ job'[j] = Idle
  BY Ends DEF DropRole
<1> QED BY <1>1, <1>2, <1>3 DEF DropRole, RowsMove, Typed, TypeOK

\* Every step of a job that is begun is one of these.
LEMMA ContinueMoves ==
  ASSUME Typed, NEW j \in Jobs, Continue(j) \/ FailJob(j)
  PROVE  Moves(j) /\ RowsMove(j) /\ UserMoves(j) /\ roles' \subseteq roles
<1>1. CASE AssertNotLastAdmin(j)
  BY <1>1, NotLastMoves DEF UserMoves
<1>2. CASE WriteDeactivated(j)
  BY <1>2, DeactivatedMoves DEF UserMoves
<1>3. CASE CountOthers(j)
  BY <1>3, CountMoves DEF UserMoves
<1>4. CASE DeleteRows(j)
  BY <1>4, DeleteMoves DEF UserMoves
<1>5. CASE CommitMap(j)
  BY <1>5, CommitMoves DEF UserMoves
<1>6. CASE ClearScope(j)
  BY <1>6, ClearMoves DEF UserMoves
<1>7. CASE AddRows(j)
  BY <1>7, AddMoves DEF UserMoves
<1>8. CASE DropRole(j)
  BY <1>8, DropMoves DEF UserMoves
<1>9. CASE FailJob(j)
  BY <1>9, StopMoves DEF FailJob, UserMoves
<1> QED BY <1>1, <1>2, <1>3, <1>4, <1>5, <1>6, <1>7, <1>8, <1>9 DEF Continue

\* What a job that begins has been told: a role to delete is held by nobody, a form
\* that is one's own drops no super-admin role, and a managed map that does not ask
\* about others takes the right to administer from nobody.
Opens(j) ==
  LET k == job'[j]
  IN /\ job[j].pc = "idle" /\ job' = [job EXCEPT ![j] = k]
     /\ k \in JobRecord /\ Placed(k) /\ k.pc \notin {"write", "commit", "add"}
     /\ raced' = raced \cup (Touched(k) \cap UNION {Touched(job[i]) : i \in Jobs \ {j}})
     /\ UNCHANGED <<user, roles, holds>>
     /\ k.pc = "drop" => Holders({k.role}) = {}
     /\ k.own => SuperRowsOf(k.user) \subseteq Assigned(k.user, k.rows)
     /\ k.manage /\ k.pc = "delete" /\ ~HasFull(k.rows) =>
          \A h \in RowsOf(k.user) : h[2] \notin Full

LEMMA BeginOpens ==
  ASSUME Typed, NEW j \in Jobs, NEW k \in JobRecord, Begin(j, k), Placed(k),
         k.pc \notin {"write", "commit", "add"},
         k.pc = "drop" => Holders({k.role}) = {},
         k.own => SuperRowsOf(k.user) \subseteq Assigned(k.user, k.rows),
         k.manage /\ k.pc = "delete" /\ ~HasFull(k.rows) =>
           \A h \in RowsOf(k.user) : h[2] \notin Full
  PROVE  Opens(j)
<1>1. job'[j] = k /\ job' = [job EXCEPT ![j] = k]
  BY DEF Begin, Typed, TypeOK
<1> QED BY <1>1 DEF Begin, Opens

LEMMA StartOpens ==
  ASSUME Typed, NEW j \in Jobs, Start(j)
  PROVE  Opens(j)
<1>1. ASSUME NEW u \in Users, BeginDeactivate(j, u)
      PROVE  Opens(j)
  <2> DEFINE k == DeactivateJob(u)
  <2>1. Begin(j, k)
    BY <1>1 DEF BeginDeactivate, DeactivateJob
  <2>2. /\ k \in JobRecord /\ k.pc = "admins" /\ k.user = u /\ k.rows = {}
        /\ k.manage = FALSE /\ k.own = FALSE /\ k.doomed = {}
    BY DeactivateFields
  <2> HIDE DEF k
  <2>3. Placed(k)
    BY <2>2 DEF Placed, Deciding, HasFull, HasReadOnly
  <2> QED BY <2>1, <2>2, <2>3, BeginOpens
<1>2. ASSUME NEW u \in Users, NEW rows \in Maps, NEW own \in BOOLEAN,
             BeginManagedMap(j, u, rows, own)
      PROVE  Opens(j)
  <2> DEFINE dropped == SuperRowsOf(u) \ Assigned(u, rows)
             dropsFull == \E h \in dropped : h[2] \in Full
             p == IF dropsFull /\ ~HasFull(rows) THEN "others" ELSE "delete"
             k == ManagedJob(p, u, rows, own)
  <2>1. /\ ~(HasFull(rows) /\ HasReadOnly(rows)) /\ ~(own /\ dropped # {}) /\ Begin(j, k)
    BY <1>2 DEF BeginManagedMap, ManagedJob, SuperRowsOf
  <2>2. rows \in SUBSET (Roles \X Entities)
    BY MapsAreRows
  <2>3. p \in {"others", "delete"}
    OBVIOUS
  <2>4. ~dropsFull \/ HasFull(rows) \/ p = "others"
    OBVIOUS
  <2> HIDE DEF p
  <2>5. k \in JobRecord /\ k.pc = p /\ k.user = u /\ k.rows = rows /\ k.doomed = {}
    BY <2>3, ManagedFields
  <2>6. k.manage = TRUE /\ k.own = own
    BY ManagedFlags
  <2> HIDE DEF k
  <2>7. Placed(k)
    BY <2>1, <2>3, <2>5, <2>6 DEF Placed, Deciding
  <2>8. k.own => SuperRowsOf(k.user) \subseteq Assigned(k.user, k.rows)
    BY <2>1, <2>5, <2>6
  <2>9. ASSUME p = "delete", ~HasFull(rows), NEW h \in RowsOf(u)
        PROVE  h[2] \notin Full
    <3>1. h \notin dropped \/ h[2] \notin Full
      BY <2>4, <2>9
    <3>2. h \in Assigned(u, rows) => h[2] \notin Full
      BY <2>2, <2>9, AssignedRows
    <3> QED BY <3>1, <3>2 DEF SuperRowsOf, Super
  <2> QED BY <2>1, <2>3, <2>5, <2>6, <2>7, <2>8, <2>9, BeginOpens
<1>3. ASSUME NEW u \in Users, NEW rows \in Maps, BeginPlainMap(j, u, rows)
      PROVE  Opens(j)
  <2> DEFINE k == PlainJob(u, rows)
  <2>1. ~HasFull(rows) /\ ~HasReadOnly(rows) /\ Begin(j, k)
    BY <1>3 DEF BeginPlainMap, PlainJob
  <2>2. rows \in SUBSET (Roles \X Entities)
    BY MapsAreRows
  <2>3. /\ k \in JobRecord /\ k.pc = "delete" /\ k.user = u /\ k.rows = rows
        /\ k.manage = FALSE /\ k.own = FALSE /\ k.doomed = {}
    BY PlainFields
  <2> HIDE DEF k
  <2>4. Placed(k)
    BY <2>1, <2>3 DEF Placed, Deciding
  <2> QED BY <2>1, <2>3, <2>4, BeginOpens
<1>4. ASSUME NEW u \in Users, NEW rows \in Maps, NEW e \in Entities,
             BeginAssign(j, u, rows, e)
      PROVE  Opens(j)
  <2> DEFINE k == AssignJob(u, rows, e)
  <2>1. (\A x \in rows : x[1] \notin Super) /\ Begin(j, k)
    BY <1>4 DEF BeginAssign, AssignJob
  <2>2. rows \in SUBSET (Roles \X Entities)
    BY MapsAreRows
  <2>3. /\ k \in JobRecord /\ k.pc = "clear" /\ k.user = u /\ k.rows = rows
        /\ k.manage = FALSE /\ k.own = FALSE /\ k.doomed = {}
    BY AssignFields
  <2> HIDE DEF k
  <2>4. ~HasFull(rows) /\ ~HasReadOnly(rows)
    BY <2>1 DEF HasFull, HasReadOnly, Super
  <2>5. Placed(k)
    BY <2>3, <2>4 DEF Placed, Deciding
  <2> QED BY <2>1, <2>3, <2>5, BeginOpens
<1>5. ASSUME NEW r \in Plain, BeginDeleteRole(j, r)
      PROVE  Opens(j)
  <2> DEFINE k == DropJob(r)
  <2>1. Holders({r}) = {} /\ Begin(j, k)
    BY <1>5 DEF BeginDeleteRole, DropJob
  <2>2. /\ k \in JobRecord /\ k.pc = "drop" /\ k.role = r /\ k.rows = {}
        /\ k.manage = FALSE /\ k.own = FALSE /\ k.doomed = {}
    BY DropFields
  <2> HIDE DEF k
  <2>3. Placed(k)
    BY <2>2 DEF Placed, Deciding, HasFull, HasReadOnly
  <2> QED BY <2>1, <2>2, <2>3, BeginOpens
<1> QED BY <1>1, <1>2, <1>3, <1>4, <1>5 DEF Start

\* A step opens a job, moves one, or writes the account of one user only.
AccountMoves(u) ==
  /\ u \in Users /\ UNCHANGED <<roles, job, raced>>
  /\ \/ user[u] = "inactive" /\ user' = [user EXCEPT ![u] = "active"] /\ UNCHANGED holds
     \/ user' = [user EXCEPT ![u] = "deleted"] /\ holds' = holds \ RowsOf(u)

LEMMA NextMoves ==
  ASSUME Typed, Next
  PROVE  \/ \E j \in Jobs : Opens(j)
         \/ \E j \in Jobs : /\ Continue(j) \/ FailJob(j)
                            /\ Moves(j) /\ RowsMove(j) /\ UserMoves(j) /\ roles' \subseteq roles
         \/ \E u \in Users : AccountMoves(u)
<1>1. ASSUME NEW j \in Jobs, Start(j)
      PROVE  Opens(j)
  BY <1>1, StartOpens
<1>2. ASSUME NEW j \in Jobs, Continue(j) \/ FailJob(j)
      PROVE  Moves(j) /\ RowsMove(j) /\ UserMoves(j) /\ roles' \subseteq roles
  BY <1>2, ContinueMoves
<1>3. ASSUME NEW u \in Users, ReactivateUser(u) \/ DeleteUser(u)
      PROVE  AccountMoves(u)
  BY <1>3 DEF ReactivateUser, DeleteUser, AccountMoves
<1> QED BY <1>1, <1>2, <1>3 DEF Next

-----------------------------------------------------------------------------
(* Typing *)

LEMMA InitTyped == Init => Typed
<1> SUFFICES ASSUME Init
             PROVE  Typed
  OBVIOUS
<1>1. holds \subseteq Row
  <2>1. PICK map \in [Users -> Held] : holds = UNION {Assigned(u, map[u]) : u \in Users}
    BY DEF Init
  <2>2. \A u \in Users : map[u] \in SUBSET (Roles \X Entities)
    BY MapsAreRows
  <2>3. \A u \in Users : Assigned(u, map[u]) \subseteq Row
    BY <2>2, AssignedRows
  <2> QED BY <2>1, <2>3
<1> QED BY <1>1, IdleFields, NobodyIsIdle DEF Init, Typed, TypeOK

LEMMA TouchedTyped == \A k : Touched(k) \subseteq Users \cup Plain \cup {Authority}
  BY DEF Touched

LEMMA OpensTyped ==
  ASSUME Typed, NEW j \in Jobs, Opens(j)
  PROVE  Typed'
<1>1. raced' \subseteq Users \cup Plain \cup {Authority}
  BY TouchedTyped DEF Opens, Typed, TypeOK
<1>2. job' \in [Jobs -> JobRecord] /\ \A i \in Jobs : Placed(job'[i])
  BY DEF Opens, Typed, TypeOK
<1> QED BY <1>1, <1>2 DEF Opens, Typed, TypeOK

LEMMA BesidePlaced ==
  ASSUME NEW k, Placed(k), NEW l, NEW u, Beside(k, l, u)
  PROVE  Placed(l)
  BY DEF Placed, Beside, Alike

LEMMA MovesTyped ==
  ASSUME Typed, NEW j \in Jobs, Moves(j), RowsMove(j), UserMoves(j), roles' \subseteq roles
  PROVE  Typed'
<1>1. \A i \in Jobs : Placed(job'[i])
  BY BesidePlaced DEF Moves, Typed
<1>2. user' \in [Users -> {"active", "inactive", "deleted"}]
  BY DEF UserMoves, Typed, TypeOK
<1> QED BY <1>1, <1>2 DEF Moves, RowsMove, Typed, TypeOK

LEMMA AccountTyped ==
  ASSUME Typed, NEW u \in Users, AccountMoves(u)
  PROVE  Typed'
  BY DEF AccountMoves, Typed, TypeOK

LEMMA NextTyped == Typed /\ [Next]_vars => Typed'
<1>1. Typed /\ Next => Typed'
  BY NextMoves, OpensTyped, MovesTyped, AccountTyped
<1>2. Typed /\ UNCHANGED vars => Typed'
  BY DEF vars, Typed, TypeOK
<1> QED BY <1>1, <1>2

\* Accounts, roles, assignments and requests keep their shapes, and no row is ever
\* written for a user or role that is none (RolesService, UsersService).
THEOREM TypeCorrect == Spec => []TypeOK
<1>1. Typed => TypeOK
  BY DEF Typed
<1> QED BY <1>1, InitTyped, NextTyped, PTL DEF Spec

-----------------------------------------------------------------------------
(* Super-admin assignments *)

\* A super-admin row comes and goes by the commit of a managed map of its user.
LEMMA SuperRowMoves ==
  ASSUME Typed, NEW j \in Jobs, RowsMove(j),
         NEW h \in (holds \ holds') \cup (holds' \ holds), h[2] \in Super
  PROVE  /\ job[j].pc = "commit" /\ job[j].manage /\ job[j].user = h[1] /\ h[1] \in Users
         /\ job'[j] = Idle /\ h \in job[j].doomed \cup Assigned(job[j].user, job[j].rows)
<1> DEFINE k == job[j]
<1>1. k \in JobRecord /\ Placed(k) /\ h \in Row
  BY DEF Typed, TypeOK, RowsMove
<1>2. h[1] \in Users
  BY <1>1 DEF Row
<1>3. CASE h \in holds \ holds'
  BY <1>1, <1>2, <1>3 DEF RowsMove, Placed
<1>4. CASE h \in holds' \ holds
  <2>1. k.pc \in {"commit", "add"} /\ job'[j] = Idle /\ h \in Assigned(k.user, k.rows)
    BY <1>4 DEF RowsMove
  <2>2. k.user \in Users /\ k.rows \in SUBSET (Roles \X Entities)
    BY <1>1, <2>1 DEF Placed, Deciding, JobRecord
  <2>3. h[1] = k.user /\ (~HasFull(k.rows) => h[2] \notin Full)
          /\ (~HasReadOnly(k.rows) => h[2] \notin ReadOnly)
    BY <2>1, <2>2, AssignedRows
  <2>4. k.manage
    BY <1>1, <2>3 DEF Placed, Super
  <2>5. k.pc = "commit"
    BY <1>1, <2>1, <2>4 DEF Placed
  <2> QED BY <1>2, <2>1, <2>3, <2>4, <2>5
<1> QED BY <1>3, <1>4

\* The plain saves, the deletion of roles, and failures between two of their steps
\* leave every super-admin assignment as it is (assignRoleMapToUser,
\* assignRolesToUser, deleteRole).
THEOREM SuperRowsAreUntouched == Spec => SuperRowsUntouched
<1> DEFINE A == \A h \in (holds \ holds') \cup (holds' \ holds) :
                  h[2] \in Super =>
                    \/ user'[h[1]] = "deleted"
                    \/ \E j \in Jobs : job[j].pc = "commit" /\ job[j].manage
                                         /\ job[j].user = h[1] /\ job'[j].pc = "idle"
<1>1. Typed /\ Next => A
  <2> SUFFICES ASSUME Typed, Next,
                      NEW h \in (holds \ holds') \cup (holds' \ holds), h[2] \in Super
               PROVE  \/ user'[h[1]] = "deleted"
                      \/ \E j \in Jobs : job[j].pc = "commit" /\ job[j].manage
                                           /\ job[j].user = h[1] /\ job'[j].pc = "idle"
    OBVIOUS
  <2>1. ASSUME NEW j \in Jobs, RowsMove(j)
        PROVE  job[j].pc = "commit" /\ job[j].manage /\ job[j].user = h[1] /\ job'[j].pc = "idle"
    BY <2>1, SuperRowMoves, IdleFields
  <2>2. ASSUME NEW u \in Users, AccountMoves(u)
        PROVE  user'[h[1]] = "deleted"
    BY <2>2 DEF AccountMoves, RowsOf, Typed, TypeOK
  <2>3. ASSUME NEW j \in Jobs, Opens(j)
        PROVE  FALSE
    BY <2>3 DEF Opens
  <2> QED BY <2>1, <2>2, <2>3, NextMoves
<1>2. Typed /\ [Next]_vars => [A]_vars
  BY <1>1
<1>3. Spec => [][A]_vars
  BY <1>2, InitTyped, NextTyped, PTL DEF Spec
<1> QED BY <1>3 DEF SuperRowsUntouched

-----------------------------------------------------------------------------
(* Jobs at work on the same thing *)

LEMMA TouchedLess ==
  /\ \A k, l : Later(k, l) => Touched(l) \subseteq Touched(k)
  /\ \A k, l, u : Beside(k, l, u) => Touched(l) = Touched(k)
<1>1. ASSUME NEW k, NEW l, Later(k, l)
      PROVE  Touched(l) \subseteq Touched(k)
  <2>1. CASE l = Idle
    BY <2>1, NobodyIsIdle
  <2>2. CASE Alike(k, l) /\ (l.pc \in {"admins", "write"} => k.pc = "admins")
    BY <2>2 DEF Alike, Touched
  <2> QED BY <1>1, <2>1, <2>2 DEF Later
<1>2. ASSUME NEW k, NEW l, NEW u, Beside(k, l, u)
      PROVE  Touched(l) = Touched(k)
  BY <1>2 DEF Beside, Alike, Touched
<1> QED BY <1>1, <1>2

LEMMA NextApart ==
  ASSUME Typed, Apart, [Next]_vars
  PROVE  Apart' /\ raced \subseteq raced'
<1> USE DEF Apart
<1>1. ASSUME NEW j \in Jobs, Opens(j)
      PROVE  Apart' /\ raced \subseteq raced'
  <2> DEFINE k == job'[j]
  <2>1. /\ raced' = raced \cup (Touched(k) \cap UNION {Touched(job[i]) : i \in Jobs \ {j}})
        /\ \A i \in Jobs \ {j} : job'[i] = job[i]
    BY <1>1 DEF Opens, Typed, TypeOK
  <2>2. ASSUME NEW i \in Jobs \ {j}
        PROVE  Touched(job'[j]) \cap Touched(job'[i]) \subseteq raced'
    BY <2>1
  <2>3. ASSUME NEW i \in Jobs \ {j}, NEW h \in Jobs \ {j}, i # h
        PROVE  Touched(job'[i]) \cap Touched(job'[h]) \subseteq raced'
    BY <2>1, <2>3
  <2> QED BY <2>1, <2>2, <2>3 DEF Touched
<1>2. ASSUME NEW j \in Jobs, Moves(j)
      PROVE  Apart' /\ raced \subseteq raced'
  <2>1. \A i \in Jobs : Touched(job'[i]) \subseteq Touched(job[i])
    BY <1>2, TouchedLess DEF Moves
  <2> QED BY <1>2, <2>1 DEF Moves, Touched
<1>3. CASE UNCHANGED <<job, raced>>
  BY <1>3 DEF Touched
<1> QED BY <1>1, <1>2, <1>3, NextMoves DEF AccountMoves, vars

LEMMA SharedUser ==
  ASSUME Apart, NEW i \in Jobs, NEW j \in Jobs, i # j,
         job[i].user = job[j].user, job[i].user \in Users
  PROVE  job[i].user \in raced
<1>1. job[i].user \in Touched(job[i]) \cap Touched(job[j])
  BY DEF Touched
<1> QED BY <1>1 DEF Apart

LEMMA SharedRole ==
  ASSUME Apart, NEW i \in Jobs, NEW j \in Jobs, i # j, NEW x \in job[j].rows,
         job[i].role = x[1], x[1] \in Plain
  PROVE  x[1] \in raced
<1>1. x[1] \in Touched(job[i]) \cap Touched(job[j])
  BY DEF Touched
<1> QED BY <1>1 DEF Apart

LEMMA SharedAuthority ==
  ASSUME Apart, Authority \notin raced, NEW i \in Jobs, NEW j \in Jobs,
         job[i].pc \in {"admins", "write"} \/ job[i].manage,
         job[j].pc \in {"admins", "write"} \/ job[j].manage
  PROVE  i = j
<1>1. Authority \in Touched(job[i]) /\ Authority \in Touched(job[j])
  BY DEF Touched
<1> QED BY <1>1 DEF Apart

-----------------------------------------------------------------------------
(* One super-admin role, and one's own *)

LEMMA CommitReached ==
  ASSUME Typed, NEW j \in Jobs, Continue(j) \/ FailJob(j), job'[j].pc = "commit"
  PROVE  /\ UNCHANGED holds
         /\ job[j].manage => SuperRowsOf(job[j].user) \subseteq job'[j].doomed
<1>1. CASE DeleteRows(j)
  BY <1>1, DeleteMoves
<1>2. CASE AssertNotLastAdmin(j) \/ CountOthers(j)
  BY <1>2, NotLastMoves, CountMoves, IdleFields
<1>3. CASE WriteDeactivated(j) \/ CommitMap(j) \/ AddRows(j) \/ DropRole(j)
  BY <1>3, DeactivatedMoves, CommitMoves, AddMoves, DropMoves, IdleFields
<1>4. CASE ClearScope(j) \/ FailJob(j)
  BY <1>4, ClearMoves, StopMoves, IdleFields DEF FailJob
<1> QED BY <1>1, <1>2, <1>3, <1>4 DEF Continue

LEMMA MovesReplace ==
  ASSUME Typed, Apart, AllReplace, NEW j \in Jobs, Continue(j) \/ FailJob(j),
         Moves(j), RowsMove(j)
  PROVE  AllReplace'
<1> SUFFICES ASSUME NEW i \in Jobs, job'[i].user \notin raced', NEW h \in holds',
                    h[1] = job'[i].user, h[2] \in Super
             PROVE  /\ job'[i].manage /\ job'[i].pc = "commit" => h \in job'[i].doomed
                    /\ job'[i].own => h \in Assigned(job'[i].user, job'[i].rows)
  BY DEF AllReplace, Replaces, Assigned
<1> DEFINE k == job[i]
           l == job'[i]
<1>1. Replaces(k) /\ raced' = raced /\ h[1] \in Users
  BY DEF AllReplace, Moves, RowsMove, Row
<1>2. CASE i = j
  <2>1. CASE l = Idle
    BY <2>1, IdleFields
  <2>2. CASE l # Idle /\ Alike(k, l)
    <3>1. h \in holds
      BY <1>2, <2>2 DEF RowsMove
    <3>2. l.pc = "commit" /\ k.manage => h \in l.doomed
      BY <1>2, <2>2, <3>1, CommitReached DEF Alike, SuperRowsOf, RowsOf
    <3>3. k.own => h \in Assigned(k.user, k.rows)
      BY <1>1, <2>2, <3>1 DEF Alike, Replaces
    <3> QED BY <2>2, <3>2, <3>3 DEF Alike
  <2> QED BY <1>2, <2>1, <2>2 DEF Moves, Later
<1>3. CASE i # j
  <2>1. Beside(k, l, job[j].user)
    BY <1>3 DEF Moves
  <2>2. h[1] # job[j].user
    BY <1>1, <1>3, <2>1, SharedUser DEF Beside, Alike
  <2>3. h \in holds
    BY <2>2, SuperRowMoves
  <2>4. /\ k.manage /\ k.pc = "commit" => h \in k.doomed
        /\ k.own => h \in Assigned(k.user, k.rows)
    BY <1>1, <2>1, <2>3 DEF Beside, Alike, Replaces
  <2>5. h \in k.doomed => h \in l.doomed
    BY <2>1, <2>2 DEF Beside
  <2> QED BY <2>1, <2>4, <2>5 DEF Beside, Alike
<1> QED BY <1>2, <1>3

LEMMA NextReplaces ==
  ASSUME Typed, Apart, AllReplace, [Next]_vars
  PROVE  AllReplace'
<1>1. ASSUME NEW j \in Jobs, Opens(j)
      PROVE  AllReplace'
  <2>1. /\ \A i \in Jobs \ {j} : job'[i] = job[i]
        /\ holds' = holds /\ raced \subseteq raced'
    BY <1>1 DEF Opens, Typed, TypeOK
  <2>2. /\ job'[j].pc # "commit"
        /\ job'[j].own => SuperRowsOf(job'[j].user) \subseteq Assigned(job'[j].user, job'[j].rows)
    BY <1>1 DEF Opens
  <2> QED BY <2>1, <2>2 DEF AllReplace, Replaces, SuperRowsOf, RowsOf, Assigned
<1>2. ASSUME NEW j \in Jobs, Continue(j) \/ FailJob(j), Moves(j), RowsMove(j)
      PROVE  AllReplace'
  BY <1>2, MovesReplace
<1>3. CASE UNCHANGED <<job, raced>> /\ holds' \subseteq holds
  BY <1>3 DEF AllReplace, Replaces, SuperRowsOf, RowsOf, Assigned
<1> QED BY <1>1, <1>2, <1>3, NextMoves DEF AccountMoves, vars

LEMMA CommitDone ==
  ASSUME Typed, NEW j \in Jobs, Continue(j) \/ FailJob(j), job[j].pc = "commit"
  PROVE  \/ UNCHANGED holds
         \/ holds' = (holds \ job[j].doomed) \cup Assigned(job[j].user, job[j].rows)
<1>1. CASE CommitMap(j)
  BY <1>1, CommitMoves
<1>2. CASE FailJob(j)
  BY <1>2 DEF FailJob, Stop
<1> QED
  BY <1>1, <1>2 DEF Continue, AssertNotLastAdmin, WriteDeactivated, CountOthers,
                    DeleteRows, ClearScope, AddRows, DropRole

LEMMA OneByRows ==
  OneSuperRoleUnlessRaced <=>
    \A u \in Users, g, h \in holds :
      g[1] = u /\ h[1] = u /\ g[2] \in Full /\ h[2] \in ReadOnly => u \in raced
  BY DEF OneSuperRoleUnlessRaced, Holders

LEMMA NextOneRole ==
  ASSUME Typed, Apart, AllReplace, OneSuperRoleUnlessRaced, [Next]_vars
  PROVE  OneSuperRoleUnlessRaced'
<1> SUFFICES ASSUME NEW u \in Users, NEW g \in holds', NEW h \in holds',
                    g[1] = u, h[1] = u, g[2] \in Full, h[2] \in ReadOnly, u \notin raced'
             PROVE  FALSE
  BY DEF OneSuperRoleUnlessRaced, Holders
<1>1. u \notin raced
  BY NextApart
<1>2. ~(g \in holds /\ h \in holds)
  BY <1>1, OneByRows
<1>3. PICK j \in Jobs : (Continue(j) \/ FailJob(j)) /\ RowsMove(j)
  BY <1>2, NextMoves DEF Opens, AccountMoves, vars
<1> DEFINE k == job[j]
<1>4. k.pc = "commit" /\ k.manage /\ k.user = u
  BY <1>2, <1>3, SuperRowMoves DEF Super
<1>5. \A x \in holds : x[1] = u /\ x[2] \in Super => x \in k.doomed
  BY <1>1, <1>4 DEF AllReplace, Replaces
<1>6. holds' = (holds \ k.doomed) \cup Assigned(u, k.rows)
  BY <1>2, <1>3, <1>4, CommitDone
<1>7. g \in Assigned(u, k.rows) /\ h \in Assigned(u, k.rows)
  BY <1>5, <1>6 DEF Super
<1>8. k.rows \in SUBSET (Roles \X Entities) /\ Placed(k)
  BY DEF Typed, TypeOK, JobRecord
<1> QED BY <1>4, <1>7, <1>8, AssignedRows DEF Placed

-----------------------------------------------------------------------------
(* Deleted roles *)

LEMMA HoldersByRows ==
  ASSUME Typed, NEW r
  PROVE  Holders({r}) = {} <=> \A h \in holds : h[2] # r
  BY DEF Holders, Typed, TypeOK, Row

LEMMA MovesUnheld ==
  ASSUME Typed, Apart, AllUnheld, NEW j \in Jobs, Moves(j), RowsMove(j), Typed'
  PROVE  AllUnheld'
<1> SUFFICES ASSUME NEW i \in Jobs, job'[i].pc = "drop", job'[i].role \notin raced',
                    NEW h \in holds', h[2] = job'[i].role
             PROVE  FALSE
  BY DEF AllUnheld, Unheld, Holders
<1>1. i # j
  BY IdleFields DEF Moves, Later
<1>2. job[i].pc = "drop" /\ job[i].role = job'[i].role /\ raced' = raced
  BY <1>1 DEF Moves, Beside, Alike
<1>3. job[i].role \in Plain /\ \A g \in holds : g[2] # job[i].role
  BY <1>2, HoldersByRows DEF AllUnheld, Unheld, Typed, Placed
<1>4. job[j].pc \in {"commit", "add"} /\ h \in Assigned(job[j].user, job[j].rows)
  BY <1>2, <1>3 DEF RowsMove
<1>5. job[j].user \in Users /\ job[j].rows \in SUBSET (Roles \X Entities)
  BY <1>4 DEF Typed, TypeOK, Placed, Deciding, JobRecord
<1>6. PICK x \in job[j].rows : x[1] = h[2]
  BY <1>4, <1>5, AssignedRows
<1> QED BY <1>1, <1>2, <1>3, <1>6, SharedRole

LEMMA NextUnheld ==
  ASSUME Typed, Apart, AllUnheld, [Next]_vars
  PROVE  AllUnheld'
<1>1. ASSUME NEW j \in Jobs, Opens(j)
      PROVE  AllUnheld'
  <2>1. /\ \A i \in Jobs \ {j} : job'[i] = job[i]
        /\ holds' = holds /\ raced \subseteq raced'
        /\ job'[j].pc = "drop" => Holders({job'[j].role}) = {}
    BY <1>1 DEF Opens, Typed, TypeOK
  <2> QED BY <2>1 DEF AllUnheld, Unheld, Holders
<1>2. ASSUME NEW j \in Jobs, Moves(j), RowsMove(j)
      PROVE  AllUnheld'
  BY <1>2, MovesUnheld, NextTyped
<1>3. CASE UNCHANGED <<job, raced>> /\ holds' \subseteq holds
  BY <1>3 DEF AllUnheld, Unheld, Holders
<1> QED BY <1>1, <1>2, <1>3, NextMoves DEF AccountMoves, vars

LEMMA RoleGoes ==
  ASSUME Typed, NEW j \in Jobs, Continue(j) \/ FailJob(j)
  PROVE  \/ UNCHANGED roles
         \/ job[j].pc = "drop" /\ roles' = roles \ {job[j].role}
<1>1. CASE DropRole(j)
  BY <1>1, DropMoves
<1> QED
  BY <1>1, NotLastMoves, DeactivatedMoves, CountMoves, DeleteMoves, CommitMoves,
     ClearMoves, AddMoves, StopMoves DEF Continue, FailJob

-----------------------------------------------------------------------------
(* The last admin *)

LEMMA AdminsByRows ==
  \A a : a \in Admins <=>
    a \in Users /\ user[a] = "active" /\ \E h \in holds : h[1] = a /\ h[2] \in Full
  BY DEF Admins, Holders

LEMMA AdminKept ==
  ASSUME Typed, NEW j \in Jobs, RowsMove(j), UserMoves(j), NEW a \in Admins,
         a = job[j].user => job[j].pc # "write" /\ ~(job[j].pc = "commit" /\ job[j].manage)
  PROVE  a \in Admins'
<1>1. PICK h \in holds : h[1] = a /\ h[2] \in Full
  BY AdminsByRows
<1>2. a \in Users /\ user[a] = "active"
  BY AdminsByRows
<1>3. h \in holds'
  BY <1>1, SuperRowMoves DEF Super
<1>4. user'[a] = "active"
  BY <1>2 DEF UserMoves, Typed, TypeOK
<1> QED BY <1>1, <1>2, <1>3, <1>4 DEF Admins, Holders

\* A job that gets where it may take the right to administer from its user has
\* seen that someone else administers, or was there already.
LEMMA SparedReached ==
  ASSUME Typed, NEW j \in Jobs, Continue(j) \/ FailJob(j), Moves(j),
         Admins # {}, Spared(job[j]), job'[j] # Idle,
         \/ job'[j].pc = "write"
         \/ job'[j].manage /\ job'[j].pc \in {"delete", "commit"} /\ ~HasFull(job'[j].rows)
  PROVE  Admins \ {job'[j].user} # {}
<1> DEFINE k == job[j]
           l == job'[j]
<1>1. /\ Alike(k, l)
      /\ <<k.pc, l.pc>> \in {<<"admins", "write">>, <<"others", "delete">>,
                             <<"delete", "commit">>, <<"clear", "add">>}
  BY DEF Moves, Later
<1>2. CASE k.pc = "admins"
  <2>1. AssertNotLastAdmin(j)
    BY <1>2 DEF Continue, FailJob, Stop, End, AssertNotLastAdmin, WriteDeactivated,
                CountOthers, DeleteRows, CommitMap, ClearScope, AddRows, DropRole,
                Typed, TypeOK
  <2>2. Admins # {k.user}
    BY <2>1, NotLastMoves
  <2> QED BY <1>1, <2>2 DEF Alike
<1>3. CASE k.pc = "others"
  <2>1. CountOthers(j)
    BY <1>3 DEF Continue, FailJob, Stop, End, AssertNotLastAdmin, WriteDeactivated,
                CountOthers, DeleteRows, CommitMap, ClearScope, AddRows, DropRole,
                Typed, TypeOK
  <2> QED BY <1>1, <2>1, CountMoves DEF Alike
<1>4. CASE k.pc = "delete"
  BY <1>1, <1>4 DEF Alike, Spared
<1>5. CASE k.pc = "clear"
  BY <1>1, <1>5
<1> QED BY <1>1, <1>2, <1>3, <1>4, <1>5

LEMMA MovesGoverned ==
  ASSUME Typed, Apart, Admins # {}, \A i \in Jobs : Spared(job[i]),
         Authority \notin raced, NEW j \in Jobs, Continue(j) \/ FailJob(j),
         Moves(j), RowsMove(j), UserMoves(j)
  PROVE  Admins' # {} /\ \A i \in Jobs : Spared(job[i])'
<1> DEFINE k == job[j]
           May(l) == \/ l.pc = "write"
                     \/ l.manage /\ l.pc \in {"delete", "commit"} /\ ~HasFull(l.rows)
<1>1. CASE k.pc = "write" \/ (k.pc = "commit" /\ k.manage)
  <2>1. job'[j] = Idle
    BY <1>1 DEF Moves, Later
  <2>2. ASSUME NEW i \in Jobs
        PROVE  Spared(job[i])'
    <3>1. CASE i = j
      BY <2>1, <3>1, IdleFields DEF Spared
    <3>2. CASE i # j
      <4>1. ~(job[i].pc = "write" \/ job[i].manage)
        BY <1>1, <3>2, SharedAuthority
      <4> QED BY <3>2, <4>1 DEF Moves, Beside, Alike, Spared
    <3> QED BY <3>1, <3>2
  <2> SUFFICES Admins' # {}
    BY <2>2
  <2>3. ASSUME NEW a \in Admins, a # k.user
        PROVE  Admins' # {}
    BY <2>3, AdminKept
  <2>4. CASE k.pc = "write" \/ ~HasFull(k.rows)
    BY <1>1, <2>3, <2>4 DEF Spared
  <2>5. CASE k.pc = "commit" /\ k.manage /\ HasFull(k.rows) /\ k.user \in Admins
    <3>1. PICK x \in k.rows : x[1] \in Full
      BY <2>5 DEF HasFull
    <3>2. <<k.user, x[1], x[2]>> \in Assigned(k.user, k.rows)
      BY DEF Assigned
    <3>3. \E h \in holds' : h[1] = k.user /\ h[2] \in Full
      <4>1. CASE UNCHANGED holds
        BY <2>5, <4>1, AdminsByRows
      <4>2. CASE holds' = (holds \ k.doomed) \cup Assigned(k.user, k.rows)
        BY <3>1, <3>2, <4>2
      <4> QED BY <2>5, <4>1, <4>2, CommitDone
    <3>4. k.user \in Users /\ user'[k.user] = "active"
      BY <2>5, AdminsByRows DEF UserMoves
    <3> QED BY <3>3, <3>4 DEF Admins, Holders
  <2> QED BY <1>1, <2>3, <2>4, <2>5
<1>2. CASE ~(k.pc = "write" \/ (k.pc = "commit" /\ k.manage))
  <2>1. Admins \subseteq Admins'
    BY <1>2, AdminKept
  <2>2. ASSUME NEW i \in Jobs
        PROVE  Spared(job[i])'
    <3>1. SUFFICES ASSUME May(job'[i])
                   PROVE  Admins' \ {job'[i].user} # {}
      BY DEF Spared, HasFull
    <3>2. CASE i = j
      BY <2>1, <3>1, <3>2, SparedReached, IdleFields
    <3>3. CASE i # j
      <4>1. Admins \ {job[i].user} # {} /\ job'[i].user = job[i].user
        BY <3>1, <3>3 DEF Moves, Beside, Alike, Spared
      <4> QED BY <2>1, <4>1
    <3> QED BY <3>2, <3>3
  <2> QED BY <2>1, <2>2
<1> QED BY <1>1, <1>2

LEMMA NextGoverned ==
  ASSUME Typed, Apart, Governed, [Next]_vars
  PROVE  Governed'
<1> SUFFICES ASSUME NobodyDeleted', Authority \notin raced'
             PROVE  Admins' # {} /\ \A j \in Jobs : Spared(job[j])'
  BY DEF Governed
<1>1. NobodyDeleted
  BY NextMoves DEF NobodyDeleted, Opens, UserMoves, AccountMoves, vars, Typed, TypeOK
<1>2. Authority \notin raced
  BY NextApart
<1>3. Admins # {} /\ \A j \in Jobs : Spared(job[j])
  BY <1>1, <1>2 DEF Governed
<1>4. ASSUME NEW j \in Jobs, Opens(j)
      PROVE  Admins' # {} /\ \A i \in Jobs : Spared(job[i])'
  <2> DEFINE k == job'[j]
  <2>1. /\ \A i \in Jobs \ {j} : job'[i] = job[i]
        /\ UNCHANGED <<user, holds>> /\ Admins' = Admins
    BY <1>4 DEF Opens, Typed, TypeOK, Admins, Holders
  <2>2. /\ k.pc # "write" /\ k.pc # "commit"
        /\ k.manage /\ k.pc = "delete" /\ ~HasFull(k.rows) =>
             \A h \in RowsOf(k.user) : h[2] \notin Full
    BY <1>4 DEF Opens
  <2>3. (\A h \in RowsOf(k.user) : h[2] \notin Full) => k.user \notin Admins
    BY AdminsByRows DEF RowsOf
  <2>4. Spared(job[j])'
    BY <1>3, <2>1, <2>2, <2>3 DEF Spared, HasFull
  <2>5. \A i \in Jobs \ {j} : Spared(job[i])'
    BY <1>3, <2>1 DEF Spared, HasFull
  <2> QED BY <1>3, <2>1, <2>4, <2>5
<1>5. ASSUME NEW j \in Jobs, Continue(j) \/ FailJob(j), Moves(j), RowsMove(j), UserMoves(j)
      PROVE  Admins' # {} /\ \A i \in Jobs : Spared(job[i])'
  BY <1>2, <1>3, <1>5, MovesGoverned
<1>6. ASSUME NEW u \in Users, AccountMoves(u)
      PROVE  Admins' # {} /\ \A i \in Jobs : Spared(job[i])'
  <2>1. user' = [user EXCEPT ![u] = "active"] /\ UNCHANGED <<holds, job>>
    BY <1>6 DEF AccountMoves, NobodyDeleted, Typed, TypeOK
  <2>2. Admins \subseteq Admins'
    BY <2>1 DEF Admins, Holders, Typed, TypeOK
  <2> QED BY <1>3, <2>1, <2>2 DEF Spared, HasFull
<1>7. CASE UNCHANGED vars
  BY <1>3, <1>7 DEF vars, Admins, Holders, Spared, HasFull
<1> QED BY <1>4, <1>5, <1>6, <1>7, NextMoves

-----------------------------------------------------------------------------
(* The invariant is inductive, and what follows from it *)

LEMMA InitInv == Init => Inv
<1> SUFFICES ASSUME Init
             PROVE  Inv
  OBVIOUS
<1>1. \A j \in Jobs : job[j] = Idle
  BY DEF Init
<1>2. Apart
  BY <1>1, NobodyIsIdle DEF Apart
<1>3. AllReplace /\ AllUnheld
  BY <1>1, IdleFields DEF AllReplace, Replaces, AllUnheld, Unheld
<1>4. OneSuperRoleUnlessRaced
  BY DEF Init, OneSuperRoleUnlessRaced
<1>5. Governed
  <2>1. Admins # {}
    BY DEF Init, Admins, Holders
  <2> QED BY <1>1, <2>1, IdleFields DEF Governed, Spared
<1> QED BY <1>2, <1>3, <1>4, <1>5, InitTyped DEF Inv

LEMMA NextInv == Inv /\ [Next]_vars => Inv'
  BY NextTyped, NextApart, NextReplaces, NextUnheld, NextOneRole, NextGoverned DEF Inv

\* However saves of the role form interleave with everything else, nobody ends up a
\* super-admin and a read-only super-admin unless two saves were at work on them at
\* once (assignRoleMapToUser).
THEOREM OneSuperRoleHolds == Spec => []OneSuperRoleUnlessRaced
<1>1. Inv => OneSuperRoleUnlessRaced
  BY DEF Inv
<1> QED BY <1>1, InitInv, NextInv, PTL DEF Spec

\* Who saves their own form keeps every super-admin role they had, from the check to
\* the commit and whatever runs in between, unless another save was at work on
\* them (assignRoleMapToUser).
THEOREM OwnSuperRoleIsKept == Spec => OwnSuperRoleStays
<1> DEFINE A == \A j \in Jobs :
                  LET u == job[j].user
                  IN job[j].own /\ job[j].pc = "commit" /\ u \notin raced
                       => {h \in RowsOf(u) : h[2] \in Super} \subseteq holds'
                          \/ user'[u] = "deleted"
<1>1. Inv /\ Next => A
  <2> SUFFICES ASSUME Inv, Next, NEW j \in Jobs, job[j].own, job[j].pc = "commit",
                      job[j].user \notin raced, NEW h \in holds, h[1] = job[j].user,
                      h[2] \in Super, h \notin holds'
               PROVE  user'[job[j].user] = "deleted"
    BY DEF RowsOf
  <2> USE DEF Inv
  <2>1. h[1] \in Users
    BY DEF Typed, TypeOK, Row
  <2>2. ASSUME NEW i \in Jobs, Continue(i) \/ FailJob(i), RowsMove(i)
        PROVE  FALSE
    <3>1. job[i].pc = "commit" /\ job[i].user = job[j].user
      BY <2>2, SuperRowMoves
    <3>2. i = j
      BY <2>1, <3>1, SharedUser
    <3>3. holds' = (holds \ job[j].doomed) \cup Assigned(job[j].user, job[j].rows)
      BY <2>2, <3>2, CommitDone
    <3>4. h \in Assigned(job[j].user, job[j].rows)
      BY DEF AllReplace, Replaces
    <3> QED BY <3>3, <3>4
  <2>3. ASSUME NEW u \in Users, AccountMoves(u)
        PROVE  user'[job[j].user] = "deleted"
    BY <2>1, <2>3 DEF AccountMoves, RowsOf, Typed, TypeOK
  <2>4. ASSUME NEW i \in Jobs, Opens(i)
        PROVE  FALSE
    BY <2>4 DEF Opens
  <2> QED BY <2>2, <2>3, <2>4, NextMoves
<1>2. Inv /\ [Next]_vars => [A]_vars
  BY <1>1
<1>3. Spec => [][A]_vars
  BY <1>2, InitInv, NextInv, PTL DEF Spec
<1> QED BY <1>3 DEF OwnSuperRoleStays

\* The cascade of a role's deletion strips nobody, though the holders are counted
\* before the deletion and not with it, unless a save that posts the role was
\* under way meanwhile (deleteRole).
THEOREM DeletionIsHarmless == Spec => DeletionStripsNobody
<1> DEFINE A == \A r \in roles \ roles' : r \notin raced => Holders({r}) = {}
<1>1. Inv /\ Next => A
  <2> SUFFICES ASSUME Inv, Next, NEW r \in roles \ roles', r \notin raced
               PROVE  Holders({r}) = {}
    OBVIOUS
  <2>1. PICK j \in Jobs : Continue(j) \/ FailJob(j)
    BY NextMoves DEF Opens, AccountMoves, Inv
  <2>2. job[j].pc = "drop" /\ job[j].role = r
    BY <2>1, RoleGoes DEF Inv
  <2> QED BY <2>2 DEF Inv, AllUnheld, Unheld
<1>2. Inv /\ [Next]_vars => [A]_vars
  BY <1>1
<1>3. Spec => [][A]_vars
  BY <1>2, InitInv, NextInv, PTL DEF Spec
<1> QED BY <1>3 DEF DeletionStripsNobody

\* Deactivations and managed maps leave someone who can administer, however their
\* checks and writes interleave with everything but one another, unless an account
\* was deleted (assertNotLastAdmin, assignRoleMapToUser).
THEOREM AdminStays == Spec => []AdminStaysUnlessRaced
<1>1. Inv => AdminStaysUnlessRaced
  BY DEF Inv, Governed, AdminStaysUnlessRaced
<1> QED BY <1>1, InitInv, NextInv, PTL DEF Spec
==============================================================================

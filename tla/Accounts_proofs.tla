---------------------------- MODULE Accounts_proofs ----------------------------
(* Theorems about Accounts, for every value of its constants. *)
EXTENDS Accounts, TLAPS

-----------------------------------------------------------------------------
(* Typing *)

\* A creation holds an address.
Placed(x) == x.pc = "create" => x.email \in Email

Typed == TypeOK /\ \A j \in Jobs : Placed(job[j])

\* The rows and calls the actions write.
LEMMA NewFields ==
  /\ NoJob \in Job /\ NoJob.pc = "idle" /\ NoJob.user = None
  /\ \A s \in {"unused", "gone"} :
       /\ NoRow(s) \in Row /\ NoRow(s).state = s
       /\ NoRow(s).email = None /\ NoRow(s).deactivatedAt = None
  /\ \A e \in Email :
       /\ NewRow(e) \in Row /\ NewRow(e).state = "kept"
       /\ NewRow(e).email = e /\ NewRow(e).deactivatedAt = None
       /\ ToLowerCaseTrim(e) \in Email /\ ToLowerCaseTrim(e).plain
       /\ ToLowerCaseTrim(e).of = e.of
       /\ e # None
  BY NoneIsNothing DEF NoJob, Job, NoRow, NewRow, Row, ToLowerCaseTrim, Email

LEMMA JobFields ==
  /\ \A e \in Email :
       LET y == [NoJob EXCEPT !.pc = "create", !.email = e]
       IN y \in Job /\ y.pc = "create" /\ y.email = e
  BY DEF NoJob, Job

\* The call in which u is looked up to leave.
LeaveJob(u, b) == [NoJob EXCEPT !.pc = "leave", !.user = u, !.beside = b]

LEMMA LeaveFields ==
  ASSUME NEW u \in Users, NEW b \in BOOLEAN
  PROVE  /\ LeaveJob(u, b) \in Job /\ LeaveJob(u, b).pc = "leave"
         /\ LeaveJob(u, b).user = u /\ LeaveJob(u, b).beside = b
  BY DEF LeaveJob, NoJob, Job

LEMMA BesideFields ==
  ASSUME NEW x \in Job, NEW b \in BOOLEAN, NEW y, y = [x EXCEPT !.beside = b]
  PROVE  y \in Job /\ y.pc = x.pc /\ y.user = x.user /\ y.email = x.email /\ y.beside = b
  BY DEF Job

LEMMA EmailFields ==
  ASSUME NEW x \in Row, NEW e \in Email, NEW y, y = [x EXCEPT !.email = e]
  PROVE  /\ y \in Row /\ y.state = x.state /\ y.email = e
         /\ y.deactivatedAt = x.deactivatedAt
  BY DEF Row

LEMMA DateFields ==
  ASSUME NEW x \in Row, NEW d \in Nat \cup {None}, NEW y, y = [x EXCEPT !.deactivatedAt = d]
  PROVE  y \in Row /\ y.state = x.state /\ y.email = x.email /\ y.deactivatedAt = d
  BY DEF Row

LEMMA NoneIsNobody == None \notin Users
  BY IdsAreNat, NoneIsNothing

\* The ways a row changes: it is created, its address or its date is written, or
\* it goes.
Created(u) ==
  /\ row[u].state = "unused" /\ row'[u].state = "kept"
  /\ row'[u].email \in Email /\ row'[u].email.plain /\ row'[u].deactivatedAt = None
  /\ IndexAllows(None, row'[u].email) /\ UNCHANGED patched
  /\ \A j \in Jobs : job'[j] = job[j] \/ job'[j] = NoJob
Patched(u) ==
  /\ u \in Kept /\ row'[u].state = "kept" /\ row'[u].email \in Email
  /\ row'[u].deactivatedAt = row[u].deactivatedAt
  /\ IndexAllows(u, row'[u].email) /\ patched' = patched \cup {u} /\ UNCHANGED job
Dated(u) ==
  /\ u \in Kept /\ row'[u].state = "kept" /\ row'[u].email = row[u].email
  /\ UNCHANGED patched
Left(u) ==
  /\ Dated(u) /\ row'[u].deactivatedAt # None
  /\ \E j \in Leaving(u) :
       job'[j] = NoJob /\ \A i \in Jobs \ {j} : job'[i] = job[i]
Back(u) == Dated(u) /\ row'[u].deactivatedAt = None /\ UNCHANGED job
Gone(u) ==
  /\ u \in Kept /\ row'[u] = NoRow("gone") /\ UNCHANGED <<job, patched>>

RowChanges(u) == Created(u) \/ Patched(u) \/ Left(u) \/ Back(u) \/ Gone(u)

\* What a step does to the rows: nothing, or one of the above to one of them.
RowMoves ==
  \/ UNCHANGED <<row, patched>>
  \/ \E u \in Users :
       RowChanges(u) /\ row'[u] \in Row /\ \A v \in Users \ {u} : row'[v] = row[v]

LEMMA CreateMoves ==
  ASSUME Typed, NEW j \in Jobs, CreateUser(j)
  PROVE  RowMoves /\ row' \in [Users -> Row] /\ UNCHANGED patched
<1> DEFINE email == ToLowerCaseTrim(job[j].email)
<1>1. job[j].email \in Email
  BY DEF Typed, Placed, CreateUser
<1>2. email \in Email /\ email.plain
  BY <1>1, NewFields
<1>3. job' = [job EXCEPT ![j] = NoJob] /\ UNCHANGED patched
  BY DEF CreateUser
<1>4. \A i \in Jobs : job'[i] = job[i] \/ job'[i] = NoJob
  BY <1>3 DEF Typed, TypeOK
<1>5. CASE UNCHANGED row
  BY <1>3, <1>5 DEF RowMoves, Typed, TypeOK
<1>6. CASE IndexAllows(None, email) /\ CreateWith(j, email)
  <2>1. PICK u \in Users : row[u].state = "unused" /\ row' = [row EXCEPT ![u] = NewRow(email)]
    BY <1>6 DEF CreateWith
  <2>2. row'[u] = NewRow(email) /\ \A v \in Users \ {u} : row'[v] = row[v]
    BY <2>1 DEF Typed, TypeOK
  <2>3. NewRow(email) \in Row /\ row'[u].state = "kept" /\ row'[u].email = email
          /\ row'[u].deactivatedAt = None
    BY <1>2, <2>2, NewFields
  <2>4. Created(u)
    BY <1>2, <1>3, <1>4, <1>6, <2>1, <2>3 DEF Created
  <2>5. row' \in [Users -> Row]
    BY <2>1, <2>3 DEF Typed, TypeOK
  <2> QED BY <1>3, <2>2, <2>3, <2>4, <2>5 DEF RowMoves, RowChanges
<1> QED BY <1>5, <1>6 DEF CreateUser

LEMMA PatchMoves ==
  ASSUME Typed, NEW u \in Users, NEW e \in Email, UpdateEmail(u, e)
  PROVE  RowMoves /\ row' \in [Users -> Row]
<1> DEFINE y == [row[u] EXCEPT !.email = e]
<1>1. row \in [Users -> Row] /\ row[u] \in Row
  BY DEF Typed, TypeOK
<1>2. row' = [row EXCEPT ![u] = y] /\ patched' = patched \cup {u} /\ UNCHANGED job
        /\ u \in Kept /\ IndexAllows(u, e)
  BY DEF UpdateEmail
<1>3. y \in Row /\ y.state = row[u].state /\ y.email = e
        /\ y.deactivatedAt = row[u].deactivatedAt
  BY <1>1, EmailFields
<1>4. row'[u] = y /\ \A v \in Users \ {u} : row'[v] = row[v]
  BY <1>1, <1>2
<1>5. Patched(u)
  BY <1>2, <1>3, <1>4 DEF Patched, Kept
<1> QED BY <1>1, <1>2, <1>3, <1>4, <1>5 DEF RowMoves, RowChanges

\* deactivateUser and reactivateUser write the same column.
LEMMA DateMoves ==
  ASSUME Typed, NEW u \in Kept, NEW d \in Nat \cup {None},
         row' = [row EXCEPT ![u] = [row[u] EXCEPT !.deactivatedAt = d]], UNCHANGED patched
  PROVE  /\ Dated(u) /\ row'[u].deactivatedAt = d /\ row'[u] \in Row
         /\ row' \in [Users -> Row] /\ \A v \in Users \ {u} : row'[v] = row[v]
<1> DEFINE y == [row[u] EXCEPT !.deactivatedAt = d]
<1>1. row \in [Users -> Row] /\ row[u] \in Row /\ u \in Users
  BY DEF Typed, TypeOK, Kept
<1>2. y \in Row /\ y.state = row[u].state /\ y.email = row[u].email /\ y.deactivatedAt = d
  BY <1>1, DateFields
<1>3. row'[u] = y /\ \A v \in Users \ {u} : row'[v] = row[v]
  BY <1>1
<1> QED BY <1>1, <1>2, <1>3 DEF Dated, Kept

LEMMA LeaveMoves ==
  ASSUME Typed, NEW j \in Jobs, DeactivateUser(j)
  PROVE  RowMoves /\ row' \in [Users -> Row]
<1> DEFINE u == job[j].user
<1>1. job' = [job EXCEPT ![j] = NoJob] /\ UNCHANGED patched /\ job[j].pc = "leave"
  BY DEF DeactivateUser
<1>2. job'[j] = NoJob /\ \A i \in Jobs \ {j} : job'[i] = job[i]
  BY <1>1 DEF Typed, TypeOK
<1>3. CASE u \in Kept
  <2>1. row' = [row EXCEPT ![u] = [row[u] EXCEPT !.deactivatedAt = clock]]
    BY <1>3 DEF DeactivateUser
  <2>2. clock \in Nat /\ clock # None
    BY NoneIsNothing DEF Typed, TypeOK
  <2>3. /\ Dated(u) /\ row'[u].deactivatedAt = clock /\ row'[u] \in Row
        /\ row' \in [Users -> Row] /\ \A v \in Users \ {u} : row'[v] = row[v]
    BY <1>1, <1>3, <2>1, <2>2, DateMoves
  <2>4. j \in Leaving(u)
    BY <1>1 DEF Leaving
  <2>5. Left(u)
    BY <1>2, <2>2, <2>3, <2>4 DEF Left
  <2>6. u \in Users
    BY <1>3 DEF Kept
  <2> QED BY <2>3, <2>5, <2>6 DEF RowMoves, RowChanges
<1>4. CASE u \notin Kept
  BY <1>1, <1>4 DEF DeactivateUser, RowMoves, Typed, TypeOK
<1> QED BY <1>3, <1>4

LEMMA ReturnMoves ==
  ASSUME Typed, NEW u \in Users, ReactivateUser(u)
  PROVE  RowMoves /\ row' \in [Users -> Row]
<1>1. u \in Kept /\ UNCHANGED <<job, patched>>
        /\ row' = [row EXCEPT ![u] = [row[u] EXCEPT !.deactivatedAt = None]]
  BY DEF ReactivateUser
<1>2. /\ Dated(u) /\ row'[u].deactivatedAt = None /\ row'[u] \in Row
      /\ row' \in [Users -> Row] /\ \A v \in Users \ {u} : row'[v] = row[v]
  BY <1>1, DateMoves
<1> QED BY <1>1, <1>2 DEF RowMoves, RowChanges, Back

LEMMA DeleteMoves ==
  ASSUME Typed, NEW u \in Users, DeleteUser(u)
  PROVE  RowMoves /\ row' \in [Users -> Row]
<1>1. u \in Kept /\ UNCHANGED <<job, patched>> /\ row' = [row EXCEPT ![u] = NoRow("gone")]
  BY DEF DeleteUser
<1>2. NoRow("gone") \in Row
  BY NewFields
<1>3. row'[u] = NoRow("gone") /\ \A v \in Users \ {u} : row'[v] = row[v]
  BY <1>1 DEF Typed, TypeOK
<1>4. row' \in [Users -> Row]
  BY <1>1, <1>2 DEF Typed, TypeOK
<1>5. Gone(u)
  BY <1>1, <1>3 DEF Gone
<1> QED BY <1>2, <1>3, <1>4, <1>5 DEF RowMoves, RowChanges

LEMMA RowsMove ==
  ASSUME Typed, [Next]_vars
  PROVE  RowMoves /\ row' \in [Users -> Row]
<1>0. row \in [Users -> Row]
  BY DEF Typed, TypeOK
<1>1. ASSUME NEW j \in Jobs, NEW e \in Email, FindAddress(j, e)
      PROVE  UNCHANGED <<row, patched>>
  BY <1>1 DEF FindAddress
<1>2. ASSUME NEW j \in Jobs, NEW u \in Users, FindLeaver(j, u)
      PROVE  UNCHANGED <<row, patched>>
  BY <1>2 DEF FindLeaver
<1>3. ASSUME NEW j \in Jobs, Fail(j)
      PROVE  UNCHANGED <<row, patched>>
  BY <1>3 DEF Fail
<1>4. CASE Tick \/ UNCHANGED vars
  BY <1>0, <1>4 DEF Tick, vars, RowMoves
<1> QED
  BY <1>0, <1>1, <1>2, <1>3, <1>4, CreateMoves, PatchMoves, LeaveMoves, ReturnMoves,
     DeleteMoves DEF Next, RowMoves

-----------------------------------------------------------------------------
(* The calls *)

\* Another call in the step in which j looks u up.
Notes(x, y, other) ==
  /\ y.pc = x.pc /\ y.user = x.user /\ y.email = x.email
  /\ y.beside = (x.beside \/ other)

Enters(j, u) ==
  /\ u \in Kept /\ row[u].deactivatedAt = None /\ UNCHANGED row
  /\ job'[j].pc = "leave" /\ job'[j].user = u /\ job'[j].beside = (Leaving(u) # {})
  /\ \A i \in Jobs \ {j} : Notes(job[i], job'[i], i \in Leaving(u))

\* What a step does to the calls.
JobMoves ==
  \/ UNCHANGED job
  \/ \E j \in Jobs : job'[j].pc # "leave" /\ \A i \in Jobs \ {j} : job'[i] = job[i]
  \/ \E j \in Jobs : \E u \in Users : Enters(j, u)

JobsTyped == job \in [Jobs -> Job] /\ \A j \in Jobs : Placed(job[j])

LEMMA EnterMoves ==
  ASSUME Typed, NEW j \in Jobs, NEW u \in Users, FindLeaver(j, u)
  PROVE  Enters(j, u) /\ JobsTyped'
<1> DEFINE others == Leaving(u) # {}
           new == LeaveJob(u, others)
           noted(i) == job[i].beside \/ i \in Leaving(u)
           Noted(i) == [job[i] EXCEPT !.beside = noted(i)]
<1>1. /\ job' = [i \in Jobs |-> IF i = j THEN new ELSE Noted(i)]
      /\ u \in Kept /\ row[u].deactivatedAt = None /\ UNCHANGED row
  BY DEF FindLeaver, LeaveJob
<1>2. new \in Job /\ new.pc = "leave" /\ new.user = u /\ new.beside = others
  <2>1. others \in BOOLEAN
    OBVIOUS
  <2> QED BY <2>1, LeaveFields
<1>3. ASSUME NEW i \in Jobs
      PROVE  /\ Noted(i) \in Job /\ Noted(i).pc = job[i].pc /\ Noted(i).user = job[i].user
             /\ Noted(i).email = job[i].email /\ Noted(i).beside = noted(i)
  <2>1. job[i] \in Job
    BY DEF Typed, TypeOK
  <2>2. noted(i) \in BOOLEAN
    OBVIOUS
  <2> HIDE DEF noted
  <2> QED BY <2>1, <2>2, BesideFields
<1>4. \A i \in Jobs : Notes(job[i], Noted(i), i \in Leaving(u))
  <2> HIDE DEF Noted
  <2> QED BY <1>3 DEF Notes
<1> HIDE DEF new, Noted, noted
<1>5. job'[j] = new /\ \A i \in Jobs \ {j} : job'[i] = Noted(i)
  BY <1>1
<1>6. job' \in [Jobs -> Job]
  BY <1>1, <1>2, <1>3
<1>7. ASSUME NEW i \in Jobs
      PROVE  Placed(job'[i])
  BY <1>2, <1>3, <1>5 DEF Placed, Typed
<1> QED BY <1>1, <1>2, <1>4, <1>5, <1>6, <1>7 DEF Enters, JobsTyped

LEMMA OneJobMoves ==
  ASSUME Typed, NEW j \in Jobs, NEW y \in Job, Placed(y), y.pc # "leave",
         job' = [job EXCEPT ![j] = y]
  PROVE  JobMoves /\ JobsTyped'
<1>1. job'[j] = y /\ \A i \in Jobs \ {j} : job'[i] = job[i]
  BY DEF Typed, TypeOK
<1>2. job' \in [Jobs -> Job]
  BY DEF Typed, TypeOK
<1>3. \A i \in Jobs : Placed(job'[i])
  BY <1>1 DEF Typed
<1> QED BY <1>1, <1>2, <1>3 DEF JobMoves, JobsTyped

LEMMA JobsMove ==
  ASSUME Typed, [Next]_vars
  PROVE  JobMoves /\ JobsTyped'
<1>0. NoJob \in Job /\ Placed(NoJob) /\ NoJob.pc # "leave"
  BY NewFields DEF Placed
<1>1. ASSUME NEW j \in Jobs, CreateUser(j) \/ DeactivateUser(j) \/ Fail(j)
      PROVE  JobMoves /\ JobsTyped'
  <2>1. job' = [job EXCEPT ![j] = NoJob]
    BY <1>1 DEF CreateUser, DeactivateUser, Fail
  <2> QED BY <1>0, <2>1, OneJobMoves
<1>2. ASSUME NEW j \in Jobs, NEW e \in Email, FindAddress(j, e)
      PROVE  JobMoves /\ JobsTyped'
  <2> DEFINE y == [NoJob EXCEPT !.pc = "create", !.email = e]
  <2>1. job' = [job EXCEPT ![j] = y]
    BY <1>2 DEF FindAddress
  <2>2. y \in Job /\ y.pc = "create" /\ y.email = e
    BY JobFields
  <2>3. Placed(y) /\ y.pc # "leave"
    BY <2>2 DEF Placed
  <2> HIDE DEF y
  <2> QED BY <2>1, <2>2, <2>3, OneJobMoves
<1>3. ASSUME NEW j \in Jobs, NEW u \in Users, FindLeaver(j, u)
      PROVE  JobMoves /\ JobsTyped'
  BY <1>3, EnterMoves DEF JobMoves
<1>4. CASE UNCHANGED job
  BY <1>4 DEF JobMoves, JobsTyped, Typed, TypeOK, Placed
<1>5. ASSUME NEW u \in Users, DeleteUser(u) \/ ReactivateUser(u) \/ \E e \in Email : UpdateEmail(u, e)
      PROVE  UNCHANGED job
  BY <1>5 DEF DeleteUser, ReactivateUser, UpdateEmail
<1>6. CASE Tick \/ UNCHANGED vars
  BY <1>4, <1>6 DEF Tick, vars
<1> QED BY <1>1, <1>2, <1>3, <1>4, <1>5, <1>6 DEF Next

-----------------------------------------------------------------------------
(* The types *)

LEMMA InitTyped == Init => Typed
<1> SUFFICES ASSUME Init PROVE Typed
  OBVIOUS
<1>1. PICK first \in SUBSET Users : \E address \in [first -> Addresses] :
        row = [u \in Users |->
                 IF u \in first THEN NewRow([of |-> address[u], plain |-> TRUE])
                                ELSE NoRow("unused")]
  BY DEF Init
<1>2. PICK address \in [first -> Addresses] :
        row = [u \in Users |->
                 IF u \in first THEN NewRow([of |-> address[u], plain |-> TRUE])
                                ELSE NoRow("unused")]
  BY <1>1
<1>3. ASSUME NEW u \in Users
      PROVE  /\ row[u] \in Row
             /\ IF u \in Kept THEN row[u].email # None ELSE row[u] = NoRow(row[u].state)
  <2>1. CASE u \in first
    <3>1. [of |-> address[u], plain |-> TRUE] \in Email
      BY <2>1 DEF Email
    <3>2. row[u] = NewRow([of |-> address[u], plain |-> TRUE])
      BY <1>2, <2>1
    <3> QED BY <3>1, <3>2, NewFields DEF Kept
  <2>2. CASE u \notin first
    <3>1. row[u] = NoRow("unused")
      BY <1>2, <2>2
    <3> QED BY <3>1, NewFields DEF Kept
  <2> QED BY <2>1, <2>2
<1>4. row \in [Users -> Row]
  BY <1>2, <1>3
<1>5. clock \in Nat /\ patched \subseteq Users /\ job = [j \in Jobs |-> NoJob]
  BY DEF Init
<1>6. job \in [Jobs -> Job] /\ \A j \in Jobs : Placed(job[j])
  BY <1>5, NewFields DEF Placed
<1> QED BY <1>3, <1>4, <1>5, <1>6 DEF Typed, TypeOK

\* An account that is there has an address, and nothing is in any other row.
Filled(u) == IF u \in Kept THEN row[u].email # None ELSE row[u] = NoRow(row[u].state)

LEMMA StepFilled ==
  ASSUME Typed, RowMoves, NEW v \in Users
  PROVE  Filled(v)'
<1>1. Filled(v)
  BY DEF Typed, TypeOK, Filled
<1>2. CASE UNCHANGED row
  BY <1>1, <1>2 DEF Filled, Kept
<1>3. ASSUME NEW u \in Users, RowChanges(u), \A w \in Users \ {u} : row'[w] = row[w]
      PROVE  Filled(v)'
  <2>1. CASE v # u
    BY <1>1, <1>3, <2>1 DEF Filled, Kept
  <2>2. CASE v = u /\ (Created(u) \/ Patched(u))
    BY <2>2, NewFields DEF Filled, Kept, Created, Patched
  <2>3. CASE v = u /\ (Left(u) \/ Back(u))
    BY <1>1, <2>3 DEF Filled, Kept, Left, Back, Dated
  <2>4. CASE v = u /\ Gone(u)
    BY <2>4, NewFields DEF Filled, Kept, Gone
  <2> QED BY <1>3, <2>1, <2>2, <2>3, <2>4 DEF RowChanges
<1> QED BY <1>2, <1>3 DEF RowMoves

LEMMA StepTyped ==
  ASSUME Typed, [Next]_vars
  PROVE  Typed'
<1>1. RowMoves /\ row' \in [Users -> Row]
  BY RowsMove
<1>2. JobsTyped'
  BY JobsMove
<1>3. \A v \in Users : Filled(v)'
  BY <1>1, StepFilled
<1>4. patched' \subseteq Users
  <2>1. patched' = patched \/ \E u \in Users : patched' = patched \cup {u}
    BY <1>1 DEF RowMoves, RowChanges, Created, Patched, Left, Back, Dated, Gone
  <2> QED BY <2>1 DEF Typed, TypeOK
<1>5. clock' \in Nat
  <2>1. Tick \/ UNCHANGED clock
    BY DEF Next, vars, FindAddress, FindLeaver, CreateUser, DeactivateUser, Fail,
           UpdateEmail, DeleteUser, ReactivateUser
  <2>2. clock \in Nat
    BY DEF Typed, TypeOK
  <2> QED BY <2>1, <2>2 DEF Tick
<1> QED BY <1>1, <1>2, <1>3, <1>4, <1>5 DEF Typed, TypeOK, JobsTyped, Filled

\* The type invariant: nothing is written to a row that is not there, whatever
\* overlaps its deletion.
THEOREM TypeCorrect == Spec => []TypeOK
<1>1. Typed /\ [Next]_vars => Typed'
  BY StepTyped
<1>2. Typed => TypeOK
  BY DEF Typed
<1> QED BY <1>1, <1>2, InitTyped, PTL DEF Spec

-----------------------------------------------------------------------------
(* Addresses *)

Indexed == \A u, v \in Kept : row[u].email = row[v].email => u = v
Spelled == \A u \in Kept \ patched : row[u].email.plain

AddressInv == Typed /\ Indexed /\ Spelled

LEMMA InitAddresses == Init => Indexed /\ Spelled
<1> SUFFICES ASSUME Init PROVE Indexed /\ Spelled
  OBVIOUS
<1>1. PICK first \in SUBSET Users : \E address \in [first -> Addresses] :
         /\ \A u, v \in first : address[u] = address[v] => u = v
         /\ row = [u \in Users |->
                    IF u \in first THEN NewRow([of |-> address[u], plain |-> TRUE])
                                   ELSE NoRow("unused")]
  BY DEF Init
<1>2. PICK address \in [first -> Addresses] :
         /\ \A u, v \in first : address[u] = address[v] => u = v
         /\ row = [u \in Users |->
                    IF u \in first THEN NewRow([of |-> address[u], plain |-> TRUE])
                                   ELSE NoRow("unused")]
  BY <1>1
<1>3. ASSUME NEW u \in Kept
      PROVE  u \in first /\ row[u].email.of = address[u] /\ row[u].email.plain
  <2>1. u \in Users /\ row[u].state = "kept"
    BY DEF Kept
  <2>2. u \in first
    BY <1>2, <2>1, NewFields
  <2>3. [of |-> address[u], plain |-> TRUE] \in Email
    BY <2>2 DEF Email
  <2>4. row[u].email = [of |-> address[u], plain |-> TRUE]
    BY <1>2, <2>1, <2>2, <2>3, NewFields
  <2> QED BY <2>2, <2>4
<1>4. ASSUME NEW u \in Kept, NEW v \in Kept, row[u].email = row[v].email
      PROVE  u = v
  <2>1. address[u] = address[v]
    BY <1>3, <1>4
  <2> QED BY <1>2, <1>3, <2>1
<1> QED BY <1>3, <1>4 DEF Indexed, Spelled

LEMMA StepAddresses ==
  ASSUME AddressInv, RowMoves
  PROVE  Indexed' /\ Spelled'
<1>1. CASE UNCHANGED <<row, patched>>
  BY <1>1 DEF AddressInv, Indexed, Spelled, Kept
<1>2. ASSUME NEW u \in Users, RowChanges(u), \A w \in Users \ {u} : row'[w] = row[w]
      PROVE  Indexed' /\ Spelled'
  <2>1. \A v \in Kept' \ {u} : v \in Kept /\ row'[v] = row[v]
    BY <1>2 DEF Kept
  <2>2. u \in Kept' => \A v \in Kept \ {u} : row[v].email # row'[u].email
    <3>1. CASE Created(u) \/ Patched(u)
      BY <3>1, NoneIsNobody DEF Created, Patched, IndexAllows, Kept
    <3>2. CASE Left(u) \/ Back(u)
      BY <3>2 DEF Left, Back, Dated, AddressInv, Indexed
    <3>3. CASE Gone(u)
      BY <3>3, NewFields DEF Gone, Kept
    <3> QED BY <1>2, <3>1, <3>2, <3>3 DEF RowChanges
  <2>3. Indexed'
    <3> SUFFICES ASSUME NEW v \in Kept', NEW w \in Kept', row'[v].email = row'[w].email
                 PROVE  v = w
      BY DEF Indexed
    <3>1. CASE v # u /\ w # u
      BY <2>1, <3>1 DEF AddressInv, Indexed
    <3>2. CASE v = u \/ w = u
      BY <2>1, <2>2, <3>2
    <3> QED BY <3>1, <3>2
  <2>4. u \in Kept' \ patched' => row'[u].email.plain
    <3>1. CASE Created(u) \/ Patched(u)
      BY <3>1 DEF Created, Patched
    <3>2. CASE Left(u) \/ Back(u)
      BY <3>2 DEF Left, Back, Dated, AddressInv, Spelled
    <3>3. CASE Gone(u)
      BY <3>3, NewFields DEF Gone, Kept
    <3> QED BY <1>2, <3>1, <3>2, <3>3 DEF RowChanges
  <2>5. patched \subseteq patched'
    BY <1>2 DEF RowChanges, Created, Patched, Left, Back, Dated, Gone
  <2>6. Spelled'
    BY <2>1, <2>4, <2>5 DEF Spelled, AddressInv
  <2> QED BY <2>3, <2>6
<1> QED BY <1>1, <1>2 DEF RowMoves

\* However creations race: a sign-in finds every account whose address updateUser
\* did not write, and nobody else, by any spelling of its address.
THEOREM AddressesFindTheirOwner == Spec => []AddressFindsItsOwner
<1>1. Init => AddressInv
  BY InitTyped, InitAddresses DEF AddressInv
<1>2. AddressInv /\ [Next]_vars => AddressInv'
  BY RowsMove, StepTyped, StepAddresses DEF AddressInv
<1>3. AddressInv => AddressFindsItsOwner
  <2> SUFFICES ASSUME AddressInv, NEW u \in Kept \ patched, NEW e \in Email,
                      e.of = row[u].email.of
               PROVE  FoundBy(e) = {u}
    BY DEF AddressFindsItsOwner
  <2>1. row[u].email \in Email /\ row[u].email.plain
    <3>1. u \in Users /\ row[u] \in Row /\ row[u].email # None
      BY DEF AddressInv, Typed, TypeOK, Kept
    <3> QED BY <3>1 DEF Row, AddressInv, Spelled
  <2>2. row[u].email = [of |-> row[u].email.of, plain |-> TRUE]
    BY <2>1 DEF Email
  <2>3. row[u].email = ToLowerCaseTrim(e)
    BY <2>2 DEF ToLowerCaseTrim
  <2> QED BY <2>3 DEF FoundBy, AddressInv, Indexed
<1> QED BY <1>1, <1>2, <1>3, PTL DEF Spec

-----------------------------------------------------------------------------
(* The day somebody left *)

\* Of two deactivations of one person under way at once, each knows.
Paired ==
  \A i, j \in Jobs :
    i # j /\ job[i].pc = "leave" /\ job[j].pc = "leave" /\ job[i].user = job[j].user =>
      job[i].beside
\* So does one that is still under way when the person has left already.
Late ==
  \A u \in Kept : row[u].deactivatedAt # None => \A j \in Leaving(u) : job[j].beside

LeavingInv == Typed /\ Paired /\ Late

LEMMA StepPaired ==
  ASSUME LeavingInv, JobMoves
  PROVE  Paired'
<1>1. CASE UNCHANGED job
  BY <1>1 DEF LeavingInv, Paired
<1>2. ASSUME NEW k \in Jobs, job'[k].pc # "leave", \A i \in Jobs \ {k} : job'[i] = job[i]
      PROVE  Paired'
  BY <1>2 DEF LeavingInv, Paired
<1>3. ASSUME NEW k \in Jobs, NEW u \in Users, Enters(k, u)
      PROVE  Paired'
  <2> SUFFICES ASSUME NEW i \in Jobs, NEW j \in Jobs, i # j, job'[i].pc = "leave",
                      job'[j].pc = "leave", job'[i].user = job'[j].user
               PROVE  job'[i].beside
    BY DEF Paired
  <2>1. CASE i = k
    <3>1. j \in Leaving(u)
      BY <1>3, <2>1 DEF Enters, Notes, Leaving
    <3> QED BY <1>3, <2>1, <3>1 DEF Enters
  <2>2. CASE j = k
    <3>1. i \in Leaving(u)
      BY <1>3, <2>2 DEF Enters, Notes, Leaving
    <3> QED BY <1>3, <2>2, <3>1 DEF Enters, Notes
  <2>3. CASE i # k /\ j # k
    BY <1>3, <2>3 DEF Enters, Notes, LeavingInv, Paired
  <2> QED BY <2>1, <2>2, <2>3
<1> QED BY <1>1, <1>2, <1>3 DEF JobMoves

\* A call that leaves after the step did so before it, unless the person had not
\* left then.
LEMMA StillLeaving ==
  ASSUME JobMoves, NEW u \in Kept, NEW j \in Leaving(u)'
  PROVE  \/ j \in Leaving(u) /\ (job[j].beside => job'[j].beside)
         \/ row[u].deactivatedAt = None /\ UNCHANGED row
<1> USE DEF Leaving
<1>1. CASE UNCHANGED job
  BY <1>1
<1>2. ASSUME NEW k \in Jobs, job'[k].pc # "leave", \A i \in Jobs \ {k} : job'[i] = job[i]
      PROVE  j \in Leaving(u) /\ (job[j].beside => job'[j].beside)
  BY <1>2
<1>3. ASSUME NEW k \in Jobs, NEW v \in Users, Enters(k, v)
      PROVE  \/ j \in Leaving(u) /\ (job[j].beside => job'[j].beside)
             \/ row[u].deactivatedAt = None /\ UNCHANGED row
  <2>1. CASE j = k
    BY <1>3, <2>1 DEF Enters
  <2>2. CASE j # k
    BY <1>3, <2>2 DEF Enters, Notes
  <2> QED BY <2>1, <2>2
<1> QED BY <1>1, <1>2, <1>3 DEF JobMoves

LEMMA StepLate ==
  ASSUME LeavingInv, RowMoves, JobMoves
  PROVE  Late'
<1> SUFFICES ASSUME NEW u \in Kept', row'[u].deactivatedAt # None, NEW j \in Leaving(u)'
             PROVE  job'[j].beside
  BY DEF Late
<1>1. CASE u \in Kept /\ row'[u].deactivatedAt = row[u].deactivatedAt
  BY <1>1, StillLeaving DEF LeavingInv, Late
<1>2. CASE ~(u \in Kept /\ row'[u].deactivatedAt = row[u].deactivatedAt)
  <2>1. row'[u] # row[u] /\ u \in Users
    BY <1>2 DEF Kept
  <2>2. RowChanges(u)
    BY <2>1 DEF RowMoves
  <2>3. Left(u)
    BY <1>2, <2>2, NewFields
       DEF RowChanges, Created, Patched, Back, Gone, Dated, Kept
  <2>4. PICK i \in Leaving(u) : job'[i] = NoJob /\ \A k \in Jobs \ {i} : job'[k] = job[k]
    BY <2>3 DEF Left
  <2>5. j # i /\ j \in Leaving(u) /\ job'[j] = job[j]
    BY <2>4, NewFields DEF Leaving
  <2> QED BY <2>4, <2>5 DEF LeavingInv, Paired, Leaving
<1> QED BY <1>1, <1>2

\* The day somebody left moves in a race of two deactivations of the person, and
\* in nothing else.
THEOREM LeavingDatesStay == Spec => LeavingDateStaysUnlessRaced
<1> DEFINE Stays ==
      \A u \in Users :
        row[u].deactivatedAt # None /\ row'[u].deactivatedAt \notin {None, row[u].deactivatedAt} =>
          \E j \in Leaving(u) : job[j].beside /\ job'[j] = NoJob
<1>1. Init => LeavingInv
  <2>1. Init => job = [j \in Jobs |-> NoJob]
    BY DEF Init
  <2> QED BY <2>1, InitTyped, NewFields DEF LeavingInv, Paired, Late, Leaving
<1>2. LeavingInv /\ [Next]_vars => LeavingInv'
  BY RowsMove, JobsMove, StepTyped, StepPaired, StepLate DEF LeavingInv
<1>3. LeavingInv /\ [Next]_vars => [Stays]_vars
  <2> SUFFICES ASSUME LeavingInv, [Next]_vars, NEW u \in Users, row[u].deactivatedAt # None,
                      row'[u].deactivatedAt \notin {None, row[u].deactivatedAt}
               PROVE  \E j \in Leaving(u) : job[j].beside /\ job'[j] = NoJob
    OBVIOUS
  <2>1. RowChanges(u)
    BY RowsMove DEF LeavingInv, RowMoves
  <2>2. Left(u)
    BY <2>1, NewFields DEF RowChanges, Created, Patched, Back, Gone
  <2>3. u \in Kept
    BY <2>2 DEF Left, Dated
  <2> QED BY <2>2, <2>3 DEF Left, LeavingInv, Late
<1> QED BY <1>1, <1>2, <1>3, PTL DEF Spec, LeavingDateStaysUnlessRaced
=============================================================================

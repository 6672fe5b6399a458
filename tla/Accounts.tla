------------------------------- MODULE Accounts -------------------------------
(***************************************************************************)
(* The users service: the other services create, change, delete,           *)
(* deactivate and reactivate accounts, and a sign-in looks an address up   *)
(* in its normal spelling.  Passwords and the rest of a profile are left   *)
(* out; who may not leave because nobody else could administer is in       *)
(* SuperAdmins, here any deactivation may be refused.                      *)
(***************************************************************************)
EXTENDS Naturals

CONSTANTS
  Users,      \* ids, which the database draws in ascending order
  Addresses,  \* e-mail addresses, however they are typed
  Jobs,       \* createUser and deactivateUser calls under way at once
  None,       \* null
  MaxTime     \* a bound on the clock

ASSUME IdsAreNat == Users \subseteq Nat
ASSUME NoneIsNothing == None \notin Nat /\ None \notin [of : Addresses, plain : BOOLEAN]

VARIABLES
  clock,
  row,     \* [Users -> row of User]
  job,     \* [Jobs -> call of createUser or deactivateUser]
  patched  \* history: the accounts whose address updateUser wrote

vars == <<clock, row, job, patched>>

\* plain: in lower case and trimmed.
Email == [of : Addresses, plain : BOOLEAN]
ToLowerCaseTrim(e) == [of |-> e.of, plain |-> TRUE]

Row ==
  [state : {"unused", "kept", "gone"}, email : Email \cup {None},
   deactivatedAt : Nat \cup {None}]

NoRow(state) == [state |-> state, email |-> None, deactivatedAt |-> None]

NewRow(email) == [state |-> "kept", email |-> email, deactivatedAt |-> None]

\* beside: another deactivation of the person was under way at some moment.
Job ==
  [pc : {"idle", "create", "leave"}, user : Users \cup {None},
   email : Email \cup {None}, beside : BOOLEAN]

NoJob == [pc |-> "idle", user |-> None, email |-> None, beside |-> FALSE]

Kept == {u \in Users : row[u].state = "kept"}

\* Nothing is written to an account that is not there.
TypeOK ==
  /\ clock \in Nat
  /\ row \in [Users -> Row]
  /\ job \in [Jobs -> Job]
  /\ patched \subseteq Users
  /\ \A u \in Users : IF u \in Kept THEN row[u].email # None ELSE row[u] = NoRow(row[u].state)

\* The unique index on email, which compares spellings.
IndexAllows(u, e) == \A v \in Kept \ {u} : row[v].email # e

\* Some accounts there were before.
Init ==
  /\ clock = 0
  /\ \E first \in {U \in SUBSET Users : \A u \in U, v \in Users : v < u => v \in U} :
       \E address \in [first -> Addresses] :
         /\ \A u, v \in first : address[u] = address[v] => u = v
         /\ row = [u \in Users |->
                    IF u \in first THEN NewRow([of |-> address[u], plain |-> TRUE])
                                   ELSE NoRow("unused")]
  /\ job = [j \in Jobs |-> NoJob]
  /\ patched = {}

-----------------------------------------------------------------------------
(* createUser, updateUser, deleteUser *)

\* An address that is taken in its normal spelling: 409.
FindAddress(j, e) ==
  /\ job[j].pc = "idle"
  /\ \A u \in Kept : row[u].email # ToLowerCaseTrim(e)
  /\ job' = [job EXCEPT ![j] = [NoJob EXCEPT !.pc = "create", !.email = e]]
  /\ UNCHANGED <<clock, row, patched>>

CreateWith(j, email) ==
  \E u \in Users :
    /\ row[u].state = "unused" /\ \A v \in Users : v < u => row[v].state # "unused"
    /\ row' = [row EXCEPT ![u] = NewRow(email)]

\* Mutant: the address is stored as it was typed.
CreateUserAsTyped(j) ==
  /\ job[j].pc = "create"
  /\ IF IndexAllows(None, job[j].email) THEN CreateWith(j, job[j].email)
                                         ELSE UNCHANGED row
  /\ job' = [job EXCEPT ![j] = NoJob]
  /\ UNCHANGED <<clock, patched>>

\* The password is hashed meanwhile; the index refuses an address taken since.
CreateUser(j) ==
  LET email == ToLowerCaseTrim(job[j].email)
  IN /\ job[j].pc = "create"
     /\ IF IndexAllows(None, email) THEN CreateWith(j, email) ELSE UNCHANGED row
     /\ job' = [job EXCEPT ![j] = NoJob]
     /\ UNCHANGED <<clock, patched>>

\* The dto is written as it came, the address too.
UpdateEmail(u, e) ==
  /\ u \in Kept
  /\ IndexAllows(u, e)
  /\ row' = [row EXCEPT ![u] = [@ EXCEPT !.email = e]]
  /\ patched' = patched \cup {u}
  /\ UNCHANGED <<clock, job>>

\* The find before it, and that of reactivateUser, only words the 404.
DeleteUser(u) ==
  /\ u \in Kept
  /\ row' = [row EXCEPT ![u] = NoRow("gone")]
  /\ UNCHANGED <<clock, job, patched>>

-----------------------------------------------------------------------------
(* deactivateUser, reactivateUser *)

Leaving(u) == {j \in Jobs : job[j].pc = "leave" /\ job[j].user = u}

\* Mutant: nobody looks whether the person has left already.
FindAnyLeaver(j, u) ==
  /\ job[j].pc = "idle"
  /\ u \in Kept
  /\ job' = [i \in Jobs |->
       IF i = j THEN [NoJob EXCEPT !.pc = "leave", !.user = u, !.beside = Leaving(u) # {}]
       ELSE [job[i] EXCEPT !.beside = job[i].beside \/ i \in Leaving(u)]]
  /\ UNCHANGED <<clock, row, patched>>

\* The row is read; one that has left is answered as it is.
FindLeaver(j, u) ==
  /\ job[j].pc = "idle"
  /\ u \in Kept
  /\ row[u].deactivatedAt = None
  /\ job' = [i \in Jobs |->
       IF i = j THEN [NoJob EXCEPT !.pc = "leave", !.user = u, !.beside = Leaving(u) # {}]
       ELSE [job[i] EXCEPT !.beside = job[i].beside \/ i \in Leaving(u)]]
  /\ UNCHANGED <<clock, row, patched>>

\* Mutant: the row is written without being there.
DeactivateUserUpsert(j) ==
  /\ job[j].pc = "leave"
  /\ row' = [row EXCEPT ![job[j].user] = [@ EXCEPT !.deactivatedAt = clock]]
  /\ job' = [job EXCEPT ![j] = NoJob]
  /\ UNCHANGED <<clock, patched>>

\* After assertNotLastAdmin the row is written, whatever is in it now; a row
\* that is gone is a 404.
DeactivateUser(j) ==
  LET u == job[j].user
  IN /\ job[j].pc = "leave"
     /\ IF u \in Kept
        THEN row' = [row EXCEPT ![u] = [@ EXCEPT !.deactivatedAt = clock]]
        ELSE UNCHANGED row
     /\ job' = [job EXCEPT ![j] = NoJob]
     /\ UNCHANGED <<clock, patched>>

ReactivateUser(u) ==
  /\ u \in Kept
  /\ row' = [row EXCEPT ![u] = [@ EXCEPT !.deactivatedAt = None]]
  /\ UNCHANGED <<clock, job, patched>>

\* A refusal (the last admin), a failing call or a dead process.
Fail(j) ==
  /\ job[j].pc # "idle"
  /\ job' = [job EXCEPT ![j] = NoJob]
  /\ UNCHANGED <<clock, row, patched>>

Tick ==
  /\ clock < MaxTime
  /\ clock' = clock + 1
  /\ UNCHANGED <<row, job, patched>>

Next ==
  \/ \E j \in Jobs :
       \/ \E e \in Email : FindAddress(j, e)
       \/ \E u \in Users : FindLeaver(j, u)
       \/ CreateUser(j) \/ DeactivateUser(j) \/ Fail(j)
  \/ \E u \in Users :
       \/ \E e \in Email : UpdateEmail(u, e)
       \/ DeleteUser(u) \/ ReactivateUser(u)
  \/ Tick

Spec == Init /\ [][Next]_vars

-----------------------------------------------------------------------------
(* Properties *)

\* The day somebody left moves only if two deactivations of the person were under
\* way at once; however often one is repeated, reactivated in between or refused.
LeavingDateStaysUnlessRaced ==
  [][\A u \in Users :
       row[u].deactivatedAt # None /\ row'[u].deactivatedAt \notin {None, row[u].deactivatedAt} =>
         \E j \in Leaving(u) : job[j].beside /\ job'[j] = NoJob]_vars

\* deactivateUser: "keeps the original timestamp rather than moving it, so 'when
\* did they leave' survives a double click".
LeavingDateStays ==
  [][\A u \in Users :
       row[u].deactivatedAt # None => row'[u].deactivatedAt \in {None, row[u].deactivatedAt}]_vars

\* Whom a sign-in finds by an address.
FoundBy(e) == {u \in Kept : row[u].email = ToLowerCaseTrim(e)}

\* However creations race, in whatever spelling: a sign-in finds every account by
\* its address, and nobody else's, unless updateUser wrote that address as it was
\* typed.
AddressFindsItsOwner ==
  \A u \in Kept \ patched : \A e \in Email : e.of = row[u].email.of => FoundBy(e) = {u}
=============================================================================

------------------------------ MODULE PeopleList ------------------------------
(***************************************************************************)
(* getAllUsers, read page after page while accounts are created, renamed,  *)
(* deleted, deactivated and reactivated.  Each of those is one write of    *)
(* the row here; what leads to it is in Accounts.  Making somebody a       *)
(* super-admin, or no longer one, is to the list what deactivation is.     *)
(***************************************************************************)
EXTENDS Naturals, FiniteSets

CONSTANTS
  Users,      \* the ids ever drawn, in ascending order (a bound on accounts)
  FullNames,  \* ranks of (firstName, lastName): people may share one
  Readers,    \* callers that page through the list
  Limit       \* people to a page

ASSUME IdsAreNat == Users \subseteq Nat /\ FullNames \subseteq Nat
ASSUME UsersAreFinite == IsFiniteSet(Users)
ASSUME LimitIsPositive == Limit \in Nat \ {0}

VARIABLES
  used,    \* the ids drawn so far
  person,  \* [the ids with a row -> their name, and whether they have left]
  reader   \* [Readers -> what the caller has read, and history]

vars == <<used, person, reader>>

Person == [name : FullNames, left : BOOLEAN]

\* seen: how often a person was on a page.  History: the people in the list
\* since the first page, and whether anybody came into it, or went out of it.
Reading ==
  [pc : {"idle", "paging", "done"}, page : Nat \ {0}, includeInactive : BOOLEAN,
   seen : [Users -> Nat], stayed : SUBSET Users, joined : BOOLEAN, left : BOOLEAN]

TypeOK ==
  /\ used \subseteq Users
  /\ DOMAIN person \subseteq used /\ person \in [DOMAIN person -> Person]
  /\ reader \in [Readers -> Reading]

\* The `where`.
Listed(people, includeInactive) ==
  {u \in DOMAIN people : includeInactive \/ ~people[u].left}

NotRead ==
  [pc |-> "idle", page |-> 1, includeInactive |-> FALSE, seen |-> [u \in Users |-> 0],
   stayed |-> {}, joined |-> FALSE, left |-> FALSE]

Init ==
  /\ used \in {U \in SUBSET Users : \A u \in U, v \in Users : v < u => v \in U}
  /\ person \in [used -> Person]
  /\ reader = [r \in Readers |-> NotRead]

-----------------------------------------------------------------------------
(* The writes *)

\* The rows become `people`; the readers' history takes note.  Who is renamed
\* leaves one place of the list and comes into another.
Store(people) ==
  LET Note(x) ==
        LET before == Listed(person, x.includeInactive)
            after == Listed(people, x.includeInactive)
            renamed == {u \in before \cap after : people[u].name # person[u].name}
        IN [x EXCEPT !.stayed = (x.stayed \cap after) \ renamed,
                     !.joined = x.joined \/ (after \ before) \cup renamed # {},
                     !.left = x.left \/ (before \ after) \cup renamed # {}]
  IN /\ person' = people
     /\ reader' = [r \in Readers |->
                     IF reader[r].pc = "paging" THEN Note(reader[r]) ELSE reader[r]]

CreateUser(u, n) ==
  /\ u \notin used /\ \A v \in Users : v < u => v \in used
  /\ Store([v \in DOMAIN person \cup {u} |->
              IF v = u THEN [name |-> n, left |-> FALSE] ELSE person[v]])
  /\ used' = used \cup {u}

UpdateUser(u, n) ==
  /\ u \in DOMAIN person
  /\ Store([person EXCEPT ![u] = [@ EXCEPT !.name = n]])
  /\ UNCHANGED used

DeleteUser(u) ==
  /\ u \in DOMAIN person
  /\ Store([v \in DOMAIN person \ {u} |-> person[v]])
  /\ UNCHANGED used

\* deactivateUser and reactivateUser.
SetLeft(u, left) ==
  /\ u \in DOMAIN person
  /\ Store([person EXCEPT ![u] = [@ EXCEPT !.left = left]])
  /\ UNCHANGED used

-----------------------------------------------------------------------------
(* The pages *)

BeginReading(r, includeInactive) ==
  /\ reader[r].pc # "paging"
  /\ reader' = [reader EXCEPT ![r] =
       [NotRead EXCEPT !.pc = "paging", !.includeInactive = includeInactive,
                       !.stayed = Listed(person, includeInactive)]]
  /\ UNCHANGED <<used, person>>

\* Skip the pages before, take one; for the caller a short page is the last.
\* order: the pairs of people of whom the first comes no later than the second.
ReadPage(r, order) ==
  LET x == reader[r]
      list == Listed(person, x.includeInactive)
      Position(u) == Cardinality({v \in list : <<v, u>> \in order})
      page == {u \in list : Position(u) \in (x.page - 1) * Limit + 1 .. x.page * Limit}
  IN /\ x.pc = "paging"
     /\ reader' = [reader EXCEPT ![r] = [x EXCEPT
          !.pc = IF Cardinality(page) < Limit THEN "done" ELSE "paging",
          !.page = x.page + 1,
          !.seen = [u \in Users |-> IF u \in page THEN x.seen[u] + 1 ELSE x.seen[u]]]]
     /\ UNCHANGED <<used, person>>

\* firstName and lastName, then id; and then id downwards.
ByNameThenId ==
  {p \in (DOMAIN person) \X (DOMAIN person) :
     LET m == person[p[1]].name  n == person[p[2]].name
     IN m < n \/ (m = n /\ p[1] <= p[2])}
ByNameThenIdDown ==
  {p \in (DOMAIN person) \X (DOMAIN person) :
     LET m == person[p[1]].name  n == person[p[2]].name
     IN m < n \/ (m = n /\ p[1] >= p[2])}

\* Mutant: no id in the order, and people who share a name come either way round.
GetAllUsersUntied(r) == ReadPage(r, ByNameThenId) \/ ReadPage(r, ByNameThenIdDown)

GetAllUsers(r) == ReadPage(r, ByNameThenId)

Next ==
  \/ \E u \in Users :
       \/ \E n \in FullNames : CreateUser(u, n) \/ UpdateUser(u, n)
       \/ DeleteUser(u)
       \/ \E left \in BOOLEAN : SetLeft(u, left)
  \/ \E r \in Readers : GetAllUsers(r) \/ \E i \in BOOLEAN : BeginReading(r, i)

Spec == Init /\ [][Next]_vars

-----------------------------------------------------------------------------
(* Properties *)

\* Whoever pages through the list sees everybody who was in it all along, unless
\* somebody went out of it meanwhile, and nobody twice, unless somebody came in
\* (getAllUsers: "which makes paged results skip and repeat users").
PagesAreWhole ==
  \A r \in Readers : \A u \in reader[r].stayed :
    /\ reader[r].pc = "done" /\ ~reader[r].left => reader[r].seen[u] > 0
    /\ ~reader[r].joined => reader[r].seen[u] < 2
=============================================================================

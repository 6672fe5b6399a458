--------------------------- MODULE PeopleList_proofs ---------------------------
(* Theorems about PeopleList, for every value of its constants. *)
EXTENDS PeopleList, FiniteSetTheorems, TLAPS

-----------------------------------------------------------------------------
(* Places in the list *)

\* v comes no later than u: firstName and lastName, then id.
Before(people, v, u) ==
  \/ people[v].name < people[u].name
  \/ people[v].name = people[u].name /\ v <= u

\* The place of u among the people of S.
Place(people, S, u) == Cardinality({v \in S : Before(people, v, u)})

People(D) == [D -> Person]

\* The order of the list leaves no two people in the same place: it ends with the id.
LEMMA OrderIsTotal ==
  ASSUME NEW D \in SUBSET Users, NEW p \in People(D)
  PROVE  \A u, v, w \in D :
           /\ Before(p, u, u)
           /\ Before(p, u, v) \/ Before(p, v, u)
           /\ Before(p, u, v) /\ Before(p, v, u) => u = v
           /\ Before(p, u, v) /\ Before(p, v, w) => Before(p, u, w)
<1>1. \A u \in D : u \in Nat /\ p[u].name \in Nat
  BY IdsAreNat DEF People, Person
<1> QED BY <1>1 DEF Before

LEMMA PlaceRange ==
  ASSUME NEW D \in SUBSET Users, NEW p \in People(D), NEW S \in SUBSET D, NEW u \in S
  PROVE  Place(p, S, u) \in 1 .. Cardinality(S) /\ Cardinality(S) \in Nat
<1> DEFINE T == {v \in S : Before(p, v, u)}
<1>1. IsFiniteSet(S)
  BY UsersAreFinite, FS_Subset
<1>2. IsFiniteSet(T) /\ Cardinality(T) <= Cardinality(S)
  BY <1>1, FS_Subset
<1>3. u \in T
  BY OrderIsTotal
<1>4. Cardinality(T) # 0
  BY <1>2, <1>3, FS_EmptySet
<1>5. Cardinality(T) \in Nat /\ Cardinality(S) \in Nat
  BY <1>1, <1>2, FS_CardinalityType
<1> QED BY <1>2, <1>4, <1>5 DEF Place

LEMMA PlacesDiffer ==
  ASSUME NEW D \in SUBSET Users, NEW p \in People(D), NEW S \in SUBSET D,
         NEW u \in S, NEW v \in S, Place(p, S, u) = Place(p, S, v)
  PROVE  u = v
<1> DEFINE T(w) == {x \in S : Before(p, x, w)}
<1>1. IsFiniteSet(S)
  BY UsersAreFinite, FS_Subset
<1>2. ASSUME NEW x \in S, NEW y \in S, Before(p, x, y), Cardinality(T(x)) = Cardinality(T(y))
      PROVE  x = y
  <2>1. T(x) \subseteq T(y)
    BY <1>2, OrderIsTotal
  <2>2. IsFiniteSet(T(y))
    BY <1>1, FS_Subset
  <2>3. T(y) = T(x)
    BY <1>2, <2>1, <2>2, FS_Subset
  <2>4. y \in T(y)
    BY OrderIsTotal
  <2>5. Before(p, y, x)
    BY <2>3, <2>4
  <2> QED BY <1>2, <2>5, OrderIsTotal
<1>3. Before(p, u, v) \/ Before(p, v, u)
  BY OrderIsTotal
<1>4. Cardinality(T(u)) = Cardinality(T(v))
  BY DEF Place
<1> HIDE DEF T
<1> QED BY <1>2, <1>3, <1>4

\* A page behind which somebody is left is full.
LEMMA PageIsFull ==
  ASSUME NEW D \in SUBSET Users, NEW p \in People(D), NEW S \in SUBSET D, NEW u \in S,
         NEW a \in Nat, Place(p, S, u) > a + Limit
  PROVE  Cardinality({v \in S : Place(p, S, v) \in a + 1 .. a + Limit}) >= Limit
<1> DEFINE n == Cardinality(S)
           place == [v \in S |-> Place(p, S, v)]
           page == {v \in S : Place(p, S, v) \in a + 1 .. a + Limit}
           onPage == [v \in page |-> place[v]]
<1>1. IsFiniteSet(S) /\ n \in Nat
  BY PlaceRange, UsersAreFinite, FS_Subset
<1>2. IsFiniteSet(1 .. n) /\ Cardinality(1 .. n) = n
  BY <1>1, FS_Interval
<1>a. place \in [S -> 1 .. n]
  BY PlaceRange
<1>b. \A v, w \in S : place[v] = place[w] => v = w
  BY PlacesDiffer
<1>3. place \in Injection(S, 1 .. n)
  <2> HIDE DEF place
  <2> QED BY <1>a, <1>b DEF Injection, IsInjective
<1>4. place \in Surjection(S, 1 .. n)
  BY <1>1, <1>2, <1>3, FS_Injection
<1>5. a + Limit <= n /\ Limit \in Nat
  BY <1>1, PlaceRange, LimitIsPositive
<1>6. \A k \in a + 1 .. a + Limit : \E v \in page : onPage[v] = k
  <2> TAKE k \in a + 1 .. a + Limit
  <2>1. k \in 1 .. n
    BY <1>1, <1>5
  <2>2. PICK v \in S : place[v] = k
    BY <1>4, <2>1 DEF Surjection
  <2> QED BY <2>2
<1>7. onPage \in Surjection(page, a + 1 .. a + Limit)
  BY <1>6 DEF Surjection
<1>8. IsFiniteSet(page)
  BY <1>1, FS_Subset
<1>9. Cardinality(a + 1 .. a + Limit) <= Cardinality(page)
  BY <1>7, <1>8, FS_Surjection
<1>10. Cardinality(a + 1 .. a + Limit) = Limit
  BY <1>5, FS_Interval
<1> QED BY <1>9, <1>10

\* Who stays in the list moves back when others come into it, and forward when
\* others go out.
LEMMA PlaceMoves ==
  ASSUME NEW D \in SUBSET Users, NEW p \in People(D), NEW E \in SUBSET Users,
         NEW q \in People(E), NEW S \in SUBSET D, NEW T \in SUBSET E, S \subseteq T,
         \A v \in S : p[v].name = q[v].name, NEW u \in S
  PROVE  Place(p, S, u) <= Place(q, T, u)
<1> DEFINE ahead == {v \in S : Before(p, v, u)}
           behind == {v \in T : Before(q, v, u)}
<1>1. ahead \subseteq behind
  BY DEF Before
<1>2. IsFiniteSet(behind)
  BY UsersAreFinite, FS_Subset
<1> QED BY <1>1, <1>2, FS_Subset DEF Place


-----------------------------------------------------------------------------
(* What a reader has seen *)

\* Where the reader is: everybody in the list all along is on a page read, or is
\* still to come, as nobody moved forward unless somebody went out of the list,
\* and nobody backward unless somebody came into it.
InTheMiddle(x, people) ==
  LET list == Listed(people, x.includeInactive)
      past == (x.page - 1) * Limit
  IN /\ x.stayed \subseteq list
     /\ \A u \in x.stayed :
          /\ ~x.left => x.seen[u] > 0 \/ Place(people, list, u) > past
          /\ ~x.joined => x.seen[u] = 0 \/ (x.seen[u] = 1 /\ Place(people, list, u) <= past)

Whole(x) ==
  \A u \in x.stayed : (~x.left => x.seen[u] > 0) /\ (~x.joined => x.seen[u] < 2)

ReadInOrder(x, people) ==
  /\ x.pc = "idle" => x.stayed = {}
  /\ x.pc = "paging" => InTheMiddle(x, people)
  /\ x.pc = "done" => Whole(x)

Inv == TypeOK /\ \A r \in Readers : ReadInOrder(reader[r], person)

LEMMA ListIsOfPeople ==
  ASSUME TypeOK
  PROVE  /\ DOMAIN person \in SUBSET Users /\ person \in People(DOMAIN person)
         /\ \A i : Listed(person, i) \in SUBSET (DOMAIN person)
  BY DEF TypeOK, People, Listed

LEMMA ListedNow ==
  ASSUME NEW people, NEW i
  PROVE  Listed(people, i) \subseteq DOMAIN people
  BY DEF Listed

\* A reader's record after a write, as it begins, and after a page.
Noted(x, S, j, l) == [x EXCEPT !.stayed = S, !.joined = j, !.left = l]
Begun(i, S) == [NotRead EXCEPT !.pc = "paging", !.includeInactive = i, !.stayed = S]
Paged(x, c, s) == [x EXCEPT !.pc = c, !.page = x.page + 1, !.seen = s]

LEMMA NotedFields ==
  ASSUME NEW x \in Reading, NEW S \in SUBSET Users, NEW j \in BOOLEAN, NEW l \in BOOLEAN
  PROVE  /\ Noted(x, S, j, l) \in Reading
         /\ Noted(x, S, j, l).pc = x.pc /\ Noted(x, S, j, l).page = x.page
         /\ Noted(x, S, j, l).seen = x.seen
         /\ Noted(x, S, j, l).includeInactive = x.includeInactive
         /\ Noted(x, S, j, l).stayed = S
         /\ Noted(x, S, j, l).joined = j /\ Noted(x, S, j, l).left = l
  BY DEF Reading, Noted

LEMMA BegunFields ==
  ASSUME NEW i \in BOOLEAN, NEW S \in SUBSET Users
  PROVE  /\ Begun(i, S) \in Reading
         /\ Begun(i, S).pc = "paging" /\ Begun(i, S).page = 1
         /\ Begun(i, S).seen = [u \in Users |-> 0]
         /\ Begun(i, S).includeInactive = i /\ Begun(i, S).stayed = S
<1> DEFINE unseen == [u \in Users |-> 0]
<1>1. unseen \in [Users -> Nat]
  OBVIOUS
<1>2. NotRead = [pc |-> "idle", page |-> 1, includeInactive |-> FALSE, seen |-> unseen,
                 stayed |-> {}, joined |-> FALSE, left |-> FALSE]
  BY DEF NotRead
<1> HIDE DEF unseen
<1>3. NotRead \in Reading /\ NotRead.page = 1 /\ NotRead.seen = unseen
  BY <1>1, <1>2 DEF Reading
<1> HIDE DEF NotRead
<1>4. Begun(i, S) \in Reading
  BY <1>3 DEF Begun, Reading
<1>5. /\ Begun(i, S).pc = "paging" /\ Begun(i, S).page = 1 /\ Begun(i, S).seen = unseen
      /\ Begun(i, S).includeInactive = i /\ Begun(i, S).stayed = S
  BY <1>3 DEF Begun, Reading
<1> QED BY <1>4, <1>5 DEF unseen

LEMMA PagedFields ==
  ASSUME NEW x \in Reading, NEW c \in {"done", "paging"}, NEW s \in [Users -> Nat]
  PROVE  /\ Paged(x, c, s) \in Reading
         /\ Paged(x, c, s).pc = c /\ Paged(x, c, s).page = x.page + 1
         /\ Paged(x, c, s).seen = s
         /\ Paged(x, c, s).includeInactive = x.includeInactive
         /\ Paged(x, c, s).stayed = x.stayed
         /\ Paged(x, c, s).joined = x.joined /\ Paged(x, c, s).left = x.left
<1>1. x.page + 1 \in Nat \ {0}
  BY DEF Reading
<1> DEFINE n == x.page + 1
<1> HIDE DEF n
<1>2. Paged(x, c, s) = [x EXCEPT !.pc = c, !.page = n, !.seen = s] /\ n \in Nat \ {0}
  BY <1>1 DEF Paged, n
<1>3. Paged(x, c, s) \in Reading
  BY <1>2 DEF Reading
<1>4. /\ Paged(x, c, s).pc = c /\ Paged(x, c, s).page = n
      /\ Paged(x, c, s).seen = s
      /\ Paged(x, c, s).includeInactive = x.includeInactive
      /\ Paged(x, c, s).stayed = x.stayed
      /\ Paged(x, c, s).joined = x.joined /\ Paged(x, c, s).left = x.left
  BY <1>2 DEF Reading
<1> QED BY <1>3, <1>4 DEF n

LEMMA InvInit == Init => Inv
<1> SUFFICES ASSUME Init PROVE Inv
  OBVIOUS
<1>1. NotRead \in Reading /\ NotRead.pc = "idle" /\ NotRead.stayed = {}
  BY DEF NotRead, Reading
<1>2. DOMAIN person = used
  BY DEF Init
<1>3. TypeOK
  BY <1>1, <1>2 DEF Init, TypeOK
<1>4. \A r \in Readers : reader[r] = NotRead
  BY DEF Init
<1> QED BY <1>1, <1>3, <1>4 DEF Inv, ReadInOrder

-----------------------------------------------------------------------------
(* The writes *)

\* A write to the list moves nobody past a reader unnoticed.
LEMMA StoreKeeps ==
  ASSUME Inv, NEW D \in SUBSET Users, NEW people \in People(D), Store(people)
  PROVE  /\ reader' \in [Readers -> Reading]
         /\ \A r \in Readers : ReadInOrder(reader'[r], people)
<1> DEFINE before(x) == Listed(person, x.includeInactive)
           after(x) == Listed(people, x.includeInactive)
           renamed(x) == {u \in before(x) \cap after(x) : people[u].name # person[u].name}
           note(x) == [x EXCEPT !.stayed = (x.stayed \cap after(x)) \ renamed(x),
                         !.joined = x.joined \/ (after(x) \ before(x)) \cup renamed(x) # {},
                         !.left = x.left \/ (before(x) \ after(x)) \cup renamed(x) # {}]
<1>0. /\ reader' = [r \in Readers |->
                      IF reader[r].pc = "paging" THEN note(reader[r]) ELSE reader[r]]
      /\ reader \in [Readers -> Reading]
  BY DEF Store, Inv, TypeOK
<1>1. ASSUME NEW r \in Readers
      PROVE  reader'[r] \in Reading /\ ReadInOrder(reader'[r], people)
  <2> DEFINE x == reader[r]
             y == reader'[r]
  <2>0. x \in Reading /\ ReadInOrder(x, person)
    BY <1>0 DEF Inv
  <2>1. CASE x.pc # "paging"
    BY <1>0, <2>0, <2>1 DEF ReadInOrder
  <2>2. CASE x.pc = "paging"
    <3> DEFINE S == (x.stayed \cap after(x)) \ renamed(x)
               j == x.joined \/ (after(x) \ before(x)) \cup renamed(x) # {}
               l == x.left \/ (before(x) \ after(x)) \cup renamed(x) # {}
    <3>1. S \in SUBSET Users /\ j \in BOOLEAN /\ l \in BOOLEAN
      BY <2>0 DEF Reading
    <3>2. y = Noted(x, S, j, l)
      BY <1>0, <2>2 DEF Noted
    <3>3. /\ y \in Reading /\ y.pc = x.pc /\ y.page = x.page /\ y.seen = x.seen
          /\ y.includeInactive = x.includeInactive
          /\ y.stayed = S /\ y.joined = j /\ y.left = l
      <4> HIDE DEF S, j, l, x, y
      <4> QED BY <2>0, <3>1, <3>2, NotedFields
    <3>4. /\ before(x) \in SUBSET (DOMAIN person) /\ after(x) \in SUBSET D
          /\ DOMAIN person \in SUBSET Users /\ person \in People(DOMAIN person)
      BY ListIsOfPeople, ListedNow DEF Inv, People
    <3>5. InTheMiddle(x, person)
      BY <2>0, <2>2 DEF ReadInOrder
    <3>6. ASSUME NEW u \in S, ~l
          PROVE  y.seen[u] > 0 \/ Place(people, after(x), u) > (x.page - 1) * Limit
      <4>1. ~x.left /\ before(x) \subseteq after(x)
            /\ \A v \in before(x) : person[v].name = people[v].name
        BY <3>6
      <4>2. u \in x.stayed /\ u \in before(x) /\ u \in after(x)
        BY <3>5, <3>6 DEF InTheMiddle
      <4>3. x.seen[u] > 0 \/ Place(person, before(x), u) > (x.page - 1) * Limit
        BY <3>5, <4>1, <4>2 DEF InTheMiddle
      <4>4. Place(person, before(x), u) <= Place(people, after(x), u)
        <5> HIDE DEF before, after, x
        <5> QED BY <3>4, <4>1, <4>2, PlaceMoves
      <4>5. /\ Place(person, before(x), u) \in Nat /\ Place(people, after(x), u) \in Nat
            /\ (x.page - 1) * Limit \in Nat
        <5>1. /\ Place(person, before(x), u) \in 1 .. Cardinality(before(x))
              /\ Cardinality(before(x)) \in Nat
              /\ Place(people, after(x), u) \in 1 .. Cardinality(after(x))
              /\ Cardinality(after(x)) \in Nat
          <6> HIDE DEF before, after, x
          <6> QED BY <3>4, <4>2, PlaceRange
        <5>2. x.page \in Nat \ {0}
          BY <2>0 DEF Reading
        <5> QED BY <5>1, <5>2, LimitIsPositive
      <4> HIDE DEF before, after
      <4> QED BY <3>3, <4>3, <4>4, <4>5
    <3>7. ASSUME NEW u \in S, ~j
          PROVE  \/ y.seen[u] = 0
                 \/ y.seen[u] = 1 /\ Place(people, after(x), u) <= (x.page - 1) * Limit
      <4>1. ~x.joined /\ after(x) \subseteq before(x)
            /\ \A v \in after(x) : people[v].name = person[v].name
        BY <3>7
      <4>2. u \in x.stayed /\ u \in before(x) /\ u \in after(x)
        BY <3>5, <3>7 DEF InTheMiddle
      <4>3. \/ x.seen[u] = 0
            \/ x.seen[u] = 1 /\ Place(person, before(x), u) <= (x.page - 1) * Limit
        BY <3>5, <4>1, <4>2 DEF InTheMiddle
      <4>4. Place(people, after(x), u) <= Place(person, before(x), u)
        <5> HIDE DEF before, after, x
        <5> QED BY <3>4, <4>1, <4>2, PlaceMoves
      <4>5. /\ Place(person, before(x), u) \in Nat /\ Place(people, after(x), u) \in Nat
            /\ (x.page - 1) * Limit \in Nat
        <5>1. /\ Place(person, before(x), u) \in 1 .. Cardinality(before(x))
              /\ Cardinality(before(x)) \in Nat
              /\ Place(people, after(x), u) \in 1 .. Cardinality(after(x))
              /\ Cardinality(after(x)) \in Nat
          <6> HIDE DEF before, after, x
          <6> QED BY <3>4, <4>2, PlaceRange
        <5>2. x.page \in Nat \ {0}
          BY <2>0 DEF Reading
        <5> QED BY <5>1, <5>2, LimitIsPositive
      <4> HIDE DEF before, after
      <4> QED BY <3>3, <4>3, <4>4, <4>5
    <3>8. S \subseteq after(x)
      OBVIOUS
    <3>9. InTheMiddle(y, people)
      <4> HIDE DEF S, j, l, x, y
      <4> QED BY <3>3, <3>6, <3>7, <3>8 DEF InTheMiddle
    <3> QED BY <2>2, <3>3, <3>9 DEF ReadInOrder
  <2> QED BY <2>1, <2>2
<1> QED BY <1>0, <1>1


LEMMA WriteKeeps ==
  ASSUME Inv, used' \in SUBSET Users, NEW D \in SUBSET used', NEW people \in People(D),
         Store(people)
  PROVE  Inv'
<1>1. person' = people /\ DOMAIN people = D
  BY DEF Store, People
<1>2. /\ reader' \in [Readers -> Reading]
      /\ \A r \in Readers : ReadInOrder(reader'[r], people)
  BY StoreKeeps
<1>3. TypeOK'
  BY <1>1, <1>2 DEF TypeOK, People
<1> QED BY <1>1, <1>2, <1>3 DEF Inv

LEMMA WritesKeep ==
  ASSUME Inv, NEW u \in Users,
         \/ \E n \in FullNames : CreateUser(u, n) \/ UpdateUser(u, n)
         \/ DeleteUser(u)
         \/ \E left \in BOOLEAN : SetLeft(u, left)
  PROVE  Inv'
<1>0. /\ DOMAIN person \subseteq used /\ used \in SUBSET Users
      /\ person \in [DOMAIN person -> Person]
  BY DEF Inv, TypeOK
<1>1. ASSUME NEW n \in FullNames, CreateUser(u, n) PROVE Inv'
  <2> DEFINE D == DOMAIN person \cup {u}
             people == [v \in D |-> IF v = u THEN [name |-> n, left |-> FALSE] ELSE person[v]]
  <2>1. people \in People(D)
    BY <1>0 DEF People, Person
  <2>2. used' \in SUBSET Users /\ D \in SUBSET used' /\ Store(people)
    BY <1>0, <1>1 DEF CreateUser
  <2> HIDE DEF D, people
  <2> QED BY <2>1, <2>2, WriteKeeps
<1>2. ASSUME NEW n \in FullNames, UpdateUser(u, n) PROVE Inv'
  <2> DEFINE people == [person EXCEPT ![u] = [person[u] EXCEPT !.name = n]]
  <2>1. people \in People(DOMAIN person)
    BY <1>0, <1>2 DEF People, Person, UpdateUser
  <2>2. Store(people) /\ used' = used
    BY <1>2 DEF UpdateUser
  <2> HIDE DEF people
  <2> QED BY <1>0, <2>1, <2>2, WriteKeeps
<1>3. ASSUME DeleteUser(u) PROVE Inv'
  <2> DEFINE people == [v \in DOMAIN person \ {u} |-> person[v]]
  <2>1. people \in People(DOMAIN person \ {u})
    BY <1>0 DEF People
  <2>2. Store(people) /\ used' = used
    BY <1>3 DEF DeleteUser
  <2> HIDE DEF people
  <2> QED BY <1>0, <2>1, <2>2, WriteKeeps
<1>4. ASSUME NEW left \in BOOLEAN, SetLeft(u, left) PROVE Inv'
  <2> DEFINE people == [person EXCEPT ![u] = [person[u] EXCEPT !.left = left]]
  <2>1. people \in People(DOMAIN person)
    BY <1>0, <1>4 DEF People, Person, SetLeft
  <2>2. Store(people) /\ used' = used
    BY <1>4 DEF SetLeft
  <2> HIDE DEF people
  <2> QED BY <1>0, <2>1, <2>2, WriteKeeps
<1> QED BY <1>1, <1>2, <1>3, <1>4

-----------------------------------------------------------------------------
(* The pages *)

LEMMA BeginKeeps ==
  ASSUME Inv, NEW r \in Readers, NEW i \in BOOLEAN, BeginReading(r, i)
  PROVE  Inv'
<1> DEFINE S == Listed(person, i)
           y == Begun(i, S)
<1>0. /\ reader' = [reader EXCEPT ![r] = y] /\ person' = person /\ used' = used
      /\ reader \in [Readers -> Reading]
  BY DEF BeginReading, Begun, Inv, TypeOK
<1>1. S \in SUBSET (DOMAIN person) /\ DOMAIN person \in SUBSET Users
      /\ person \in People(DOMAIN person)
  BY ListIsOfPeople DEF Inv
<1>2. S \in SUBSET Users
  BY <1>1
<1> HIDE DEF S
<1>3. /\ y \in Reading /\ y.pc = "paging" /\ y.page = 1
      /\ y.seen = [u \in Users |-> 0] /\ y.includeInactive = i /\ y.stayed = S
  BY <1>2, BegunFields
<1> HIDE DEF y
<1>4. Listed(person, y.includeInactive) = S
  BY <1>3 DEF S
<1>5. \A u \in S : y.seen[u] = 0 /\ Place(person, S, u) > (y.page - 1) * Limit
  <2> TAKE u \in S
  <2>1. y.seen[u] = 0
    BY <1>2, <1>3
  <2>2. Place(person, S, u) \in 1 .. Cardinality(S) /\ Cardinality(S) \in Nat
    BY <1>1, PlaceRange
  <2>3. (y.page - 1) * Limit = 0
    BY <1>3, LimitIsPositive
  <2> QED BY <2>1, <2>2, <2>3
<1>6. InTheMiddle(y, person)
  BY <1>3, <1>4, <1>5 DEF InTheMiddle
<1>7. ReadInOrder(y, person)
  BY <1>3, <1>6 DEF ReadInOrder
<1>8. TypeOK'
  BY <1>0, <1>3 DEF Inv, TypeOK
<1> QED BY <1>0, <1>7, <1>8 DEF Inv

LEMMA NextPage ==
  ASSUME NEW n \in Nat \ {0}
  PROVE  /\ (n - 1) * Limit \in Nat /\ n * Limit = (n - 1) * Limit + Limit
         /\ (n + 1) - 1 = n /\ Limit \in Nat
  BY LimitIsPositive

LEMMA ReadKeeps ==
  ASSUME Inv, NEW r \in Readers, GetAllUsers(r)
  PROVE  Inv'
<1> DEFINE x == reader[r]
           list == Listed(person, x.includeInactive)
           past == (x.page - 1) * Limit
           page == {u \in list : Place(person, list, u) \in past + 1 .. past + Limit}
           c == IF Cardinality(page) < Limit THEN "done" ELSE "paging"
           s == [u \in Users |-> IF u \in page THEN x.seen[u] + 1 ELSE x.seen[u]]
           y == Paged(x, c, s)
<1>0. x \in Reading /\ x.pc = "paging" /\ reader \in [Readers -> Reading]
      /\ InTheMiddle(x, person)
  BY DEF GetAllUsers, ReadPage, Inv, TypeOK, ReadInOrder
<1>1. list \in SUBSET (DOMAIN person) /\ DOMAIN person \in SUBSET Users
      /\ person \in People(DOMAIN person)
  BY ListIsOfPeople DEF Inv
<1>2. past \in Nat /\ x.page * Limit = past + Limit /\ (x.page + 1) - 1 = x.page /\ Limit \in Nat
  BY <1>0, NextPage DEF Reading
<1>3. \A u \in list : Cardinality({v \in list : <<v, u>> \in ByNameThenId}) = Place(person, list, u)
  <2> TAKE u \in list
  <2>1. {v \in list : <<v, u>> \in ByNameThenId} = {v \in list : Before(person, v, u)}
    BY <1>1 DEF ByNameThenId, Before
  <2> QED BY <2>1 DEF Place
<1>4. reader' = [reader EXCEPT ![r] = y] /\ person' = person /\ used' = used
  <2> DEFINE shown == {u \in list : Cardinality({v \in list : <<v, u>> \in ByNameThenId})
                                      \in past + 1 .. x.page * Limit}
  <2>1. shown = page
    BY <1>2, <1>3
  <2>2. /\ reader' = [reader EXCEPT ![r] = [x EXCEPT
             !.pc = IF Cardinality(shown) < Limit THEN "done" ELSE "paging",
             !.page = x.page + 1,
             !.seen = [u \in Users |-> IF u \in shown THEN x.seen[u] + 1 ELSE x.seen[u]]]]
        /\ person' = person /\ used' = used
    BY DEF GetAllUsers, ReadPage
  <2> HIDE DEF shown
  <2> QED BY <2>1, <2>2 DEF Paged
<1>5. s \in [Users -> Nat] /\ c \in {"done", "paging"}
  BY <1>0 DEF Reading
<1>6. x.stayed \subseteq list /\ list \subseteq Users
  BY <1>0, <1>1 DEF InTheMiddle
<1> HIDE DEF page
<1>7. ASSUME NEW u \in list
      PROVE  /\ Place(person, list, u) \in Nat /\ x.seen[u] \in Nat
             /\ u \in page <=> Place(person, list, u) \in past + 1 .. past + Limit
             /\ s[u] = IF u \in page THEN x.seen[u] + 1 ELSE x.seen[u]
  <2>1. Place(person, list, u) \in 1 .. Cardinality(list) /\ Cardinality(list) \in Nat
    <3> HIDE DEF list
    <3> QED BY <1>1, PlaceRange
  <2>2. x.seen \in [Users -> Nat]
    BY <1>0 DEF Reading
  <2> QED BY <1>6, <2>1, <2>2 DEF page
<1> HIDE DEF list, past, s, c
<1>8. ASSUME NEW u \in x.stayed, ~x.left
      PROVE  s[u] > 0 \/ Place(person, list, u) > past + Limit
  <2>1. x.seen[u] > 0 \/ Place(person, list, u) > past
    BY <1>0, <1>8 DEF InTheMiddle, list, past
  <2> QED BY <1>2, <1>6, <1>7, <2>1
<1>9. ASSUME NEW u \in x.stayed, ~x.joined
      PROVE  s[u] = 0 \/ (s[u] = 1 /\ Place(person, list, u) <= past + Limit)
  <2>1. x.seen[u] = 0 \/ (x.seen[u] = 1 /\ Place(person, list, u) <= past)
    BY <1>0, <1>9 DEF InTheMiddle, list, past
  <2> QED BY <1>2, <1>6, <1>7, <2>1
<1>10. /\ y \in Reading /\ y.pc = c /\ y.page = x.page + 1 /\ y.seen = s
       /\ y.includeInactive = x.includeInactive
       /\ y.stayed = x.stayed /\ y.joined = x.joined /\ y.left = x.left
  BY <1>0, <1>5, PagedFields
<1>11. TypeOK'
  BY <1>0, <1>4, <1>10 DEF Inv, TypeOK
<1> SUFFICES ReadInOrder(y, person)
  BY <1>0, <1>4, <1>11 DEF Inv
<1> HIDE DEF x, y
<1>12. CASE c = "paging"
  <2>1. Listed(person, y.includeInactive) = list /\ (y.page - 1) * Limit = past + Limit
    BY <1>2, <1>10 DEF list
  <2>2. InTheMiddle(y, person)
    BY <1>6, <1>8, <1>9, <1>10, <2>1 DEF InTheMiddle
  <2> QED BY <1>10, <1>12, <2>2 DEF ReadInOrder
<1>13. CASE c = "done"
  <2>1. Cardinality(page) < Limit
    BY <1>13 DEF c
  <2>2. IsFiniteSet(list)
    BY <1>6, UsersAreFinite, FS_Subset
  <2>3. page \in SUBSET list
    BY DEF page
  <2>4. Cardinality(page) \in Nat
    BY <2>2, <2>3, FS_Subset, FS_CardinalityType
  <2>5. ASSUME NEW u \in list, Place(person, list, u) > past + Limit PROVE FALSE
    <3>1. Cardinality(page) >= Limit
      BY <1>1, <1>2, <2>5, PageIsFull DEF page
    <3> QED BY <1>2, <2>1, <2>4, <3>1
  <2>6. Whole(y)
    BY <1>6, <1>8, <1>9, <1>10, <2>5 DEF Whole
  <2> QED BY <1>10, <1>13, <2>6 DEF ReadInOrder
<1> QED BY <1>5, <1>12, <1>13

LEMMA InvStep == Inv /\ [Next]_vars => Inv'
<1> SUFFICES ASSUME Inv, [Next]_vars PROVE Inv'
  OBVIOUS
<1>1. CASE UNCHANGED vars
  BY <1>1 DEF vars, Inv, TypeOK
<1> QED BY <1>1, WritesKeep, BeginKeeps, ReadKeeps DEF Next

\* Whoever pages through the list sees everybody who was in it all along, and
\* nobody twice, however many people there are and however small a page is:
\* unless somebody went out of the list, or came into it, meanwhile.
THEOREM PagesStayWhole == Spec => []PagesAreWhole
<1>1. ASSUME Inv PROVE PagesAreWhole
  <2> SUFFICES ASSUME NEW r \in Readers, NEW u \in reader[r].stayed
               PROVE  /\ reader[r].pc = "done" /\ ~reader[r].left => reader[r].seen[u] > 0
                      /\ ~reader[r].joined => reader[r].seen[u] < 2
    BY DEF PagesAreWhole
  <2>1. reader[r] \in Reading /\ ReadInOrder(reader[r], person)
    BY <1>1 DEF Inv, TypeOK
  <2>2. CASE reader[r].pc = "idle"
    BY <2>1, <2>2 DEF ReadInOrder
  <2>3. CASE reader[r].pc = "paging"
    BY <2>1, <2>3 DEF ReadInOrder, InTheMiddle
  <2>4. CASE reader[r].pc = "done"
    BY <2>1, <2>4 DEF ReadInOrder, Whole
  <2> QED BY <2>1, <2>2, <2>3, <2>4 DEF Reading
<1> QED BY <1>1, InvInit, InvStep, PTL DEF Spec
==============================================================================

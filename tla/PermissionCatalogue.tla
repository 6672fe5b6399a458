-------------------------- MODULE PermissionCatalogue --------------------------
(***************************************************************************)
(* The rows of the Permission table and who writes and reads them: the     *)
(* start-up seed, which a server finishes before it listens; the ensure    *)
(* route, one INSERT ... ON CONFLICT DO NOTHING RETURNING for a list of    *)
(* names; the catalogue the roles screen shows; and the AI-dock marker of  *)
(* every session response, behind a cache per server.  Rows are never      *)
(* removed.  A statement takes its rows one after the other and holds them *)
(* until it commits; the database ends one of the statements that wait for *)
(* each other.                                                             *)
(***************************************************************************)
EXTENDS Naturals, SequencesExt

CONSTANTS
  BasePermissions,      \* ALL_PERMISSIONS but the nine of the dock
  AI_DOCK_PERMISSIONS,  \* those nine
  RETIRED_PERMISSIONS,  \* names whose rows are hidden
  SkillNames,           \* the names SKILL_PERMISSION_NAME matches
  Bodies,               \* the "names" lists ensure requests carry
  MaxNames,             \* MAX_ENSURE_NAMES
  Servers,              \* instances of auth-api
  Calls,                \* ensure requests under way at once
  Dockers,              \* session responses under way at once
  Minute,               \* how long an absent catalogue is remembered
  MaxTime               \* a bound on the clock

ALL_PERMISSIONS == BasePermissions \cup AI_DOCK_PERMISSIONS
Names == ALL_PERMISSIONS \cup RETIRED_PERMISSIONS \cup SkillNames

ASSUME SomeServer == Servers # {}
ASSUME NoneRetired == ALL_PERMISSIONS \cap RETIRED_PERMISSIONS = {}
ASSUME SkillsApart == SkillNames \cap (ALL_PERMISSIONS \cup RETIRED_PERMISSIONS) = {}
ASSUME BodiesAreLists == Bodies \subseteq Seq(Names)
ASSUME DurationsAreNat == Minute \in Nat /\ MaxTime \in Nat /\ MaxNames \in Nat

VARIABLES
  clock,
  rows,    \* the names with a committed row
  server,  \* [Servers -> what the instance is doing, the upserts left, its cache]
  call,    \* [Calls -> ensure request]
  docker,  \* [Dockers -> session response asking for the marker]
  created  \* history: [Names -> ensure calls whose statement made the row]

vars == <<clock, rows, server, call, docker, created>>

NoCache == [present |-> FALSE, checkedAt |-> 0, set |-> FALSE]

CacheRecord == [present : BOOLEAN, checkedAt : Nat, set : BOOLEAN]

ServerRecord ==
  [pc : {"down", "seeding", "up"}, todo : SUBSET ALL_PERMISSIONS, cache : CacheRecord]

\* mine: the rows the statement has taken; next: the name it is about to take.
CallRecord ==
  [pc : {"idle", "insert", "answered"}, names : Seq(Names), next : Nat \ {0},
   mine : SUBSET Names]

DockerRecord ==
  [pc : {"idle", "count", "fill", "answered"}, on : Servers, now : Nat,
   marker : BOOLEAN, failed : BOOLEAN]

Off == [pc |-> "down", todo |-> {}, cache |-> NoCache]
NoCall == [pc |-> "idle", names |-> <<>>, next |-> 1, mine |-> {}]
NoDocker(s) == [pc |-> "idle", on |-> s, now |-> 0, marker |-> FALSE, failed |-> FALSE]

TypeOK ==
  /\ clock \in Nat
  /\ rows \subseteq Names
  /\ server \in [Servers -> ServerRecord]
  /\ call \in [Calls -> CallRecord]
  /\ docker \in [Dockers -> DockerRecord]
  /\ created \in [Names -> Nat]

\* Migrations and earlier versions left some rows, the retired ones among them.
Init ==
  /\ clock = 0
  /\ rows \in {R \cup RETIRED_PERMISSIONS : R \in SUBSET ALL_PERMISSIONS}
  /\ server = [s \in Servers |-> Off]
  /\ call = [c \in Calls |-> NoCall]
  /\ docker = [d \in Dockers |-> NoDocker(CHOOSE s \in Servers : TRUE)]
  /\ created = [n \in Names |-> 0]

-----------------------------------------------------------------------------
(* Start-up *)

\* Mutants: the retired names are seeded too; the seed is not awaited.
SeedRetired(s) ==
  /\ server[s].pc = "down"
  /\ server' = [server EXCEPT ![s] =
       [Off EXCEPT !.pc = "seeding", !.todo = ALL_PERMISSIONS \cup RETIRED_PERMISSIONS]]
  /\ UNCHANGED <<clock, rows, call, docker, created>>

StartListening(s) ==
  /\ server[s].pc = "down"
  /\ server' = [server EXCEPT ![s] = [Off EXCEPT !.pc = "up"]]
  /\ UNCHANGED <<clock, rows, call, docker, created>>

Start(s) ==
  /\ server[s].pc = "down"
  /\ server' = [server EXCEPT ![s] = [Off EXCEPT !.pc = "seeding", !.todo = ALL_PERMISSIONS]]
  /\ UNCHANGED <<clock, rows, call, docker, created>>

\* One upsert for every name, all at once; update: {} leaves a row alone.
SeedPermission(s, n) ==
  /\ server[s].pc = "seeding"
  /\ n \in server[s].todo
  /\ rows' = rows \cup {n}
  /\ server' = [server EXCEPT ![s] = [@ EXCEPT !.todo = server[s].todo \ {n}]]
  /\ UNCHANGED <<clock, call, docker, created>>

\* onModuleInit is over, and the application listens.
Listen(s) ==
  /\ server[s].pc = "seeding"
  /\ server[s].todo = {}
  /\ server' = [server EXCEPT ![s] = [@ EXCEPT !.pc = "up"]]
  /\ UNCHANGED <<clock, rows, call, docker, created>>

\* An upsert fails and the start with it, or the process dies, its requests
\* and its cache with it.
Stop(s) ==
  /\ server[s].pc # "down"
  /\ server' = [server EXCEPT ![s] = Off]
  /\ docker' = [d \in Dockers |-> IF docker[d].on = s THEN NoDocker(s) ELSE docker[d]]
  /\ UNCHANGED <<clock, rows, call, created>>

-----------------------------------------------------------------------------
(* POST /internal/permissions/ensure *)

\* Mutant: the first name is looked at, not every one.
ParseFirst(body) == Len(body) \in 1..MaxNames /\ body[1] \in SkillNames

\* A name outside the namespace, no name or too many: 400, nothing is written.
ParseEnsurePermissionsRequest(body) ==
  Len(body) \in 1..MaxNames /\ Range(body) \subseteq SkillNames

\* `names` is the body de-duplicated in request order.
Deduplicates(names, body) ==
  /\ Range(names) = Range(body)
  /\ \A i, j \in DOMAIN names : i < j =>
       \E k \in DOMAIN body : body[k] = names[i] /\ \A l \in 1..k : body[l] # names[j]

BeginEnsure(c, body) ==
  /\ call[c].pc \in {"idle", "answered"}
  /\ \E s \in Servers : server[s].pc = "up"
  /\ ParseEnsurePermissionsRequest(body)
  /\ \E names \in SeqOf(Range(body), Len(body)) :
       /\ Deduplicates(names, body)
       /\ call' = [call EXCEPT ![c] = [NoCall EXCEPT !.pc = "insert", !.names = names]]
  /\ UNCHANGED <<clock, rows, server, docker, created>>

\* c is about to take a name whose row c2 has taken and not committed.
WaitsFor(c, c2) ==
  /\ c # c2 /\ call[c2].pc = "insert"
  /\ call[c].pc = "insert" /\ call[c].next <= Len(call[c].names)
  /\ call[c].names[call[c].next] \in call[c2].mine

\* Mutant: a name somebody else is writing counts as new.
InsertNameUnlocked(c) ==
  /\ call[c].pc = "insert" /\ call[c].next <= Len(call[c].names)
  /\ call' = [call EXCEPT ![c] =
                [@ EXCEPT !.next = call[c].next + 1,
                          !.mine = call[c].mine \cup ({call[c].names[call[c].next]} \ rows)]]
  /\ UNCHANGED <<clock, rows, server, docker, created>>

\* ON CONFLICT DO NOTHING: the next name, unless it has a row.  The unique index
\* makes the statement wait for another that is writing it.
InsertName(c) ==
  /\ call[c].pc = "insert" /\ call[c].next <= Len(call[c].names)
  /\ \A c2 \in Calls : ~WaitsFor(c, c2)
  /\ call' = [call EXCEPT ![c] =
                [@ EXCEPT !.next = call[c].next + 1,
                          !.mine = call[c].mine \cup ({call[c].names[call[c].next]} \ rows)]]
  /\ UNCHANGED <<clock, rows, server, docker, created>>

\* RETURNING names the rows of `mine`: the answer's `created`.
CommitEnsure(c) ==
  /\ call[c].pc = "insert" /\ call[c].next > Len(call[c].names)
  /\ rows' = rows \cup call[c].mine
  /\ created' = [n \in Names |-> IF n \in call[c].mine THEN created[n] + 1 ELSE created[n]]
  /\ call' = [call EXCEPT ![c] = [@ EXCEPT !.pc = "answered"]]
  /\ UNCHANGED <<clock, server, docker>>

Rollback(c) ==
  /\ call' = [call EXCEPT ![c] = NoCall]
  /\ UNCHANGED <<clock, rows, server, docker, created>>

\* Statements that wait for each other in a ring: the database ends one.
DeadlockVictim(c) ==
  /\ \E ring \in SUBSET Calls :
       c \in ring /\ \A x \in ring : \E y \in ring : WaitsFor(x, y)
  /\ Rollback(c)

FailEnsure(c) == call[c].pc = "insert" /\ Rollback(c)

\* The answer of an ensure call, once it is answered.
EnsureResult(c) ==
  [created |-> Range(call[c].names) \cap call[c].mine,
   existing |-> Range(call[c].names) \ call[c].mine]

-----------------------------------------------------------------------------
(* The dock marker, and the catalogue *)

\* The cached answer, if it says present or is young; else the rows are counted.
AiDockCatalogue(d, s) ==
  LET cache == server[s].cache
      cached == cache.set /\ (cache.present \/ clock - cache.checkedAt < Minute)
  IN /\ docker[d].pc \in {"idle", "answered"}
     /\ server[s].pc = "up"
     /\ docker' = [docker EXCEPT ![d] =
          [NoDocker(s) EXCEPT !.pc = IF cached THEN "answered" ELSE "count",
                              !.now = IF cached THEN 0 ELSE clock,
                              !.marker = cached /\ cache.present]]
     /\ UNCHANGED <<clock, rows, server, call, created>>

CountDock(d) ==
  /\ docker[d].pc = "count"
  /\ docker' = [docker EXCEPT ![d] =
       [@ EXCEPT !.pc = "fill", !.marker = AI_DOCK_PERMISSIONS \subseteq rows]]
  /\ UNCHANGED <<clock, rows, server, call, created>>

\* `checkedAt` is the time the call began; whatever another call put there
\* meanwhile is overwritten.
FillDockCatalogue(d) ==
  /\ docker[d].pc = "fill"
  /\ server' = [server EXCEPT ![docker[d].on] = [@ EXCEPT
       !.cache = [present |-> docker[d].marker, checkedAt |-> docker[d].now, set |-> TRUE]]]
  /\ docker' = [docker EXCEPT ![d] = [@ EXCEPT !.pc = "answered", !.now = 0]]
  /\ UNCHANGED <<clock, rows, call, created>>

\* The count fails: no marker this time, and the cache is left as it is.
CountFails(d) ==
  /\ docker[d].pc = "count"
  /\ docker' = [docker EXCEPT ![d] = [@ EXCEPT !.pc = "answered", !.now = 0, !.failed = TRUE]]
  /\ UNCHANGED <<clock, rows, server, call, created>>

\* Mutant: the retired names are the ones shown.
RetiredPermissions == rows \cap RETIRED_PERMISSIONS

GetAllPermissions == rows \ RETIRED_PERMISSIONS

Tick ==
  /\ clock < MaxTime
  /\ clock' = clock + 1
  /\ UNCHANGED <<rows, server, call, docker, created>>

Next ==
  \/ \E s \in Servers :
       \/ Start(s) \/ Listen(s) \/ Stop(s)
       \/ \E n \in ALL_PERMISSIONS : SeedPermission(s, n)
       \/ \E d \in Dockers : AiDockCatalogue(d, s)
  \/ \E c \in Calls :
       \/ \E body \in Bodies : BeginEnsure(c, body)
       \/ InsertName(c) \/ CommitEnsure(c) \/ DeadlockVictim(c) \/ FailEnsure(c)
  \/ \E d \in Dockers : CountDock(d) \/ FillDockCatalogue(d) \/ CountFails(d)
  \/ Tick

Spec == Init /\ [][Next]_vars

-----------------------------------------------------------------------------
(* Properties *)

\* However many ensure calls race on the same names, every row of theirs is
\* reported created by exactly one, and every name of an answer has its row
\* ("RETURNING reports exactly which rows this call inserted even when two calls
\* race"); nothing outside the namespace is ever written.
EachRowCreatedOnce ==
  /\ \A n \in Names : created[n] = IF n \in rows \cap SkillNames THEN 1 ELSE 0
  /\ \A c \in Calls : call[c].pc = "answered" =>
       EnsureResult(c).created \cup EnsureResult(c).existing \subseteq rows

\* A running server offers the whole catalogue, and no retired name, whatever
\* starts, dies or is ensured beside it (seedPermissions, getAllPermissions).
CatalogueIsWhole ==
  (\E s \in Servers : server[s].pc = "up") =>
    ALL_PERMISSIONS \subseteq GetAllPermissions /\ GetAllPermissions \cap RETIRED_PERMISSIONS = {}

\* The marker is in every session response but those whose own count failed: it
\* never comes and goes, although counts may finish out of order and the cache
\* would remember an absent catalogue (aiDockCatalogue: "Once all nine rows are
\* seen they stay").
MarkerStays ==
  \A d \in Dockers : docker[d].pc = "answered" => docker[d].marker = ~docker[d].failed
=============================================================================

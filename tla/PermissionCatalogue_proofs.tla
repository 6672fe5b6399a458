---------------------- MODULE PermissionCatalogue_proofs ----------------------
(* Theorems about PermissionCatalogue, for every value of its constants. *)
EXTENDS PermissionCatalogue, SequenceTheorems, TLAPS

-----------------------------------------------------------------------------
(* What a step may do to each variable *)

\* How a server goes on: it starts, seeds a name whose row is there afterwards,
\* listens, fills its cache, or dies.
Started(x, y) == x.pc = "down" /\ y = [Off EXCEPT !.pc = "seeding", !.todo = ALL_PERMISSIONS]
Seeded(x, y) ==
  x.pc = "seeding" /\ \E n \in x.todo \cap rows' : y = [x EXCEPT !.todo = x.todo \ {n}]
Listening(x, y) == x.pc = "seeding" /\ x.todo = {} /\ y = [x EXCEPT !.pc = "up"]
Filled(x, y) ==
  \E d \in Dockers :
    /\ docker[d].pc = "fill"
    /\ y = [x EXCEPT !.cache =
              [present |-> docker[d].marker, checkedAt |-> docker[d].now, set |-> TRUE]]

\* How an ensure request goes on.
Began(y) ==
  \E names \in Seq(SkillNames) :
    /\ Range(names) \subseteq SkillNames
    /\ y = [NoCall EXCEPT !.pc = "insert", !.names = names]
TookName(c, x, y) ==
  /\ x.pc = "insert" /\ x.next <= Len(x.names) /\ rows' = rows
  /\ \A c2 \in Calls : ~WaitsFor(c, c2)
  /\ y = [x EXCEPT !.next = x.next + 1,
                   !.mine = x.mine \cup ({x.names[x.next]} \ rows)]
Committed(x, y) ==
  /\ x.pc = "insert" /\ x.next > Len(x.names)
  /\ rows' = rows \cup x.mine
  /\ y = [x EXCEPT !.pc = "answered"]

\* How a session response goes on.
Asked(y, s) ==
  LET cache == server[s].cache
      cached == cache.set /\ (cache.present \/ clock - cache.checkedAt < Minute)
  IN /\ server[s].pc = "up"
     /\ y = [NoDocker(s) EXCEPT !.pc = IF cached THEN "answered" ELSE "count",
                                !.now = IF cached THEN 0 ELSE clock,
                                !.marker = cached /\ cache.present]
Counted(x, y) ==
  x.pc = "count" /\ y = [x EXCEPT !.pc = "fill", !.marker = AI_DOCK_PERMISSIONS \subseteq rows]
Answered(x, y) == x.pc = "fill" /\ y = [x EXCEPT !.pc = "answered", !.now = 0]
Failed(x, y) ==
  x.pc = "count" /\ y = [x EXCEPT !.pc = "answered", !.now = 0, !.failed = TRUE]

\* A row is never removed.  It comes from the seed, or from an ensure call that
\* has taken it and commits, and `created` counts the second kind only.
LEMMA RowsMove ==
  ASSUME TypeOK, [Next]_vars
  PROVE  /\ rows \subseteq rows'
         /\ \/ UNCHANGED <<rows, created>>
            \/ \E n \in ALL_PERMISSIONS : rows' = rows \cup {n} /\ UNCHANGED <<call, created>>
            \/ \E c \in Calls : Committed(call[c], call'[c]) /\ CommitEnsure(c)
<1> USE DEF TypeOK
<1>1. CASE \E s \in Servers, n \in ALL_PERMISSIONS : SeedPermission(s, n)
  BY <1>1 DEF SeedPermission
<1>2. CASE \E c \in Calls : CommitEnsure(c)
  BY <1>2 DEF CommitEnsure, Committed
<1>3. CASE UNCHANGED <<rows, created>>
  BY <1>3
<1> QED
  BY <1>1, <1>2, <1>3 DEF Next, vars, Start, Listen, Stop, AiDockCatalogue, BeginEnsure, InsertName,
     DeadlockVictim, FailEnsure, Rollback, CountDock, FillDockCatalogue, CountFails, Tick

\* A server moves by its own steps, or by a response that fills its cache.
LEMMA ServerMoves ==
  ASSUME TypeOK, [Next]_vars, NEW s \in Servers, server'[s] # server[s]
  PROVE  \/ server'[s] = Off
         \/ Started(server[s], server'[s]) \/ Seeded(server[s], server'[s])
         \/ Listening(server[s], server'[s]) \/ Filled(server[s], server'[s])
<1>s. server \in [Servers -> ServerRecord] /\ docker \in [Dockers -> DockerRecord]
  BY DEF TypeOK
<1>1. ASSUME NEW z \in Servers, Start(z) \/ Listen(z) \/ Stop(z)
      PROVE  server'[s] = Off \/ Started(server[s], server'[s]) \/ Listening(server[s], server'[s])
  BY <1>1, <1>s DEF Start, Listen, Stop, Started, Listening
<1>2. ASSUME NEW z \in Servers, NEW n \in ALL_PERMISSIONS, SeedPermission(z, n)
      PROVE  Seeded(server[s], server'[s])
  BY <1>2, <1>s DEF SeedPermission, Seeded
<1>3. ASSUME NEW d \in Dockers, FillDockCatalogue(d)
      PROVE  Filled(server[s], server'[s])
  BY <1>3, <1>s DEF FillDockCatalogue, Filled
<1> QED
  BY <1>1, <1>2, <1>3 DEF Next, vars, AiDockCatalogue, BeginEnsure, InsertName, CommitEnsure,
     DeadlockVictim, FailEnsure, Rollback, CountDock, CountFails, Tick

\* De-duplicated, a list of the namespace is a list of the namespace.
LEMMA ParsedNames ==
  ASSUME NEW body \in Bodies, ParseEnsurePermissionsRequest(body),
         NEW names \in SeqOf(Range(body), Len(body)), Deduplicates(names, body)
  PROVE  names \in Seq(SkillNames) /\ Range(names) \subseteq SkillNames
<1>1. body \in Seq(Names) /\ Len(body) \in Nat /\ Range(body) \subseteq SkillNames
  BY BodiesAreLists, LenProperties DEF ParseEnsurePermissionsRequest
<1>2. PICK m \in 0..Len(body) : names \in [1..m -> Range(body)]
  BY DEF SeqOf
<1>3. names \in [1..m -> SkillNames] /\ m \in Nat
  BY <1>1, <1>2
<1> QED
  BY <1>1, <1>3, SeqDef DEF Deduplicates

\* An ensure request moves by its own steps.
LEMMA CallMoves ==
  ASSUME TypeOK, [Next]_vars, NEW c \in Calls, call'[c] # call[c]
  PROVE  \/ call'[c] = NoCall \/ Began(call'[c])
         \/ TookName(c, call[c], call'[c]) \/ Committed(call[c], call'[c])
<1>c. call \in [Calls -> CallRecord]
  BY DEF TypeOK
<1>1. ASSUME NEW z \in Calls, NEW body \in Bodies, BeginEnsure(z, body)
      PROVE  Began(call'[c])
  <2>1. PICK names \in SeqOf(Range(body), Len(body)) :
          /\ Deduplicates(names, body)
          /\ call' = [call EXCEPT ![z] = [NoCall EXCEPT !.pc = "insert", !.names = names]]
    BY <1>1 DEF BeginEnsure
  <2>2. names \in Seq(SkillNames) /\ Range(names) \subseteq SkillNames
    BY <1>1, <2>1, ParsedNames DEF BeginEnsure
  <2> QED
    BY <1>c, <2>1, <2>2 DEF Began
<1>2. ASSUME NEW z \in Calls, InsertName(z)
      PROVE  TookName(c, call[c], call'[c])
  BY <1>2, <1>c DEF InsertName, TookName
<1>3. ASSUME NEW z \in Calls, CommitEnsure(z)
      PROVE  Committed(call[c], call'[c])
  BY <1>3, <1>c DEF CommitEnsure, Committed
<1>4. ASSUME NEW z \in Calls, DeadlockVictim(z) \/ FailEnsure(z)
      PROVE  call'[c] = NoCall
  BY <1>4, <1>c DEF DeadlockVictim, FailEnsure, Rollback
<1> QED
  BY <1>1, <1>2, <1>3, <1>4 DEF Next, vars, Start, SeedPermission, Listen, Stop, AiDockCatalogue,
     CountDock, FillDockCatalogue, CountFails, Tick

\* A session response moves by its own steps, or goes with its server.
LEMMA DockerMoves ==
  ASSUME TypeOK, [Next]_vars, NEW d \in Dockers, docker'[d] # docker[d]
  PROVE  \/ docker'[d] = NoDocker(docker[d].on)
         \/ \E s \in Servers : Asked(docker'[d], s) /\ server' = server
         \/ Counted(docker[d], docker'[d]) \/ Answered(docker[d], docker'[d])
         \/ Failed(docker[d], docker'[d])
<1>d. docker \in [Dockers -> DockerRecord]
  BY DEF TypeOK
<1>1. ASSUME NEW s \in Servers, Stop(s)
      PROVE  docker'[d] = NoDocker(docker[d].on)
  BY <1>1, <1>d DEF Stop
<1>2. ASSUME NEW s \in Servers, NEW z \in Dockers, AiDockCatalogue(z, s)
      PROVE  Asked(docker'[d], s) /\ server' = server
  BY <1>2, <1>d DEF AiDockCatalogue, Asked
<1>3. ASSUME NEW z \in Dockers, CountDock(z) \/ FillDockCatalogue(z) \/ CountFails(z)
      PROVE  \/ Counted(docker[d], docker'[d]) \/ Answered(docker[d], docker'[d])
             \/ Failed(docker[d], docker'[d])
  BY <1>3, <1>d DEF CountDock, FillDockCatalogue, CountFails, Counted, Answered, Failed
<1> QED
  BY <1>1, <1>2, <1>3 DEF Next, vars, Start, SeedPermission, Listen, BeginEnsure, InsertName,
     CommitEnsure, DeadlockVictim, FailEnsure, Rollback, Tick

-----------------------------------------------------------------------------
(* Typing *)

LEMMA ServersTyped ==
  ASSUME TypeOK, [Next]_vars, NEW s \in Servers, server'[s] # server[s]
  PROVE  server'[s] \in ServerRecord
<1> DEFINE x == server[s]
           y == server'[s]
<1>1. x \in ServerRecord
  BY DEF TypeOK
<1>2. CASE y = Off \/ Started(x, y)
  <2>1. NoCache \in CacheRecord
    BY DEF NoCache, CacheRecord
  <2>2. Off \in ServerRecord
    BY <2>1 DEF Off, ServerRecord
  <2> QED
    BY <1>2, <2>2 DEF Started, ServerRecord
<1>3. CASE Seeded(x, y) \/ Listening(x, y)
  BY <1>1, <1>3 DEF Seeded, Listening, ServerRecord
<1>4. CASE Filled(x, y)
  <2>1. PICK d \in Dockers : y = [x EXCEPT !.cache =
          [present |-> docker[d].marker, checkedAt |-> docker[d].now, set |-> TRUE]]
    BY <1>4 DEF Filled
  <2>2. docker[d].marker \in BOOLEAN /\ docker[d].now \in Nat
    BY DEF TypeOK, DockerRecord
  <2>3. [present |-> docker[d].marker, checkedAt |-> docker[d].now, set |-> TRUE] \in CacheRecord
    BY <2>2 DEF CacheRecord
  <2> QED
    BY <1>1, <2>1, <2>3 DEF ServerRecord
<1> QED
  BY <1>2, <1>3, <1>4, ServerMoves

LEMMA CallsTyped ==
  ASSUME TypeOK, [Next]_vars, NEW c \in Calls, call'[c] # call[c]
  PROVE  call'[c] \in CallRecord
<1> DEFINE x == call[c]
           y == call'[c]
<1>1. x \in CallRecord
  BY DEF TypeOK
<1>0. NoCall \in CallRecord
  <2>1. <<>> \in Seq(Names)
    BY EmptySeq
  <2> QED
    BY <2>1 DEF NoCall, CallRecord
<1>2. CASE y = NoCall
  BY <1>2, <1>0
<1>3. CASE Began(y)
  <2>1. PICK names \in Seq(SkillNames) : y = [NoCall EXCEPT !.pc = "insert", !.names = names]
    BY <1>3 DEF Began
  <2>2. names \in Seq(Names)
    BY SeqMonotonic DEF Names
  <2>3. y = [NoCall EXCEPT !.pc = "insert", !.names = names] /\ NoCall \in CallRecord
    BY <1>0, <2>1
  <2> QED
    BY <2>2, <2>3 DEF CallRecord
<1>4. CASE TookName(c, x, y)
  <2>1. x.names \in Seq(Names) /\ x.next \in Nat \ {0} /\ x.mine \subseteq Names
    BY <1>1 DEF CallRecord
  <2>2. x.next \in 1..Len(x.names)
    BY <1>4, <2>1, LenProperties DEF TookName
  <2>3. x.names[x.next] \in Names
    BY <2>1, <2>2, LenProperties
  <2> DEFINE S == x.mine \cup ({x.names[x.next]} \ rows)
  <2>4. S \in SUBSET Names
    BY <2>1, <2>3
  <2>5. y = [x EXCEPT !.next = x.next + 1, !.mine = S]
    BY <1>4 DEF TookName
  <2> DEFINE k == x.next + 1
  <2>6. k \in Nat \ {0}
    BY <2>1
  <2>7. y = [x EXCEPT !.next = k, !.mine = S]
    BY <2>5
  <2> HIDE DEF S, k
  <2> QED
    BY <1>1, <2>4, <2>6, <2>7 DEF CallRecord
<1>5. CASE Committed(x, y)
  BY <1>1, <1>5 DEF Committed, CallRecord
<1> QED
  BY <1>2, <1>3, <1>4, <1>5, CallMoves

\* What a response keeps and changes when it goes on.
LEMMA DockerFields ==
  ASSUME NEW x \in DockerRecord, NEW y
  PROVE  /\ Counted(x, y) => y \in DockerRecord /\ y.pc = "fill" /\ y.failed = x.failed
                              /\ y.marker = (AI_DOCK_PERMISSIONS \subseteq rows)
         /\ Answered(x, y) =>
              y \in DockerRecord /\ y.pc = "answered" /\ y.marker = x.marker /\ y.failed = x.failed
         /\ Failed(x, y) =>
              y \in DockerRecord /\ y.pc = "answered" /\ y.marker = x.marker /\ y.failed = TRUE
<1>1. ASSUME Counted(x, y)
      PROVE  y \in DockerRecord /\ y.pc = "fill" /\ y.failed = x.failed
             /\ y.marker = (AI_DOCK_PERMISSIONS \subseteq rows)
  <2> DEFINE whole == AI_DOCK_PERMISSIONS \subseteq rows
  <2>1. whole \in BOOLEAN
    OBVIOUS
  <2>2. y = [x EXCEPT !.pc = "fill", !.marker = whole]
    BY <1>1 DEF Counted
  <2> HIDE DEF whole
  <2>3. y \in DockerRecord /\ y.pc = "fill" /\ y.failed = x.failed /\ y.marker = whole
    BY <2>1, <2>2 DEF DockerRecord
  <2> QED
    BY <2>3 DEF whole
<1>2. ASSUME y = [x EXCEPT !.pc = "answered", !.now = 0]
      PROVE  y \in DockerRecord /\ y.pc = "answered" /\ y.marker = x.marker /\ y.failed = x.failed
  BY <1>2 DEF DockerRecord
<1>3. ASSUME y = [x EXCEPT !.pc = "answered", !.now = 0, !.failed = TRUE]
      PROVE  y \in DockerRecord /\ y.pc = "answered" /\ y.marker = x.marker /\ y.failed = TRUE
  BY <1>3 DEF DockerRecord
<1> QED
  BY <1>1, <1>2, <1>3 DEF Answered, Failed

LEMMA DockersTyped ==
  ASSUME TypeOK, [Next]_vars, NEW d \in Dockers, docker'[d] # docker[d]
  PROVE  docker'[d] \in DockerRecord
<1> DEFINE x == docker[d]
           y == docker'[d]
<1>1. x \in DockerRecord
  BY DEF TypeOK
<1>2. \A s \in Servers : NoDocker(s) \in DockerRecord
  BY DEF NoDocker, DockerRecord
<1>3. CASE y = NoDocker(x.on)
  BY <1>1, <1>2, <1>3 DEF DockerRecord
<1>4. ASSUME NEW s \in Servers, Asked(y, s)
      PROVE  y \in DockerRecord
  <2> DEFINE cache == server[s].cache
             cached == cache.set /\ (cache.present \/ clock - cache.checkedAt < Minute)
             pc == IF cached THEN "answered" ELSE "count"
             now == IF cached THEN 0 ELSE clock
             marker == cached /\ cache.present
  <2>1. y = [NoDocker(s) EXCEPT !.pc = pc, !.now = now, !.marker = marker]
    BY <1>4 DEF Asked
  <2>2. pc \in {"answered", "count"} /\ now \in Nat
    BY DEF TypeOK
  <2>3. marker \in BOOLEAN
    OBVIOUS
  <2> HIDE DEF pc, now, marker
  <2> QED
    BY <1>2, <2>1, <2>2, <2>3 DEF DockerRecord
<1>5. CASE Counted(x, y) \/ Answered(x, y) \/ Failed(x, y)
  BY <1>1, <1>5, DockerFields
<1> QED
  BY <1>3, <1>4, <1>5, DockerMoves

\* The type invariant holds of every instance.
THEOREM TypeCorrect == Spec => []TypeOK
<1>1. Init => TypeOK
  <2> SUFFICES ASSUME Init PROVE TypeOK
    OBVIOUS
  <2>1. NoCache \in CacheRecord
    BY DEF NoCache, CacheRecord
  <2>2. Off \in ServerRecord
    BY <2>1 DEF Off, ServerRecord
  <2>3. <<>> \in Seq(Names)
    BY EmptySeq
  <2>4. NoCall \in CallRecord
    BY <2>3 DEF NoCall, CallRecord
  <2>5. \A s \in Servers : NoDocker(s) \in DockerRecord
    BY DEF NoDocker, DockerRecord
  <2>6. rows \subseteq Names /\ created \in [Names -> Nat] /\ clock \in Nat
    BY DEF Init, Names
  <2>7. server \in [Servers -> ServerRecord] /\ call \in [Calls -> CallRecord]
    BY <2>2, <2>4 DEF Init
  <2>8. (CHOOSE s \in Servers : TRUE) \in Servers
    BY SomeServer
  <2>9. docker \in [Dockers -> DockerRecord]
    BY <2>5, <2>8 DEF Init
  <2> QED
    BY <2>6, <2>7, <2>9 DEF TypeOK
<1>2. TypeOK /\ [Next]_vars => TypeOK'
  <2> SUFFICES ASSUME TypeOK, [Next]_vars PROVE TypeOK'
    OBVIOUS
  <2>1. clock' \in Nat
    <3>1. clock' = clock \/ clock' = clock + 1
      BY DEF Next, vars, Start, SeedPermission, Listen, Stop, BeginEnsure,
         InsertName, CommitEnsure, DeadlockVictim, FailEnsure, Rollback, AiDockCatalogue, CountDock,
         FillDockCatalogue, CountFails, Tick
    <3> QED
      BY <3>1 DEF TypeOK
  <2>2. rows' \subseteq Names /\ created' \in [Names -> Nat]
    <3>1. CASE UNCHANGED <<rows, created>>
      BY <3>1 DEF TypeOK
    <3>2. CASE \E n \in ALL_PERMISSIONS : rows' = rows \cup {n} /\ UNCHANGED <<call, created>>
      BY <3>2 DEF TypeOK, Names
    <3>3. ASSUME NEW c \in Calls, CommitEnsure(c)
          PROVE  rows' \subseteq Names /\ created' \in [Names -> Nat]
      <4>1. call[c].mine \subseteq Names
        BY DEF TypeOK, CallRecord
      <4> QED
        BY <3>3, <4>1 DEF CommitEnsure, TypeOK
    <3> QED
      BY <3>1, <3>2, <3>3, RowsMove
  <2>3. server' \in [Servers -> ServerRecord]
    <3>1. /\ DOMAIN server' = Servers /\ server' = [s \in DOMAIN server' |-> server'[s]]
      BY DEF TypeOK, Next, vars, Start, SeedPermission, Listen, Stop, BeginEnsure,
         InsertName, CommitEnsure, DeadlockVictim, FailEnsure, Rollback, AiDockCatalogue, CountDock,
         FillDockCatalogue, CountFails, Tick
    <3>2. \A s \in Servers : server'[s] \in ServerRecord
      BY ServersTyped DEF TypeOK
    <3> QED
      BY <3>1, <3>2
  <2>4. call' \in [Calls -> CallRecord]
    <3>1. /\ DOMAIN call' = Calls /\ call' = [c \in DOMAIN call' |-> call'[c]]
      BY DEF TypeOK, Next, vars, Start, SeedPermission, Listen, Stop, BeginEnsure,
         InsertName, CommitEnsure, DeadlockVictim, FailEnsure, Rollback, AiDockCatalogue, CountDock,
         FillDockCatalogue, CountFails, Tick
    <3>2. \A c \in Calls : call'[c] \in CallRecord
      BY CallsTyped DEF TypeOK
    <3> QED
      BY <3>1, <3>2
  <2>5. docker' \in [Dockers -> DockerRecord]
    <3>1. /\ DOMAIN docker' = Dockers /\ docker' = [d \in DOMAIN docker' |-> docker'[d]]
      BY DEF TypeOK, Next, vars, Start, SeedPermission, Listen, Stop, BeginEnsure,
         InsertName, CommitEnsure, DeadlockVictim, FailEnsure, Rollback, AiDockCatalogue, CountDock,
         FillDockCatalogue, CountFails, Tick
    <3>2. \A d \in Dockers : docker'[d] \in DockerRecord
      BY DockersTyped DEF TypeOK
    <3> QED
      BY <3>1, <3>2
  <2> QED
    BY <2>1, <2>2, <2>3, <2>4, <2>5 DEF TypeOK
<1> QED
  BY <1>1, <1>2, PTL DEF Spec

-----------------------------------------------------------------------------
(* The catalogue and the marker *)

\* A server that is down or starts has an empty cache.
LEMMA StartFields ==
  ASSUME NEW x, NEW y
  PROVE  /\ y = Off => y.pc = "down" /\ ~y.cache.set
         /\ Started(x, y) => y.pc = "seeding" /\ y.todo = ALL_PERMISSIONS /\ ~y.cache.set
<1>1. Off.pc = "down" /\ Off.cache = NoCache /\ ~NoCache.set
  BY DEF Off, NoCache
<1>2. ASSUME Started(x, y)
      PROVE  y.pc = "seeding" /\ y.todo = ALL_PERMISSIONS /\ y.cache = NoCache
  BY <1>2 DEF Started, Off
<1> QED
  BY <1>1, <1>2

\* What a seeding server has left is all that may be missing.
SeedInv ==
  \A s \in Servers :
    /\ server[s].pc = "seeding" => ALL_PERMISSIONS \ server[s].todo \subseteq rows
    /\ server[s].pc = "up" => ALL_PERMISSIONS \subseteq rows

LEMMA SeedStep == TypeOK /\ SeedInv /\ [Next]_vars => SeedInv'
<1> SUFFICES ASSUME TypeOK, SeedInv, [Next]_vars, NEW s \in Servers
             PROVE  /\ server'[s].pc = "seeding" => ALL_PERMISSIONS \ server'[s].todo \subseteq rows'
                    /\ server'[s].pc = "up" => ALL_PERMISSIONS \subseteq rows'
  BY DEF SeedInv
<1> DEFINE x == server[s]
           y == server'[s]
<1>1. /\ x.pc = "seeding" => ALL_PERMISSIONS \ x.todo \subseteq rows'
      /\ x.pc = "up" => ALL_PERMISSIONS \subseteq rows'
  BY RowsMove DEF SeedInv
<1>2. x \in ServerRecord
  BY DEF TypeOK
<1>3. CASE y = x
  BY <1>1, <1>3
<1>4. CASE y = Off \/ Started(x, y)
  BY <1>4, StartFields
<1>5. CASE Seeded(x, y)
  BY <1>1, <1>2, <1>5 DEF Seeded, ServerRecord
<1>6. CASE Listening(x, y)
  BY <1>1, <1>2, <1>6 DEF Listening, ServerRecord
<1>7. CASE Filled(x, y)
  BY <1>1, <1>2, <1>7 DEF Filled, ServerRecord
<1> QED
  BY <1>3, <1>4, <1>5, <1>6, <1>7, ServerMoves

\* A running server offers the whole catalogue and no retired name, with any
\* number of servers and however often they die and start again.
THEOREM CatalogueIsAlwaysWhole == Spec => []CatalogueIsWhole
<1>1. Init => SeedInv
  BY DEF Init, SeedInv, Off
<1>2. SeedInv => CatalogueIsWhole
  BY NoneRetired DEF SeedInv, CatalogueIsWhole, GetAllPermissions
<1> QED
  BY <1>1, <1>2, TypeCorrect, SeedStep, PTL DEF Spec

\* A response on its way to the cache found every row, a response that counts is
\* on a running server, and no cache says absent.
MarkerInv ==
  /\ \A d \in Dockers :
       /\ docker[d].pc = "count" => server[docker[d].on].pc = "up"
       /\ docker[d].pc = "fill" => docker[d].marker
       /\ docker[d].pc = "count" => ~docker[d].marker
       /\ docker[d].pc \in {"count", "fill"} => ~docker[d].failed
       /\ docker[d].pc = "answered" => docker[d].marker = ~docker[d].failed
  /\ \A s \in Servers : server[s].cache.set => server[s].cache.present

LEMMA CacheStep ==
  ASSUME TypeOK, MarkerInv, [Next]_vars, NEW s \in Servers
  PROVE  server'[s].cache.set => server'[s].cache.present
<1> DEFINE x == server[s]
           y == server'[s]
<1>1. x \in ServerRecord /\ (x.cache.set => x.cache.present)
  BY DEF TypeOK, MarkerInv
<1>2. CASE y.cache = x.cache
  BY <1>1, <1>2
<1>3. CASE y = Off \/ Started(x, y)
  BY <1>3, StartFields
<1>4. CASE Seeded(x, y) \/ Listening(x, y)
  BY <1>1, <1>4 DEF Seeded, Listening, ServerRecord
<1>5. CASE Filled(x, y)
  BY <1>1, <1>5 DEF Filled, ServerRecord, MarkerInv
<1> QED
  BY <1>2, <1>3, <1>4, <1>5, ServerMoves

\* A running server stays so until its responses go with it.
LEMMA UpStays ==
  ASSUME TypeOK, [Next]_vars, NEW d \in Dockers, docker'[d] = docker[d],
         docker[d].pc = "count", server[docker[d].on].pc = "up"
  PROVE  server'[docker[d].on].pc = "up"
<1> DEFINE s == docker[d].on
<1>1. s \in Servers /\ server[s] \in ServerRecord
  BY DEF TypeOK, DockerRecord
<1>2. ~Stop(s)
  <2>1. NoDocker(s).pc = "idle"
    BY DEF NoDocker
  <2> QED
    BY <2>1 DEF Stop
<1>3. ASSUME NEW z \in Servers, Start(z) \/ Listen(z) \/ Stop(z)
      PROVE  server'[s].pc = "up"
  <2>1. z # s
    BY <1>2, <1>3 DEF Start, Listen
  <2>2. server'[s] = server[s]
    BY <1>1, <1>3, <2>1 DEF Start, Listen, Stop, TypeOK
  <2> QED
    BY <2>2
<1>4. ASSUME NEW z \in Servers, NEW n \in ALL_PERMISSIONS, SeedPermission(z, n)
      PROVE  server'[s].pc = "up"
  BY <1>1, <1>4 DEF SeedPermission, TypeOK
<1>5. ASSUME NEW z \in Dockers, FillDockCatalogue(z)
      PROVE  server'[s].pc = "up"
  <2>1. server' = [server EXCEPT ![docker[z].on] = [@ EXCEPT
          !.cache = [present |-> docker[z].marker, checkedAt |-> docker[z].now, set |-> TRUE]]]
    BY <1>5 DEF FillDockCatalogue
  <2>2. server'[s] = server[s]
        \/ server'[s] = [server[s] EXCEPT
             !.cache = [present |-> docker[z].marker, checkedAt |-> docker[z].now, set |-> TRUE]]
    BY <1>1, <2>1 DEF TypeOK
  <2> QED
    BY <1>1, <2>2 DEF ServerRecord
<1>6. CASE UNCHANGED server
  BY <1>6
<1> QED
  BY <1>3, <1>4, <1>5, <1>6 DEF Next, vars, BeginEnsure, InsertName, CommitEnsure, DeadlockVictim,
     FailEnsure, Rollback, AiDockCatalogue, CountDock, CountFails, Tick

LEMMA MarkerStep == TypeOK /\ SeedInv /\ MarkerInv /\ [Next]_vars => MarkerInv'
<1> SUFFICES ASSUME TypeOK, SeedInv, MarkerInv, [Next]_vars PROVE MarkerInv'
  OBVIOUS
<1> DEFINE Good(v, up) ==
             /\ v.pc = "count" => up /\ ~v.marker
             /\ v.pc = "fill" => v.marker
             /\ v.pc \in {"count", "fill"} => ~v.failed
             /\ v.pc = "answered" => v.marker = ~v.failed
<1>1. ASSUME NEW d \in Dockers
      PROVE  Good(docker'[d], server'[docker'[d].on].pc = "up")
  <2> DEFINE x == docker[d]
             y == docker'[d]
  <2>1. x \in DockerRecord /\ Good(x, server[x.on].pc = "up")
    BY DEF TypeOK, MarkerInv
  <2>2. CASE y = x
    BY <2>1, <2>2, UpStays
  <2>3. CASE y = NoDocker(x.on)
    BY <2>3 DEF NoDocker
  <2>4. ASSUME NEW s \in Servers, Asked(y, s), server' = server
        PROVE  Good(y, server'[y.on].pc = "up")
    <3> DEFINE cache == server[s].cache
               cached == cache.set /\ (cache.present \/ clock - cache.checkedAt < Minute)
    <3>1. cache.set => cache.present
      BY DEF MarkerInv
    <3>2. y.on = s /\ server[s].pc = "up" /\ ~y.failed
      <4>1. NoDocker(s) = [pc |-> "idle", on |-> s, now |-> 0, marker |-> FALSE, failed |-> FALSE]
        BY DEF NoDocker
      <4>2. \A a, b, e : [NoDocker(s) EXCEPT !.pc = a, !.now = b, !.marker = e].on = s
                       /\ ~[NoDocker(s) EXCEPT !.pc = a, !.now = b, !.marker = e].failed
        BY <4>1
      <4> QED
        BY <2>4, <4>2 DEF Asked
    <3>3. CASE cached
      <4>1. y.pc = "answered" /\ y.marker
        BY <2>4, <3>1, <3>3 DEF Asked, NoDocker
      <4> QED
        BY <3>2, <4>1
    <3>4. CASE ~cached
      <4>1. y.pc = "count" /\ ~y.marker
        BY <2>4, <3>4 DEF Asked, NoDocker
      <4> QED
        BY <2>4, <3>2, <4>1
    <3> QED
      BY <3>3, <3>4
  <2>5. CASE Counted(x, y)
    <3>1. x.pc = "count" /\ x.on \in Servers
      BY <2>1, <2>5 DEF Counted, DockerRecord
    <3>2. AI_DOCK_PERMISSIONS \subseteq rows
      BY <2>1, <3>1 DEF SeedInv, ALL_PERMISSIONS
    <3> QED
      BY <2>1, <2>5, <3>1, <3>2, DockerFields
  <2>6. CASE Answered(x, y)
    <3>1. x.pc = "fill"
      BY <2>6 DEF Answered
    <3> QED
      BY <2>1, <2>6, <3>1, DockerFields
  <2>7. CASE Failed(x, y)
    <3>1. x.pc = "count"
      BY <2>7 DEF Failed
    <3>2. x.marker = FALSE
      BY <2>1, <3>1 DEF DockerRecord
    <3>3. y.pc = "answered" /\ y.marker = FALSE /\ y.failed = TRUE
      BY <2>1, <2>7, <3>2, DockerFields
    <3> QED
      BY <3>3
  <2> HIDE DEF Good
  <2> QED
    BY <2>2, <2>3, <2>4, <2>5, <2>6, <2>7, DockerMoves
<1>2. \A s \in Servers : server'[s].cache.set => server'[s].cache.present
  BY CacheStep
<1> QED
  BY <1>1, <1>2 DEF MarkerInv

\* No session response but those whose own count failed misses the marker.
THEOREM MarkerAlwaysStays == Spec => []MarkerStays
<1>1. Init => MarkerInv
  <2>1. ~Off.cache.set
    BY DEF Off, NoCache
  <2>2. \A s : NoDocker(s).pc = "idle"
    BY DEF NoDocker
  <2> QED
    BY <2>1, <2>2 DEF Init, MarkerInv
<1>2. Init => SeedInv
  BY DEF Init, SeedInv, Off
<1>3. MarkerInv => MarkerStays
  BY DEF MarkerInv, MarkerStays
<1> QED
  BY <1>1, <1>2, <1>3, TypeCorrect, SeedStep, MarkerStep, PTL DEF Spec

-----------------------------------------------------------------------------
(* One creator for every row *)

Taking(c) == call[c].pc = "insert"

\* A statement names the namespace only, and what it has passed has a row or
\* is among the rows it holds; an answered one leaves a row for every name.
NamesInv ==
  \A c \in Calls :
    /\ call[c].pc # "idle" => Range(call[c].names) \subseteq SkillNames
    /\ Taking(c) => \A i \in 1..Len(call[c].names) :
                      i < call[c].next => call[c].names[i] \in rows \cup call[c].mine
    /\ call[c].pc = "answered" => Range(call[c].names) \subseteq rows

\* The rows a statement holds are new, and no two hold the same.
HeldInv ==
  /\ \A c \in Calls : Taking(c) => call[c].mine \subseteq SkillNames \ rows
  /\ \A c, c2 \in Calls : c # c2 /\ Taking(c) /\ Taking(c2) => call[c].mine \cap call[c2].mine = {}

CreatedInv == \A n \in Names : created[n] = IF n \in rows \cap SkillNames THEN 1 ELSE 0

EnsureInv == NamesInv /\ HeldInv /\ CreatedInv

\* What a request keeps and changes when it goes on.
LEMMA CallFields ==
  ASSUME NEW x \in CallRecord, NEW y, NEW c \in Calls
  PROVE  /\ y = NoCall => y.pc = "idle"
         /\ Began(y) => /\ y.pc = "insert" /\ y.next = 1 /\ y.mine = {}
                        /\ y.names \in Seq(SkillNames) /\ Range(y.names) \subseteq SkillNames
         /\ TookName(c, x, y) =>
              /\ y.pc = "insert" /\ y.names = x.names /\ y.next = x.next + 1
              /\ y.mine = x.mine \cup ({x.names[x.next]} \ rows)
         /\ Committed(x, y) =>
              y.pc = "answered" /\ y.names = x.names /\ y.mine = x.mine /\ y.next = x.next
<1>1. NoCall.pc = "idle"
  BY DEF NoCall
<1>2. ASSUME Began(y)
      PROVE  /\ y.pc = "insert" /\ y.next = 1 /\ y.mine = {}
             /\ y.names \in Seq(SkillNames) /\ Range(y.names) \subseteq SkillNames
  <2>1. PICK names \in Seq(SkillNames) :
          /\ Range(names) \subseteq SkillNames
          /\ y = [NoCall EXCEPT !.pc = "insert", !.names = names]
    BY <1>2 DEF Began
  <2>2. y.pc = "insert" /\ y.next = 1 /\ y.mine = {} /\ y.names = names
    BY <2>1 DEF NoCall
  <2> QED
    BY <2>1, <2>2
<1>3. ASSUME NEW k, NEW S, y = [x EXCEPT !.next = k, !.mine = S]
      PROVE  y.pc = x.pc /\ y.names = x.names /\ y.next = k /\ y.mine = S
  BY <1>3 DEF CallRecord
<1>4. ASSUME y = [x EXCEPT !.pc = "answered"]
      PROVE  y.pc = "answered" /\ y.names = x.names /\ y.mine = x.mine /\ y.next = x.next
  BY <1>4 DEF CallRecord
<1>5. ASSUME TookName(c, x, y)
      PROVE  /\ y.pc = "insert" /\ y.names = x.names /\ y.next = x.next + 1
             /\ y.mine = x.mine \cup ({x.names[x.next]} \ rows)
  <2>1. /\ x.pc = "insert"
        /\ y = [x EXCEPT !.next = x.next + 1, !.mine = x.mine \cup ({x.names[x.next]} \ rows)]
    BY <1>5 DEF TookName
  <2> QED
    BY <1>3, <2>1
<1>6. ASSUME Committed(x, y)
      PROVE  y.pc = "answered" /\ y.names = x.names /\ y.mine = x.mine /\ y.next = x.next
  BY <1>4, <1>6 DEF Committed
<1> QED
  BY <1>1, <1>2, <1>5, <1>6

LEMMA NamesStep == TypeOK /\ EnsureInv /\ [Next]_vars => NamesInv'
<1> SUFFICES ASSUME TypeOK, EnsureInv, [Next]_vars, NEW c \in Calls
             PROVE  /\ call'[c].pc # "idle" => Range(call'[c].names) \subseteq SkillNames
                    /\ call'[c].pc = "insert" => \A i \in 1..Len(call'[c].names) :
                         i < call'[c].next => call'[c].names[i] \in rows' \cup call'[c].mine
                    /\ call'[c].pc = "answered" => Range(call'[c].names) \subseteq rows'
  BY DEF NamesInv, Taking
<1> DEFINE x == call[c]
           y == call'[c]
           Good(v, r) ==
             /\ v.pc # "idle" => Range(v.names) \subseteq SkillNames
             /\ v.pc = "insert" => \A i \in 1..Len(v.names) :
                                     i < v.next => v.names[i] \in r \cup v.mine
             /\ v.pc = "answered" => Range(v.names) \subseteq r
<1>1. x \in CallRecord /\ rows \subseteq rows'
  BY RowsMove DEF TypeOK
<1>2. x.names \in Seq(Names) /\ Len(x.names) \in Nat /\ x.next \in Nat /\ x.next >= 1
  BY <1>1, LenProperties DEF CallRecord
<1>3. Good(x, rows)
  BY DEF EnsureInv, NamesInv, Taking
<1>4. Good(x, rows')
  BY <1>1, <1>3
<1>5. CASE y = x
  BY <1>4, <1>5
<1>6. CASE y = NoCall
  BY <1>1, <1>6, CallFields
<1>7. CASE Began(y)
  <2>1. /\ y.pc = "insert" /\ y.next = 1
        /\ y.names \in Seq(SkillNames) /\ Range(y.names) \subseteq SkillNames
    BY <1>1, <1>7, CallFields
  <2> QED
    BY <2>1, LenProperties
<1>8. CASE TookName(c, x, y)
  <2>1. /\ y.pc = "insert" /\ y.names = x.names /\ y.next = x.next + 1
        /\ y.mine = x.mine \cup ({x.names[x.next]} \ rows)
    BY <1>1, <1>8, CallFields
  <2>2. x.pc = "insert" /\ rows' = rows
    BY <1>8 DEF TookName
  <2>3. ASSUME NEW i \in 1..Len(x.names), i < x.next + 1
        PROVE  x.names[i] \in rows \cup y.mine
    <3>1. CASE i = x.next
      BY <2>1, <3>1
    <3>2. CASE i < x.next
      BY <1>3, <2>1, <2>2, <3>2
    <3> QED
      BY <1>2, <2>3, <3>1, <3>2
  <2> QED
    BY <1>3, <2>1, <2>2, <2>3
<1>9. CASE Committed(x, y)
  <2>1. y.pc = "answered" /\ y.names = x.names
    BY <1>1, <1>9, CallFields
  <2>2. x.pc = "insert" /\ x.next > Len(x.names) /\ rows' = rows \cup x.mine
    BY <1>9 DEF Committed
  <2>3. \A i \in 1..Len(x.names) : x.names[i] \in rows'
    BY <1>2, <1>3, <2>2
  <2>4. DOMAIN x.names = 1..Len(x.names)
    BY <1>2, LenProperties
  <2>5. Range(x.names) \subseteq rows'
    BY <2>3, <2>4 DEF Range
  <2> QED
    BY <1>3, <2>1, <2>2, <2>5
<1> HIDE DEF Good
<1> QED
  BY <1>5, <1>6, <1>7, <1>8, <1>9, CallMoves

\* A step moves one request at most.
LEMMA OneCallMoves ==
  ASSUME TypeOK, [Next]_vars, NEW c \in Calls, NEW c2 \in Calls, c # c2, call'[c] # call[c]
  PROVE  call'[c2] = call[c2]
<1> DEFINE Only == \E z \in Calls : \A o \in Calls \ {z} : call'[o] = call[o]
<1>c. call \in [Calls -> CallRecord]
  BY DEF TypeOK
<1>1. ASSUME NEW z \in Calls, NEW body \in Bodies, BeginEnsure(z, body)
      PROVE  Only
  BY <1>1, <1>c DEF BeginEnsure
<1>2. ASSUME NEW z \in Calls,
             InsertName(z) \/ CommitEnsure(z) \/ DeadlockVictim(z) \/ FailEnsure(z)
      PROVE  Only
  BY <1>2, <1>c DEF InsertName, CommitEnsure, DeadlockVictim, FailEnsure, Rollback
<1>3. CASE UNCHANGED call
  BY <1>3
<1>4. Only
  BY <1>1, <1>2, <1>3 DEF Next, vars, Start, SeedPermission, Listen, Stop, AiDockCatalogue,
     CountDock, FillDockCatalogue, CountFails, Tick
<1> QED
  BY <1>4

\* The name a statement takes is nobody else's.
LEMMA TakenApart ==
  ASSUME TypeOK, EnsureInv, [Next]_vars, NEW c \in Calls, NEW c2 \in Calls, c # c2,
         call'[c] # call[c], call'[c].pc = "insert", call[c2].pc = "insert"
  PROVE  call'[c].mine \cap call[c2].mine = {}
<1> DEFINE x == call[c]
           y == call'[c]
<1>1. x \in CallRecord
  BY DEF TypeOK
<1>2. CASE Began(y)
  BY <1>1, <1>2, CallFields
<1>3. CASE TookName(c, x, y)
  <2>1. y.mine = x.mine \cup ({x.names[x.next]} \ rows)
    BY <1>1, <1>3, CallFields
  <2>2. x.pc = "insert" /\ x.names[x.next] \notin call[c2].mine
    BY <1>3 DEF TookName, WaitsFor
  <2>3. x.mine \cap call[c2].mine = {}
    BY <2>2 DEF EnsureInv, HeldInv, Taking
  <2> QED
    BY <2>1, <2>2, <2>3
<1>4. ~(y = NoCall) /\ ~Committed(x, y)
  BY <1>1, CallFields
<1> QED
  BY <1>2, <1>3, <1>4, CallMoves

\* What a statement holds after a step is of the namespace, and has no row yet.
LEMMA HeldAreNew ==
  ASSUME TypeOK, EnsureInv, [Next]_vars, NEW c \in Calls, call'[c].pc = "insert"
  PROVE  call'[c].mine \subseteq SkillNames \ rows'
<1> DEFINE x == call[c]
           y == call'[c]
<1>1. x \in CallRecord
  BY DEF TypeOK
<1>2. CASE y = x
  <2>1. x.mine \subseteq SkillNames \ rows
    BY <1>2 DEF EnsureInv, HeldInv, Taking
  <2>2. CASE rows' = rows
    BY <1>2, <2>1, <2>2
  <2>3. ASSUME NEW n \in ALL_PERMISSIONS, rows' = rows \cup {n}
        PROVE  y.mine \subseteq SkillNames \ rows'
    BY <1>2, <2>1, <2>3, SkillsApart
  <2>4. ASSUME NEW z \in Calls, Committed(call[z], call'[z])
        PROVE  y.mine \subseteq SkillNames \ rows'
    <3>1. call[z].pc = "insert" /\ rows' = rows \cup call[z].mine
      BY <2>4 DEF Committed
    <3>2. call'[z].pc = "answered"
      BY <2>4, CallFields DEF TypeOK
    <3>3. x.mine \cap call[z].mine = {}
      BY <1>2, <3>1, <3>2 DEF EnsureInv, HeldInv, Taking
    <3> QED
      BY <1>2, <2>1, <3>1, <3>3
  <2> QED
    BY <2>2, <2>3, <2>4, RowsMove
<1>3. CASE Began(y)
  BY <1>1, <1>3, CallFields
<1>4. CASE TookName(c, x, y)
  <2>1. /\ y.mine = x.mine \cup ({x.names[x.next]} \ rows)
        /\ x.pc = "insert" /\ x.next <= Len(x.names) /\ rows' = rows
    BY <1>1, <1>4, CallFields DEF TookName
  <2>2. x.mine \subseteq SkillNames \ rows /\ Range(x.names) \subseteq SkillNames
    BY <2>1 DEF EnsureInv, HeldInv, NamesInv, Taking
  <2>3. x.next \in DOMAIN x.names
    BY <1>1, <2>1, LenProperties DEF CallRecord
  <2>4. x.names[x.next] \in SkillNames
    BY <2>2, <2>3 DEF Range
  <2> QED
    BY <2>1, <2>2, <2>4
<1>5. ~(y = NoCall) /\ ~Committed(x, y)
  BY <1>1, CallFields
<1> QED
  BY <1>2, <1>3, <1>4, <1>5, CallMoves

LEMMA HeldStep == TypeOK /\ EnsureInv /\ [Next]_vars => HeldInv'
<1> SUFFICES ASSUME TypeOK, EnsureInv, [Next]_vars PROVE HeldInv'
  OBVIOUS
<1>1. ASSUME NEW c \in Calls, NEW c2 \in Calls, c # c2,
             call'[c].pc = "insert", call'[c2].pc = "insert"
      PROVE  call'[c].mine \cap call'[c2].mine = {}
  <2>1. CASE call'[c] = call[c] /\ call'[c2] = call[c2]
    BY <1>1, <2>1 DEF EnsureInv, HeldInv, Taking
  <2>2. CASE call'[c] # call[c]
    BY <1>1, <2>2, OneCallMoves, TakenApart
  <2>3. CASE call'[c2] # call[c2]
    BY <1>1, <2>3, OneCallMoves, TakenApart
  <2> QED
    BY <2>1, <2>2, <2>3
<1> QED
  BY <1>1, HeldAreNew DEF HeldInv, Taking

LEMMA CreatedStep == TypeOK /\ EnsureInv /\ [Next]_vars => CreatedInv'
<1> SUFFICES ASSUME TypeOK, EnsureInv, [Next]_vars, NEW n \in Names
             PROVE  created'[n] = IF n \in rows' \cap SkillNames THEN 1 ELSE 0
  BY DEF CreatedInv
<1>1. created[n] = IF n \in rows \cap SkillNames THEN 1 ELSE 0
  BY DEF EnsureInv, CreatedInv
<1>2. CASE UNCHANGED <<rows, created>>
  BY <1>1, <1>2
<1>3. CASE \E z \in ALL_PERMISSIONS : rows' = rows \cup {z} /\ UNCHANGED <<call, created>>
  BY <1>1, <1>3, SkillsApart
<1>4. ASSUME NEW c \in Calls, CommitEnsure(c)
      PROVE  created'[n] = IF n \in rows' \cap SkillNames THEN 1 ELSE 0
  <2>1. /\ rows' = rows \cup call[c].mine
        /\ created' = [z \in Names |-> IF z \in call[c].mine THEN created[z] + 1 ELSE created[z]]
    BY <1>4 DEF CommitEnsure
  <2>2. call[c].mine \subseteq SkillNames \ rows
    BY <1>4 DEF CommitEnsure, EnsureInv, HeldInv, Taking
  <2>3. CASE n \in call[c].mine
    BY <1>1, <2>1, <2>2, <2>3
  <2>4. CASE n \notin call[c].mine
    BY <1>1, <2>1, <2>4
  <2> QED
    BY <2>3, <2>4
<1> QED
  BY <1>2, <1>3, <1>4, RowsMove

\* However many ensure calls race on however many names, every row of theirs is
\* reported created by exactly one of them, and only rows of the namespace are.
THEOREM RowsCreatedOnce == Spec => []EachRowCreatedOnce
<1>1. Init => EnsureInv
  <2> SUFFICES ASSUME Init PROVE EnsureInv
    OBVIOUS
  <2>1. \A c \in Calls : call[c].pc = "idle"
    BY DEF Init, NoCall
  <2>2. rows \cap SkillNames = {}
    BY SkillsApart DEF Init
  <2> QED
    BY <2>1, <2>2 DEF Init, EnsureInv, NamesInv, HeldInv, CreatedInv, Taking
<1>2. EnsureInv => EachRowCreatedOnce
  BY DEF EnsureInv, NamesInv, CreatedInv, EachRowCreatedOnce, EnsureResult
<1>3. TypeOK /\ EnsureInv /\ [Next]_vars => EnsureInv'
  BY NamesStep, HeldStep, CreatedStep DEF EnsureInv
<1> QED
  BY <1>1, <1>2, <1>3, TypeCorrect, PTL DEF Spec
=============================================================================

------------------------ MODULE DelegatedTokens_proofs ------------------------
(***************************************************************************)
(* What is proved of DelegatedTokens for every set of people, roles,       *)
(* organisations, requests and saves: its types, that tokens and refusals  *)
(* stand on what was so while the request was at work, and that a lone     *)
(* save leaves what it posted.                                             *)
(***************************************************************************)
EXTENDS DelegatedTokens, TLAPS

-----------------------------------------------------------------------------
(* The steps, by the part of the system that moves *)

MintStep(m) ==
  \/ \E a \in Asked : Begin(m, a[1], a[2], a[3])
  \/ FindUser(m) \/ ReadAssignments(m) \/ ReadGrants(m) \/ OrganisationsOf(m)
  \/ Sign(m) \/ FailMint(m)

SaveStep(s) ==
  \/ \E f \in Forms : BeginSave(s, f)
  \/ DeleteGrants(s) \/ CreateGrants(s) \/ FailSave(s)

PersonStep ==
  \/ \E u \in Users :
       \/ \E map \in Maps : Reassign(u, map)
       \/ DeactivateUser(u) \/ ReactivateUser(u) \/ DeleteUser(u)
  \/ \E a \in Asked : MoveMember(a[2], a[3])

LEMMA Steps ==
  Step => (\E m \in Mints : MintStep(m)) \/ (\E s \in Savers : SaveStep(s)) \/ PersonStep
  BY Zenon DEF Step, MintStep, SaveStep, PersonStep, BeginMint, BeginMintWrite

\* No step of a mint writes what it reads.
LEMMA MintsOnlyRead ==
  ASSUME NEW m \in Mints, MintStep(m)
  PROVE  UNCHANGED <<account, assigned, granted, member, save>>
  BY DEF MintStep, Begin, FindUser, ReadAssignments, ReadGrants, OrganisationsOf, Sign, FailMint

LEMMA SavesWriteGrants ==
  ASSUME NEW s \in Savers, SaveStep(s)
  PROVE  UNCHANGED <<account, assigned, member, mint>>
  BY DEF SaveStep, BeginSave, DeleteGrants, CreateGrants, FailSave

LEMMA PeopleChangeThemselves ==
  ASSUME PersonStep
  PROVE  UNCHANGED <<granted, mint, save>>
  BY DEF PersonStep, Reassign, SetAccount, DeactivateUser, ReactivateUser, DeleteUser, MoveMember

\* A mint moves to its next record and leaves those of the others.
LEMMA OneMint ==
  ASSUME mint \in [Mints -> MintRecord], NEW m \in Mints, MintStep(m)
  PROVE  \E x : mint' = [mint EXCEPT ![m] = x]
  <1>1. ASSUME NEW a \in Asked, Begin(m, a[1], a[2], a[3])
        PROVE  \E x : mint' = [mint EXCEPT ![m] = x]
    BY <1>1 DEF Begin
  <1>2. ASSUME FindUser(m) PROVE \E x : mint' = [mint EXCEPT ![m] = x]
    BY <1>2 DEF FindUser, Goto, Refuse
  <1>3. ASSUME ReadAssignments(m) PROVE \E x : mint' = [mint EXCEPT ![m] = x]
    BY <1>3 DEF ReadAssignments
  <1>4. ASSUME ReadGrants(m) PROVE \E x : mint' = [mint EXCEPT ![m] = x]
    BY <1>4 DEF ReadGrants, Decide, Goto, Refuse
  <1>5. ASSUME OrganisationsOf(m) PROVE \E x : mint' = [mint EXCEPT ![m] = x]
    BY <1>5 DEF OrganisationsOf, Goto, Answer, Refuse
  <1>6. ASSUME Sign(m) \/ FailMint(m) PROVE \E x : mint' = [mint EXCEPT ![m] = x]
    BY <1>6 DEF Sign, FailMint, Answer
  <1> QED BY <1>1, <1>2, <1>3, <1>4, <1>5, <1>6, Zenon DEF MintStep

\* A request that moved was moved by a step of its own.
LEMMA OwnStep ==
  ASSUME mint \in [Mints -> MintRecord], Step, NEW m \in Mints, mint'[m] # mint[m]
  PROVE  MintStep(m)
  <1>1. PICK n \in Mints : MintStep(n)
    BY Steps, SavesWriteGrants, PeopleChangeThemselves
  <1>2. PICK x : mint' = [mint EXCEPT ![n] = x]
    BY <1>1, OneMint
  <1>3. n = m
    BY <1>2
  <1> QED BY <1>1, <1>3

-----------------------------------------------------------------------------
(* Types *)

LEMMA MintFields ==
  /\ NoMint \in MintRecord
  /\ \A k \in Kinds, u \in Users, e \in Entities :
       [NoMint EXCEPT !.pc = "user", !.kind = k, !.user = u, !.entity = e] \in MintRecord
  /\ \A p \in {"minted", "unavailable"} : [NoMint EXCEPT !.pc = p] \in MintRecord
  /\ \A f \in Facts : [NoMint EXCEPT !.pc = "refused", !.reason = f] \in MintRecord
  /\ \A x \in MintRecord :
       /\ \A p \in {"assignments", "ask", "sign"} : [x EXCEPT !.pc = p] \in MintRecord
       /\ \A r \in SUBSET Roles : [x EXCEPT !.pc = "grants", !.roles = r] \in MintRecord
  BY DEF NoMint, MintRecord, Facts

\* The three ways a request moves on keep the types.
LEMMA AnswersTyped ==
  ASSUME mint \in [Mints -> MintRecord], NEW m \in Mints
  PROVE  /\ \A p \in {"assignments", "ask", "sign"} : Goto(m, p) => mint' \in [Mints -> MintRecord]
         /\ \A p \in {"minted", "unavailable"} : Answer(m, p) => mint' \in [Mints -> MintRecord]
         /\ \A f \in Facts : Refuse(m, f) => mint' \in [Mints -> MintRecord]
  <1>1. ASSUME NEW x \in MintRecord, mint' = [mint EXCEPT ![m] = x]
        PROVE  mint' \in [Mints -> MintRecord]
    BY <1>1
  <1>2. ASSUME NEW p \in {"assignments", "ask", "sign"}, Goto(m, p)
        PROVE  mint' \in [Mints -> MintRecord]
    <2>1. [mint[m] EXCEPT !.pc = p] \in MintRecord
      BY MintFields
    <2> QED BY <1>1, <1>2, <2>1 DEF Goto
  <1>3. ASSUME NEW p \in {"minted", "unavailable"}, Answer(m, p)
        PROVE  mint' \in [Mints -> MintRecord]
    BY <1>1, <1>3, MintFields DEF Answer
  <1>4. ASSUME NEW f \in Facts, Refuse(m, f)
        PROVE  mint' \in [Mints -> MintRecord]
    BY <1>1, <1>4, MintFields DEF Refuse
  <1> QED BY <1>2, <1>3, <1>4

LEMMA MintTyped ==
  ASSUME mint \in [Mints -> MintRecord], NEW m \in Mints, MintStep(m)
  PROVE  mint' \in [Mints -> MintRecord]
  <1>1. ASSUME NEW a \in Asked, Begin(m, a[1], a[2], a[3])
        PROVE  mint' \in [Mints -> MintRecord]
    <2>1. a[1] \in Kinds /\ a[2] \in Users /\ a[3] \in Entities
      BY <1>1, AskedIsPosted DEF Begin, Scopes
    <2> QED BY <1>1, <2>1, MintFields DEF Begin
  <1>2. ASSUME FindUser(m) PROVE mint' \in [Mints -> MintRecord]
    BY <1>2, AnswersTyped DEF FindUser, Facts
  <1>3. ASSUME ReadAssignments(m) PROVE mint' \in [Mints -> MintRecord]
    <2>1. RolesOf(mint[m].user, mint[m].entity) \in SUBSET Roles
      BY DEF RolesOf
    <2> QED BY <1>3, <2>1, MintFields DEF ReadAssignments
  <1>4. ASSUME ReadGrants(m) PROVE mint' \in [Mints -> MintRecord]
    BY <1>4, AnswersTyped DEF ReadGrants, Decide, Facts
  <1>5. ASSUME OrganisationsOf(m) PROVE mint' \in [Mints -> MintRecord]
    BY <1>5, AnswersTyped DEF OrganisationsOf, Facts
  <1>6. ASSUME Sign(m) \/ FailMint(m) PROVE mint' \in [Mints -> MintRecord]
    BY <1>6, AnswersTyped DEF Sign, FailMint
  <1> QED BY <1>1, <1>2, <1>3, <1>4, <1>5, <1>6, Zenon DEF MintStep

LEMMA SaveFields ==
  /\ NoSave \in SaveRecord
  /\ \A r \in Roles, e \in Scopes, p \in SUBSET Rights, b \in BOOLEAN :
       [pc |-> "delete", role |-> r, scope |-> e, rights |-> p, alone |-> b, kept |-> {}]
         \in SaveRecord
  /\ \A x \in SaveRecord :
       /\ [x EXCEPT !.alone = FALSE] \in SaveRecord
       /\ \A k \in SUBSET Rights : [x EXCEPT !.pc = "create", !.kept = k] \in SaveRecord
       /\ x.rights \in SUBSET Rights
  BY DEF NoSave, SaveRecord

\* What a save at work is about: a role and a scope, never None.
Placed == \A s \in Savers : save[s].pc # "idle" => save[s].role \in Roles /\ save[s].scope \in Scopes

Typed == TypeOK /\ Placed

LEMMA SaveTyped ==
  ASSUME Typed, NEW s \in Savers, SaveStep(s)
  PROVE  save' \in [Savers -> SaveRecord] /\ Placed'
  <1> USE DEF Typed, Placed
  <1>0. save \in [Savers -> SaveRecord]
    BY DEF TypeOK
  <1>1. ASSUME NEW f \in Forms, BeginSave(s, f)
        PROVE  save' \in [Savers -> SaveRecord] /\ Placed'
    <2>1. f[1] \in Roles /\ f[2] \in Scopes /\ f[3] \in SUBSET Rights
      BY FormsAreRows
    <2> DEFINE new == [pc |-> "delete", role |-> f[1], scope |-> f[2], rights |-> f[3],
                       alone |-> Peers(s, f) = {}, kept |-> {}]
    <2>2. new \in SaveRecord /\ new.role \in Roles /\ new.scope \in Scopes
      BY <2>1, SaveFields
    <2>3. \A t \in Savers : save'[t] = new \/ save'[t] = [save[t] EXCEPT !.alone = FALSE]
                             \/ save'[t] = save[t]
      BY <1>1 DEF BeginSave
    <2>4. \A x \in SaveRecord : LET y == [x EXCEPT !.alone = FALSE]
                                IN y.pc = x.pc /\ y.role = x.role /\ y.scope = x.scope
      BY DEF SaveRecord
    <2>5. DOMAIN save' = Savers /\ save' = [t \in Savers |-> save'[t]]
      BY <1>1 DEF BeginSave
    <2> HIDE DEF new
    <2>6. \A t \in Savers : /\ save'[t] \in SaveRecord
                            /\ save'[t].pc # "idle" => save'[t].role \in Roles /\ save'[t].scope \in Scopes
      BY <1>0, <2>2, <2>3, <2>4, SaveFields
    <2> QED BY <2>5, <2>6
  <1>2. ASSUME save' = [save EXCEPT ![s] = NoSave]
        PROVE  save' \in [Savers -> SaveRecord] /\ Placed'
    <2>1. NoSave.pc = "idle"
      BY DEF NoSave
    <2> QED BY <1>0, <1>2, <2>1, SaveFields
  <1>3. ASSUME DeleteGrants(s) PROVE save' \in [Savers -> SaveRecord] /\ Placed'
    <2> DEFINE k == {g[2] : g \in Rows(save[s].role, save[s].scope)} \cap save[s].rights
               new == [save[s] EXCEPT !.pc = "create", !.kept = k]
    <2>1. k \in SUBSET Rights
      BY <1>0, SaveFields
    <2>2. new \in SaveRecord
      BY <1>0, <2>1, SaveFields
    <2>3. new.role = save[s].role /\ new.scope = save[s].scope
      BY <1>0 DEF SaveRecord
    <2>4. save[s].pc # "idle"
      BY <1>3 DEF DeleteGrants
    <2>5. save' = [save EXCEPT ![s] = NoSave] \/ save' = [save EXCEPT ![s] = new]
      BY <1>3, <1>0 DEF DeleteGrants, Deleted
    <2> HIDE DEF new
    <2> QED BY <1>0, <1>2, <2>2, <2>3, <2>4, <2>5
  <1> QED BY <1>1, <1>2, <1>3, Zenon DEF SaveStep, CreateGrants, FailSave

LEMMA RowsTyped ==
  ASSUME Typed, Step
  PROVE  /\ account' \in [Users -> {"active", "inactive", "deleted"}]
         /\ assigned' \subseteq Users \X Roles \X Scopes
         /\ granted' \subseteq Roles \X Rights \X Scopes
         /\ member' \subseteq Users \X Entities
  <1> USE DEF Typed, TypeOK
  <1>1. ASSUME NEW m \in Mints, MintStep(m)
        PROVE  UNCHANGED <<account, assigned, granted, member>>
    BY <1>1, MintsOnlyRead
  <1>2. ASSUME NEW s \in Savers, SaveStep(s)
        PROVE  UNCHANGED <<account, assigned, member>> /\ granted' \subseteq Roles \X Rights \X Scopes
    <2>1. CASE DeleteGrants(s)
      BY <1>2, <2>1, SavesWriteGrants DEF DeleteGrants
    <2>2. CASE CreateGrants(s)
      <3>1. save[s].role \in Roles /\ save[s].scope \in Scopes /\ save[s].rights \in SUBSET Rights
        BY <2>2, SaveFields DEF CreateGrants, Placed
      <3>2. Posted(s) \subseteq Roles \X Rights \X Scopes
        BY <3>1 DEF Posted
      <3> QED BY <1>2, <2>2, <3>2, SavesWriteGrants DEF CreateGrants
    <2> QED BY <1>2, <2>1, <2>2, SavesWriteGrants DEF SaveStep, BeginSave, FailSave
  <1>3. ASSUME PersonStep
        PROVE  /\ account' \in [Users -> {"active", "inactive", "deleted"}]
               /\ assigned' \subseteq Users \X Roles \X Scopes
               /\ member' \subseteq Users \X Entities
    <2>1. ASSUME NEW u \in Users, NEW map \in Maps, Reassign(u, map)
          PROVE  /\ UNCHANGED <<account, member>>
                 /\ assigned' \subseteq Users \X Roles \X Scopes
      <3>1. \A x \in map : x[1] \in Roles /\ x[2] \in Scopes
        BY MapsAreRows
      <3> QED BY <2>1, <3>1 DEF Reassign
    <2>2. ASSUME NEW u \in Users, DeactivateUser(u) \/ ReactivateUser(u) \/ DeleteUser(u)
          PROVE  /\ account' \in [Users -> {"active", "inactive", "deleted"}]
                 /\ assigned' \subseteq Users \X Roles \X Scopes
                 /\ UNCHANGED member
      BY <2>2 DEF DeactivateUser, ReactivateUser, DeleteUser, SetAccount
    <2>3. ASSUME NEW a \in Asked, MoveMember(a[2], a[3])
          PROVE  UNCHANGED <<account, assigned>> /\ member' \subseteq Users \X Entities
      <3>1. a[2] \in Users /\ a[3] \in Entities
        BY <2>3, AskedIsPosted DEF MoveMember
      <3> QED BY <2>3, <3>1 DEF MoveMember
    <2> QED BY <1>3, <2>1, <2>2, <2>3 DEF PersonStep
  <1> QED BY <1>1, <1>2, <1>3, Steps, PeopleChangeThemselves

LEMMA SeenTyped ==
  ASSUME seen \in [Mints -> [met : SUBSET Facts, failed : SUBSET Facts, moved : BOOLEAN]], Watch
  PROVE  seen' \in [Mints -> [met : SUBSET Facts, failed : SUBSET Facts, moved : BOOLEAN]]
  <1>1. \A m \in Mints : TruthNow(m)' \in SUBSET Facts
    BY DEF TruthNow, Truth
  <1> QED BY <1>1 DEF Watch, NotSeen

LEMMA TypedInit == Init => Typed
  <1> SUFFICES ASSUME Init PROVE Typed
    OBVIOUS
  <1>1. PICK map \in [Users -> Maps] : assigned = UNION {{<<u, x[1], x[2]>> : x \in map[u]} : u \in Users}
    BY DEF Init
  <1>2. \A u \in Users : \A x \in map[u] : x[1] \in Roles /\ x[2] \in Scopes
    BY MapsAreRows
  <1>3. assigned \subseteq Users \X Roles \X Scopes
    BY <1>1, <1>2
  <1>4. \A s \in Savers : save[s].pc = "idle"
    BY DEF Init, NoSave
  <1>5. seen \in [Mints -> [met : SUBSET Facts, failed : SUBSET Facts, moved : BOOLEAN]]
    BY DEF Init, NotSeen
  <1> QED BY <1>3, <1>4, <1>5, MintFields, SaveFields DEF Init, Typed, TypeOK, Placed

LEMMA TypedStep == Typed /\ [Next]_vars => Typed'
  <1> SUFFICES ASSUME Typed, [Next]_vars PROVE Typed'
    OBVIOUS
  <1>1. CASE UNCHANGED vars
    BY <1>1 DEF vars, Typed, TypeOK, Placed
  <1>2. CASE Step /\ Watch
    <2>1. mint' \in [Mints -> MintRecord]
      BY <1>2, Steps, MintTyped, SavesWriteGrants, PeopleChangeThemselves DEF Typed, TypeOK
    <2>2. save' \in [Savers -> SaveRecord] /\ Placed'
      <3>1. CASE UNCHANGED save
        BY <3>1 DEF Typed, TypeOK, Placed
      <3>2. CASE \E s \in Savers : SaveStep(s)
        BY <3>2, SaveTyped
      <3> QED BY <1>2, <3>1, <3>2, Steps, MintsOnlyRead, PeopleChangeThemselves
    <2>3. seen' \in [Mints -> [met : SUBSET Facts, failed : SUBSET Facts, moved : BOOLEAN]]
      BY <1>2, SeenTyped DEF Typed, TypeOK
    <2> QED BY <1>2, <2>1, <2>2, <2>3, RowsTyped DEF Typed, TypeOK
  <1> QED BY <1>1, <1>2 DEF Next

\* DelegatedTokens is well typed.
THEOREM TypeCorrect == Spec => []TypeOK
  <1>1. Typed => TypeOK
    BY DEF Typed
  <1> QED BY TypedInit, TypedStep, <1>1, PTL DEF Spec

-----------------------------------------------------------------------------
(* What a request was told *)

\* What is so now has been seen, and what may still be refused for and is not so
\* has been seen failing.
Current(m) ==
  mint[m].pc \notin Answered =>
    /\ TruthNow(m) \subseteq seen[m].met
    /\ (Facts \ TruthNow(m)) \cap Undecided(mint[m].pc) \subseteq seen[m].failed

\* What a request has decided was so when it decided.
Decided(m) ==
  /\ mint[m].pc \in {"assignments", "grants", "ask", "sign"} => "account" \in seen[m].met
  /\ mint[m].pc = "grants" =>
       seen[m].moved \/ mint[m].roles = RolesOf(mint[m].user, mint[m].entity)
  /\ mint[m].pc \in {"ask", "sign"} => seen[m].moved \/ {"rights", "tool"} \subseteq seen[m].met
  /\ mint[m].pc = "sign" => "member" \in seen[m].met

LEMMA SeenInit == Init => \A m \in Mints : Current(m) /\ Decided(m)
  BY DEF Init, Current, Decided, NoMint, Answered

\* The history of a request that is at work after the step.
LEMMA WatchStep ==
  ASSUME Watch, NEW m \in Mints, mint'[m].pc \notin Answered
  PROVE  /\ seen'[m].met = seen[m].met \cup TruthNow(m)'
         /\ seen'[m].failed =
              (seen[m].failed \cup (Facts \ TruthNow(m)')) \cap Undecided(mint'[m].pc)
         /\ seen'[m].moved = (seen[m].moved \/ (mint[m].pc = "grants" /\ assigned' # assigned))
  BY DEF Watch

LEMMA CurrentStep ==
  ASSUME Watch, NEW m \in Mints
  PROVE  Current(m)'
  BY WatchStep DEF Current

\* What the steps of request m do to its record and to its history.
LEMMA DecidedStep ==
  ASSUME Typed, Step, Watch, NEW m \in Mints, Decided(m)
  PROVE  Decided(m)'
  <1> SUFFICES ASSUME mint'[m].pc \notin Answered PROVE Decided(m)'
    BY DEF Decided, Answered
  <1>0. /\ seen'[m].met = seen[m].met \cup TruthNow(m)'
        /\ seen'[m].moved = (seen[m].moved \/ (mint[m].pc = "grants" /\ assigned' # assigned))
    BY WatchStep
  <1>1. CASE mint'[m] = mint[m]
    BY <1>0, <1>1 DEF Decided, RolesOf
  <1>2. CASE mint'[m] # mint[m]
    <2>1. MintStep(m) /\ UNCHANGED <<account, assigned, granted, member>>
      BY <1>2, OwnStep, MintsOnlyRead DEF Typed, TypeOK
    <2>2. mint[m] \in MintRecord
      BY DEF Typed, TypeOK
    <2>3. CASE \E a \in Asked : Begin(m, a[1], a[2], a[3])
      BY <2>3, MintFields DEF Begin, Decided, Typed, TypeOK, NoMint
    <2>4. CASE FindUser(m)
      <3>1. account[mint[m].user] = "active" /\ mint'[m] = [mint[m] EXCEPT !.pc = "assignments"]
        BY <2>4 DEF FindUser, Goto, Refuse, Typed, TypeOK, Answered, NoMint
      <3>2. mint'[m].pc = "assignments" /\ mint'[m].user = mint[m].user
        BY <2>2, <3>1 DEF MintRecord
      <3>3. "account" \in TruthNow(m)'
        BY <2>1, <3>1, <3>2 DEF TruthNow, Truth, Facts
      <3> QED BY <1>0, <3>2, <3>3 DEF Decided
    <2>5. CASE ReadAssignments(m)
      <3>1. /\ mint[m].pc = "assignments"
            /\ mint'[m] = [mint[m] EXCEPT !.pc = "grants", !.roles = RolesOf(mint[m].user, mint[m].entity)]
        BY <2>5 DEF ReadAssignments, Typed, TypeOK
      <3>2. /\ mint'[m].pc = "grants" /\ mint'[m].user = mint[m].user
            /\ mint'[m].entity = mint[m].entity
            /\ mint'[m].roles = RolesOf(mint[m].user, mint[m].entity)
        BY <2>2, <3>1 DEF MintRecord
      <3>3. (mint[m].roles = RolesOf(mint[m].user, mint[m].entity))'
        BY <2>1, <3>2 DEF RolesOf
      <3> QED BY <1>0, <3>1, <3>2, <3>3 DEF Decided
    <2>6. CASE ReadGrants(m)
      <3> DEFINE held == Carried(mint[m].roles, mint[m].entity, granted)
      <3>1. /\ mint[m].pc = "grants" /\ mint'[m] = [mint[m] EXCEPT !.pc = "ask"]
            /\ Suffices(mint[m].kind, held) /\ SufficesForTool(mint[m].kind, held)
        BY <2>6 DEF ReadGrants, Decide, Goto, Refuse, Typed, TypeOK, Answered, NoMint
      <3>2. /\ mint'[m].pc = "ask" /\ mint'[m].user = mint[m].user
            /\ mint'[m].entity = mint[m].entity /\ mint'[m].kind = mint[m].kind
        BY <2>2, <3>1 DEF MintRecord
      <3>3. ASSUME ~seen[m].moved PROVE {"rights", "tool"} \subseteq TruthNow(m)'
        <4>1. mint[m].roles = RolesOf(mint[m].user, mint[m].entity)
          BY <3>1, <3>3 DEF Decided
        <4> QED BY <2>1, <3>1, <3>2, <4>1
                DEF TruthNow, Truth, Facts, RolesOf, Carried, InScope, Suffices, SufficesForTool
      <3> QED BY <1>0, <2>1, <3>1, <3>2, <3>3 DEF Decided
    <2>7. CASE OrganisationsOf(m)
      <3>1. /\ mint[m].pc = "ask" /\ <<mint[m].user, mint[m].entity>> \in member
            /\ mint'[m] = [mint[m] EXCEPT !.pc = "sign"]
        <4>1. \A f \in Facts : ~Refuse(m, f)
          BY DEF Refuse, Typed, TypeOK, Answered, NoMint
        <4>2. ~Answer(m, "unavailable")
          BY DEF Answer, Typed, TypeOK, Answered, NoMint
        <4>3. mint[m].pc = "ask" /\ <<mint[m].user, mint[m].entity>> \in member /\ Goto(m, "sign")
          BY <2>7, <4>1, <4>2 DEF OrganisationsOf, Facts
        <4> QED BY <4>3 DEF Goto, Typed, TypeOK
      <3>2. /\ mint'[m].pc = "sign" /\ mint'[m].user = mint[m].user
            /\ mint'[m].entity = mint[m].entity
        BY <2>2, <3>1 DEF MintRecord
      <3>3. "member" \in TruthNow(m)'
        BY <2>1, <3>1, <3>2 DEF TruthNow, Truth, Facts
      <3> QED BY <1>0, <3>1, <3>2, <3>3 DEF Decided
    <2>8. CASE Sign(m) \/ FailMint(m)
      BY <2>8 DEF Sign, FailMint, Answer, Typed, TypeOK, Answered, NoMint
    <2> QED BY <2>1, <2>3, <2>4, <2>5, <2>6, <2>7, <2>8, Zenon DEF MintStep
  <1> QED BY <1>1, <1>2

Seen == Typed /\ \A m \in Mints : Current(m) /\ Decided(m)

LEMMA SeenStep == Seen /\ [Next]_vars => Seen'
  <1>1. ASSUME Seen, UNCHANGED vars PROVE Seen'
    <2>1. Typed'
      BY <1>1, TypedStep DEF Seen
    <2>2. ASSUME NEW m \in Mints PROVE Current(m)' /\ Decided(m)'
      BY <1>1 DEF Seen, vars, Current, Decided, TruthNow, Truth, RolesOf, Carried, InScope,
                  Suffices, SufficesForTool
    <2> QED BY <2>1, <2>2 DEF Seen
  <1>2. ASSUME Seen, Step, Watch PROVE Seen'
    BY <1>2, TypedStep, CurrentStep, DecidedStep DEF Seen, Next
  <1> QED BY <1>1, <1>2 DEF Next

-----------------------------------------------------------------------------
(* Tokens and refusals *)

\* A record that is answered by a step is answered by a step of its own.
LEMMA AnsweredByOwnStep ==
  ASSUME Typed, Step, NEW m \in Mints, mint[m].pc \notin Answered, mint'[m].pc \in Answered
  PROVE  FindUser(m) \/ ReadGrants(m) \/ OrganisationsOf(m) \/ Sign(m) \/ FailMint(m)
  <1>1. MintStep(m)
    BY OwnStep DEF Typed, TypeOK
  <1>2. ASSUME NEW a \in Asked, Begin(m, a[1], a[2], a[3]) PROVE FALSE
    BY <1>2 DEF Begin
  <1>3. ~ReadAssignments(m)
    <2>1. ASSUME ReadAssignments(m) PROVE mint'[m].pc = "grants"
      <3>1. mint'[m] = [mint[m] EXCEPT !.pc = "grants", !.roles = RolesOf(mint[m].user, mint[m].entity)]
        BY <2>1 DEF ReadAssignments, Typed, TypeOK
      <3>2. mint[m] \in MintRecord
        BY DEF Typed, TypeOK
      <3> QED BY <3>1, <3>2 DEF MintRecord
    <2> QED BY <2>1 DEF Answered
  <1> QED BY <1>1, <1>2, <1>3, Zenon DEF MintStep

\* What each way on leaves in the record.
LEMMA AnswerFields ==
  ASSUME Typed, NEW m \in Mints
  PROVE  /\ \A p \in {"assignments", "ask", "sign"} : Goto(m, p) => mint'[m].pc = p
         /\ \A p \in {"minted", "unavailable"} : Answer(m, p) => mint'[m].pc = p
         /\ \A f \in Facts : Refuse(m, f) => mint'[m].pc = "refused" /\ mint'[m].reason = f
  <1>1. mint[m] \in MintRecord /\ mint \in [Mints -> MintRecord]
    BY DEF Typed, TypeOK
  <1>2. ASSUME NEW p \in {"assignments", "ask", "sign"}, Goto(m, p) PROVE mint'[m].pc = p
    <2>1. mint'[m] = [mint[m] EXCEPT !.pc = p]
      BY <1>1, <1>2 DEF Goto
    <2> QED BY <1>1, <2>1 DEF MintRecord
  <1>3. ASSUME NEW p \in {"minted", "unavailable"}, Answer(m, p) PROVE mint'[m].pc = p
    BY <1>1, <1>3 DEF Answer, NoMint
  <1>4. ASSUME NEW f \in Facts, Refuse(m, f)
        PROVE  mint'[m].pc = "refused" /\ mint'[m].reason = f
    BY <1>1, <1>4 DEF Refuse, NoMint
  <1> QED BY <1>2, <1>3, <1>4

\* Only the last step of a mint hands out a token.
LEMMA MintedBySign ==
  ASSUME Typed, Step, NEW m \in Mints, Answers(m, "minted")
  PROVE  mint[m].pc = "sign"
  <1>1. FindUser(m) \/ ReadGrants(m) \/ OrganisationsOf(m) \/ Sign(m) \/ FailMint(m)
    BY AnsweredByOwnStep DEF Answers, Answered
  <1>2. ~FindUser(m)
    BY AnswerFields DEF FindUser, Answers, Facts
  <1>3. ~ReadGrants(m)
    BY AnswerFields DEF ReadGrants, Decide, Answers, Facts
  <1>4. ~OrganisationsOf(m)
    BY AnswerFields DEF OrganisationsOf, Answers, Facts
  <1>5. ~FailMint(m)
    BY AnswerFields DEF FailMint, Answers
  <1> QED BY <1>1, <1>2, <1>3, <1>4, <1>5 DEF Sign

\* A refusal names what a read found missing.
LEMMA RefusedByRead ==
  ASSUME Seen, Step, NEW m \in Mints, Answers(m, "refused")
  PROVE  \/ mint'[m].reason \in seen[m].failed
         \/ mint'[m].reason \in {"rights", "tool"} /\ seen[m].moved
  <1>0. Typed /\ Current(m) /\ Decided(m) /\ mint[m].pc \notin Answered
    BY DEF Seen, Answers
  <1>1. FindUser(m) \/ ReadGrants(m) \/ OrganisationsOf(m) \/ Sign(m) \/ FailMint(m)
    BY <1>0, AnsweredByOwnStep DEF Answers, Answered
  <1>2. ~Sign(m) /\ ~FailMint(m)
    BY <1>0, AnswerFields DEF Sign, FailMint, Answers
  <1>3. CASE FindUser(m)
    <2>1. mint[m].pc = "user" /\ account[mint[m].user] # "active" /\ mint'[m].reason = "account"
      BY <1>0, <1>3, AnswerFields DEF FindUser, Answers, Facts
    <2>2. "account" \notin TruthNow(m)
      BY <2>1 DEF TruthNow, Truth
    <2> QED BY <1>0, <2>1, <2>2 DEF Current, Undecided, Facts
  <1>4. CASE ReadGrants(m)
    <2> DEFINE held == Carried(mint[m].roles, mint[m].entity, granted)
    <2>1. /\ mint[m].pc = "grants"
          /\ \/ ~Suffices(mint[m].kind, held) /\ mint'[m].reason = "rights"
             \/ ~SufficesForTool(mint[m].kind, held) /\ mint'[m].reason = "tool"
      BY <1>0, <1>4, AnswerFields DEF ReadGrants, Decide, Answers, Facts
    <2>2. CASE seen[m].moved
      BY <2>1, <2>2
    <2>3. CASE ~seen[m].moved
      <3>1. mint[m].roles = RolesOf(mint[m].user, mint[m].entity)
        BY <1>0, <2>1, <2>3 DEF Decided
      <3>2. mint'[m].reason \in {"rights", "tool"} /\ mint'[m].reason \notin TruthNow(m)
        BY <2>1, <3>1 DEF TruthNow, Truth
      <3> QED BY <1>0, <2>1, <3>2 DEF Current, Undecided, Facts
    <2> QED BY <2>2, <2>3
  <1>5. CASE OrganisationsOf(m)
    <2>1. /\ mint[m].pc = "ask" /\ <<mint[m].user, mint[m].entity>> \notin member
          /\ mint'[m].reason = "member"
      BY <1>0, <1>5, AnswerFields DEF OrganisationsOf, Answers, Facts
    <2>2. "member" \notin TruthNow(m)
      BY <2>1 DEF TruthNow, Truth
    <2> QED BY <1>0, <2>1, <2>2 DEF Current, Undecided, Facts
  <1> QED BY <1>1, <1>2, <1>3, <1>4, <1>5

\* A token stands on an account, rights and a membership its person had while the
\* request was at work (mint, mintWrite).
THEOREM MintsAreQualified == Spec => MintedWasQualified
  <1>1. Init => Seen
    BY TypedInit, SeenInit DEF Seen
  <1>2. ASSUME Seen, [Next]_vars, NEW m \in Mints, Answers(m, "minted")
        PROVE  /\ {"account", "member"} \subseteq seen[m].met
               /\ seen[m].moved \/ {"rights", "tool"} \subseteq seen[m].met
    <2>1. Step
      BY <1>2 DEF Next, vars, Answers, Answered
    <2>2. mint[m].pc = "sign"
      BY <1>2, <2>1, MintedBySign DEF Seen
    <2> QED BY <1>2, <2>2 DEF Seen, Decided
  <1>3. Seen /\ [Next]_vars =>
          [ \A m \in Mints : Answers(m, "minted") =>
              /\ {"account", "member"} \subseteq seen[m].met
              /\ seen[m].moved \/ {"rights", "tool"} \subseteq seen[m].met ]_vars
    BY <1>2
  <1> QED BY <1>1, <1>3, SeenStep, PTL DEF Spec, MintedWasQualified

\* A refusal names something the person lacked while the request was at work; no
\* outage is answered as one (mint, mintWrite, organisationsOf).
THEOREM RefusalsAreEarned == Spec => RefusedWasUnqualified
  <1>1. Init => Seen
    BY TypedInit, SeenInit DEF Seen
  <1>2. ASSUME Seen, [Next]_vars, NEW m \in Mints, Answers(m, "refused")
        PROVE  \/ mint'[m].reason \in seen[m].failed
               \/ mint'[m].reason \in {"rights", "tool"} /\ seen[m].moved
    <2>1. Step
      BY <1>2 DEF Next, vars, Answers, Answered
    <2> QED BY <1>2, <2>1, RefusedByRead
  <1>3. Seen /\ [Next]_vars =>
          [ \A m \in Mints : Answers(m, "refused") =>
              \/ mint'[m].reason \in seen[m].failed
              \/ mint'[m].reason \in {"rights", "tool"} /\ seen[m].moved ]_vars
    BY <1>2
  <1> QED BY <1>1, <1>3, SeenStep, PTL DEF Spec, RefusedWasUnqualified

-----------------------------------------------------------------------------
(* Saves *)

SameSet(x, y) == x.role = y.role /\ x.scope = y.scope

\* A lone save has nobody beside it, and its deletion is not undone meanwhile.
Lone(s) ==
  save[s].pc # "idle" /\ save[s].alone =>
    /\ \A t \in Savers \ {s} : save[t].pc # "idle" => ~SameSet(save[t], save[s])
    /\ save[s].pc = "create" => Rows(save[s].role, save[s].scope) = {}

Lonely == Typed /\ \A s \in Savers : Lone(s)

\* What each step of save t does to its record and to the grants.
LEMMA SaveOutcome ==
  ASSUME Typed, NEW t \in Savers
  PROVE  /\ DeleteGrants(t) =>
              /\ \/ save' = [save EXCEPT ![t] = NoSave] /\ save[t].rights = {}
                 \/ \E x : /\ save' = [save EXCEPT ![t] = x] /\ x.pc = "create"
                           /\ SameSet(x, save[t]) /\ x.alone = save[t].alone
              /\ granted' = granted \ Rows(save[t].role, save[t].scope)
         /\ CreateGrants(t) =>
              /\ save[t].pc = "create" /\ save' = [save EXCEPT ![t] = NoSave]
              /\ granted' = granted \cup Posted(t)
         /\ FailSave(t) => save' = [save EXCEPT ![t] = NoSave] /\ granted' = granted
  <1>1. ASSUME DeleteGrants(t), save[t].rights # {}
        PROVE  \E x : /\ save' = [save EXCEPT ![t] = x] /\ x.pc = "create"
                      /\ SameSet(x, save[t]) /\ x.alone = save[t].alone
    <2> DEFINE k == {g[2] : g \in Rows(save[t].role, save[t].scope)} \cap save[t].rights
               new == [save[t] EXCEPT !.pc = "create", !.kept = k]
    <2>1. save' = [save EXCEPT ![t] = new]
      BY <1>1 DEF DeleteGrants, Deleted
    <2>2. save[t] \in SaveRecord
      BY DEF Typed, TypeOK
    <2>3. new.pc = "create" /\ SameSet(new, save[t]) /\ new.alone = save[t].alone
      BY <2>2 DEF SaveRecord, SameSet
    <2> HIDE DEF new
    <2> QED BY <2>1, <2>3
  <1>2. DeleteGrants(t) /\ save[t].rights = {} => save' = [save EXCEPT ![t] = NoSave]
    BY DEF DeleteGrants, Deleted
  <1> QED BY <1>1, <1>2 DEF DeleteGrants, CreateGrants, FailSave

LEMMA BeginOutcome ==
  ASSUME Typed, NEW t \in Savers, NEW f \in Forms, BeginSave(t, f)
  PROVE  /\ save[t].pc = "idle" /\ granted' = granted
         /\ save'[t].pc = "delete" /\ save'[t].role = f[1] /\ save'[t].scope = f[2]
         /\ save'[t].alone = (Peers(t, f) = {})
         /\ \A s \in Savers \ {t} :
              /\ save'[s].pc = save[s].pc /\ SameSet(save'[s], save[s])
              /\ save'[s].alone => save'[s] = save[s] /\ s \notin Peers(t, f)
  <1>1. ASSUME NEW s \in Savers \ {t}
        PROVE  /\ save'[s].pc = save[s].pc /\ SameSet(save'[s], save[s])
               /\ save'[s].alone => save'[s] = save[s] /\ s \notin Peers(t, f)
    <2>1. save[s] \in SaveRecord
      BY DEF Typed, TypeOK
    <2>2. CASE s \in Peers(t, f)
      <3>1. save'[s] = [save[s] EXCEPT !.alone = FALSE]
        BY <2>2 DEF BeginSave
      <3> QED BY <2>1, <3>1 DEF SaveRecord, SameSet
    <2>3. CASE s \notin Peers(t, f)
      BY <2>3 DEF BeginSave, SameSet
    <2> QED BY <2>2, <2>3
  <1> QED BY <1>1 DEF BeginSave

LEMMA LonelyInit == Init => Lonely
  <1>1. Init => \A s \in Savers : save[s].pc = "idle"
    BY DEF Init, NoSave
  <1> QED BY <1>1, TypedInit DEF Lonely, Lone

\* A save that ends leaves the others as they were.
LEMMA EndKeepsLone ==
  ASSUME Typed, NEW t \in Savers, save' = [save EXCEPT ![t] = NoSave],
         NEW s \in Savers, Lone(s),
         save[s].pc = "create" /\ save[s].alone /\ s # t
           => Rows(save[s].role, save[s].scope)' = {}
  PROVE  Lone(s)'
  <1>1. NoSave.pc = "idle" /\ save \in [Savers -> SaveRecord]
    BY DEF NoSave, Typed, TypeOK
  <1>2. save'[t].pc = "idle" /\ \A u \in Savers \ {t} : save'[u] = save[u]
    BY <1>1
  <1> QED BY <1>2 DEF Lone, Rows

LEMMA LoneStep ==
  ASSUME Lonely, NEW t \in Savers, SaveStep(t), NEW s \in Savers
  PROVE  Lone(s)'
  <1>0. Typed /\ Lone(s) /\ Lone(t) /\ save \in [Savers -> SaveRecord]
    BY DEF Lonely, Typed, TypeOK
  <1>1. ASSUME NEW f \in Forms, BeginSave(t, f) PROVE Lone(s)'
    <2>1. CASE s = t
      <3>1. /\ save'[t].pc = "delete" /\ save'[t].role = f[1] /\ save'[t].scope = f[2]
            /\ save'[t].alone = (Peers(t, f) = {})
            /\ \A u \in Savers \ {t} : save'[u].pc = save[u].pc /\ SameSet(save'[u], save[u])
        BY <1>0, <1>1, BeginOutcome
      <3>2. ASSUME Peers(t, f) = {}, NEW u \in Savers \ {t}, save'[u].pc # "idle"
            PROVE  ~SameSet(save'[u], save'[t])
        BY <3>1, <3>2 DEF Peers, SameSet
      <3> QED BY <2>1, <3>1, <3>2 DEF Lone
    <2>2. CASE s # t
      <3> SUFFICES ASSUME save'[s].pc # "idle", save'[s].alone PROVE Lone(s)'
        BY DEF Lone
      <3>1. save'[s] = save[s] /\ s \notin Peers(t, f)
        BY <1>0, <1>1, <2>2, BeginOutcome
      <3>2. ~SameSet(save'[t], save'[s])
        BY <1>0, <1>1, <2>2, <3>1, BeginOutcome DEF Peers, SameSet
      <3>3. \A u \in Savers \ {s, t} : save'[u].pc # "idle" => ~SameSet(save'[u], save'[s])
        BY <1>0, <1>1, <3>1, BeginOutcome DEF Lone, SameSet
      <3>4. save[s].pc = "create" => Rows(save[s].role, save[s].scope)' = {}
        BY <1>0, <1>1, <3>1, BeginOutcome DEF Lone, Rows
      <3> QED BY <3>1, <3>2, <3>3, <3>4 DEF Lone, Rows
    <2> QED BY <2>1, <2>2
  <1>2. CASE DeleteGrants(t)
    <2>1. granted' = granted \ Rows(save[t].role, save[t].scope)
      BY <1>0, <1>2, SaveOutcome
    <2>2. CASE save' = [save EXCEPT ![t] = NoSave]
      <3>1. Lone(s) /\ save[s].pc = "create" /\ save[s].alone /\ s # t
              => Rows(save[s].role, save[s].scope)' = {}
        BY <2>1, <2>2 DEF Lone, Rows
      <3> QED BY <1>0, <2>2, <3>1, EndKeepsLone
    <2>3. ASSUME NEW x, save' = [save EXCEPT ![t] = x], x.pc = "create",
                 SameSet(x, save[t]), x.alone = save[t].alone
          PROVE  Lone(s)'
      <3>0. save[t].pc = "delete"
        BY <1>2 DEF DeleteGrants
      <3>1. save'[t] = x /\ \A u \in Savers \ {t} : save'[u] = save[u]
        BY <1>0, <2>3
      <3>2. \A u \in Savers : /\ SameSet(save'[u], save[u]) /\ save'[u].alone = save[u].alone
                              /\ save'[u].pc # "idle" <=> save[u].pc # "idle"
        BY <2>3, <3>0, <3>1 DEF SameSet
      <3>3. CASE s = t
        <4>1. Rows(x.role, x.scope)' = {}
          BY <2>1, <2>3 DEF Rows, SameSet
        <4> QED BY <1>0, <3>1, <3>2, <3>3, <4>1 DEF Lone, SameSet, Rows
      <3>4. CASE s # t
        BY <1>0, <2>1, <3>1, <3>2, <3>4 DEF Lone, SameSet, Rows
      <3> QED BY <3>3, <3>4
    <2> QED BY <1>0, <1>2, <2>2, <2>3, SaveOutcome
  <1>3. CASE CreateGrants(t)
    <2>1. /\ save[t].pc = "create" /\ save' = [save EXCEPT ![t] = NoSave]
          /\ granted' = granted \cup Posted(t)
      BY <1>0, <1>3, SaveOutcome
    <2>2. ASSUME save[s].pc = "create", save[s].alone, s # t
          PROVE  Rows(save[s].role, save[s].scope)' = {}
      <3>1. ~SameSet(save[t], save[s]) /\ Rows(save[s].role, save[s].scope) = {}
        BY <1>0, <2>1, <2>2 DEF Lone
      <3>2. \A g \in Posted(t) : g[1] = save[t].role /\ g[3] = save[t].scope
        BY DEF Posted
      <3>3. save'[s] = save[s]
        BY <1>0, <2>1, <2>2
      <3> QED BY <2>1, <3>1, <3>2, <3>3 DEF Rows, SameSet
    <2> QED BY <1>0, <2>1, <2>2, EndKeepsLone
  <1>4. CASE FailSave(t)
    <2>1. save' = [save EXCEPT ![t] = NoSave] /\ granted' = granted
      BY <1>0, <1>4, SaveOutcome
    <2>2. save[s].pc = "create" /\ save[s].alone /\ s # t
            => Rows(save[s].role, save[s].scope)' = {}
      BY <1>0, <2>1 DEF Lone, Rows
    <2> QED BY <1>0, <2>1, <2>2, EndKeepsLone
  <1> QED BY <1>1, <1>2, <1>3, <1>4, Zenon DEF SaveStep

LEMMA LonelyStep == Lonely /\ [Next]_vars => Lonely'
  <1>1. ASSUME Lonely, UNCHANGED <<granted, save>> PROVE \A s \in Savers : Lone(s)'
    BY <1>1 DEF Lonely, Lone, Rows
  <1>2. ASSUME Lonely, Step PROVE \A s \in Savers : Lone(s)'
    BY <1>1, <1>2, Steps, MintsOnlyRead, PeopleChangeThemselves, LoneStep
  <1>3. ASSUME Lonely, UNCHANGED vars PROVE \A s \in Savers : Lone(s)'
    BY <1>1, <1>3 DEF vars
  <1> QED BY <1>2, <1>3, TypedStep DEF Lonely, Next

\* What save s posted is what is there, if nobody else's save of the same set was at
\* work meanwhile (assignPermissionsToRole).
THEOREM LoneSavesReplace == Spec => LoneSaveReplaces
  <1>1. ASSUME Lonely, Step, NEW s \in Savers, save[s].alone, save[s].pc # "idle",
               save'[s].pc = "idle", granted' # granted
        PROVE  {g \in granted' : g[1] = save[s].role /\ g[3] = save[s].scope} = Posted(s)
    <2>0. Typed /\ Lone(s) /\ save \in [Savers -> SaveRecord]
      BY <1>1 DEF Lonely, Typed, TypeOK
    <2>1. PICK t \in Savers : SaveStep(t)
      BY <1>1, Steps, MintsOnlyRead, PeopleChangeThemselves
    <2>2. \A f \in Forms : ~BeginSave(t, f)
      BY <1>1, <2>0, BeginOutcome
    <2>3. ~FailSave(t)
      BY <1>1 DEF FailSave
    <2>4. DeleteGrants(t) \/ CreateGrants(t)
      BY <2>1, <2>2, <2>3, Zenon DEF SaveStep
    <2>5. s = t
      BY <1>1, <2>0, <2>4, SaveOutcome
    <2>6. \A g \in Posted(s) : g[1] = save[s].role /\ g[3] = save[s].scope
      BY DEF Posted
    <2>7. CASE CreateGrants(t)
      <3>1. granted' = granted \cup Posted(s) /\ Rows(save[s].role, save[s].scope) = {}
        BY <1>1, <2>0, <2>5, <2>7, SaveOutcome DEF Lone
      <3> QED BY <2>6, <3>1 DEF Rows
    <2>8. CASE DeleteGrants(t)
      <3>1. save[s].rights = {}
        BY <1>1, <2>0, <2>5, <2>8, SaveOutcome
      <3>2. granted' = granted \ Rows(save[s].role, save[s].scope)
        BY <2>0, <2>5, <2>8, SaveOutcome
      <3> QED BY <3>1, <3>2 DEF Rows, Posted
    <2> QED BY <2>4, <2>7, <2>8
  <1>2. Lonely /\ [Next]_vars =>
          [ \A s \in Savers :
              save[s].alone /\ save[s].pc # "idle" /\ save'[s].pc = "idle" /\ granted' # granted =>
                {g \in granted' : g[1] = save[s].role /\ g[3] = save[s].scope} = Posted(s) ]_vars
    BY <1>1 DEF Next, vars
  <1> QED BY LonelyInit, LonelyStep, <1>2, PTL DEF Spec, LoneSaveReplaces

=============================================================================

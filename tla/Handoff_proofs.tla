---------------------------- MODULE Handoff_proofs ----------------------------
(* Theorems about Handoff, for every value of its constants. *)
EXTENDS Handoff, TLAPS

-----------------------------------------------------------------------------
(* Typing *)

\* What a request past its first step points at: ids, never None.
Placed ==
  /\ \A i \in Issuers : issuer[i].pc # "idle" =>
       issuer[i].user \in Users /\ issuer[i].origin \in Origins
  /\ \A r \in Reqs : req[r].pc # "idle" =>
       /\ req[r].code \in Codes
       /\ code[req[r].code].state # "free"
  /\ \A c \in Codes : code[c].state # "free" => code[c].user \in Users

Typed == TypeOK /\ Placed

LEMMA TypedInit == Init => Typed
  BY DEF Init, Typed, TypeOK, Placed, CodeRow, IssueRecord, ExchangeRecord,
     NoCode, NoIssue, NoExchange

LEMMA IssueFields ==
  /\ NoIssue \in IssueRecord
  /\ \A x \in IssueRecord :
       LET y == [x EXCEPT !.pc = "create"]
       IN /\ y \in IssueRecord /\ y.pc = "create"
          /\ y.user = x.user /\ y.origin = x.origin /\ y.now = x.now
  /\ \A u \in Users, o \in Origins, n \in Nat :
       [pc |-> "find", user |-> u, origin |-> o, now |-> n] \in IssueRecord
  BY DEF IssueRecord, NoIssue

LEMMA ExchangeFields ==
  /\ NoExchange \in ExchangeRecord
  /\ \A x \in ExchangeRecord, p \in {"burn", "spend", "session", "refused"} :
       LET y == [x EXCEPT !.pc = p]
       IN /\ y \in ExchangeRecord /\ y.pc = p
          /\ y.code = x.code /\ y.origin = x.origin /\ y.now = x.now
  /\ \A c \in Codes, o \in Origins, n \in Nat :
       [pc |-> "find", code |-> c, origin |-> o, now |-> n] \in ExchangeRecord
  BY DEF ExchangeRecord, NoExchange

LEMMA RowFields ==
  /\ \A x \in CodeRow, s \in {"consumed", "pruned"} :
       LET y == [x EXCEPT !.state = s]
       IN /\ y \in CodeRow /\ y.state = s
          /\ y.user = x.user /\ y.origin = x.origin /\ y.expiresAt = x.expiresAt
  /\ \A u \in Users, o \in Origins, n \in Nat :
       [state |-> "open", user |-> u, origin |-> o, expiresAt |-> n] \in CodeRow
  BY DEF CodeRow

\* The cutoff of a pruning is a time.
LEMMA CutoffIsTime ==
  ASSUME NEW now \in Nat
  PROVE  Cutoff(now) \subseteq Nat
  BY DurationsAreNat DEF Cutoff

-----------------------------------------------------------------------------
(* The steps that write each variable *)

\* Next, split by the part of the service that moves.
IssueStep ==
  \E i \in Issuers :
    \/ \E u \in Users, o \in Origins : BeginIssue(i, u, o)
    \/ FindIssuer(i) \/ CreateCode(i) \/ FailIssue(i)

ExchangeStep ==
  \E r \in Reqs :
    \/ \E c \in Codes \ Lost, o \in Origins : BeginExchange(r, c, o)
    \/ FindCode(r) \/ BurnCode(r) \/ SpendCode(r) \/ SessionForUser(r) \/ FailExchange(r)

OtherStep ==
  \/ \E k \in pruning : Prune(k) \/ PruneFails(k)
  \/ \E u \in Users : DeactivateUser(u) \/ ReactivateUser(u) \/ DeleteUser(u)
  \/ Tick
  \/ UNCHANGED vars

LEMMA Steps == [Next]_vars <=> IssueStep \/ ExchangeStep \/ OtherStep
  BY DEF Next, IssueStep, ExchangeStep, OtherStep

LEMMA TypedIssue ==
  ASSUME Typed, IssueStep
  PROVE  Typed'
<1> PICK i \in Issuers :
      \/ \E u \in Users, o \in Origins : BeginIssue(i, u, o)
      \/ FindIssuer(i) \/ CreateCode(i) \/ FailIssue(i)
  BY DEF IssueStep
<1> USE DEF Typed, TypeOK, Placed
<1>1. CASE \E u \in Users, o \in Origins : BeginIssue(i, u, o)
  BY <1>1, IssueFields DEF BeginIssue
<1>2. CASE FindIssuer(i)
  BY <1>2, IssueFields DEF FindIssuer, NoIssue
<1>3. CASE CreateCode(i)
  <2> DEFINE row == [state |-> "open", user |-> issuer[i].user,
                     origin |-> issuer[i].origin, expiresAt |-> issuer[i].now + TTL]
  <2>1. issuer[i].now \in Nat /\ issuer[i].user \in Users /\ issuer[i].origin \in Origins
    BY <1>3 DEF CreateCode, IssueRecord
  <2>2. row \in CodeRow
    BY <2>1, RowFields, DurationsAreNat
  <2>3. row.state = "open" /\ row.user \in Users
    BY <2>1
  <2>4. PICK c \in Codes : code[c].state = "free" /\ code' = [code EXCEPT ![c] = row]
    BY <1>3 DEF CreateCode
  <2>5. pruning' \subseteq Nat
    BY <1>3, <2>1, CutoffIsTime DEF CreateCode
  <2>6. issuer' = [issuer EXCEPT ![i] = NoIssue] /\ UNCHANGED <<clock, user, req, taken, sessions>>
    BY <1>3 DEF CreateCode
  <2> HIDE DEF row
  <2> QED
    BY <2>2, <2>3, <2>4, <2>5, <2>6, IssueFields DEF NoIssue
<1>4. CASE FailIssue(i)
  BY <1>4, IssueFields DEF FailIssue, NoIssue
<1> QED
  BY <1>1, <1>2, <1>3, <1>4

\* What a step may do to the rows without untyping anything.
RowsKept ==
  /\ code' \in [Codes -> CodeRow]
  /\ \A c \in Codes : code[c].state # "free" =>
       /\ code'[c].state # "free"
       /\ code'[c].user = code[c].user
  /\ \A c \in Codes : code'[c].state # "free" => code[c].state # "free"

LEMMA ConsumedKeepsRows ==
  ASSUME Typed, NEW c \in Codes, code[c].state # "free",
         code' = code \/ code' = [code EXCEPT ![c].state = "consumed"]
  PROVE  RowsKept
<1>1. code \in [Codes -> CodeRow]
  BY DEF Typed, TypeOK
<1>2. CASE code' = code
  BY <1>1, <1>2 DEF RowsKept
<1>3. CASE code' = [code EXCEPT ![c].state = "consumed"]
  <2> DEFINE row == [code[c] EXCEPT !.state = "consumed"]
  <2>1. row \in CodeRow /\ row.state = "consumed" /\ row.user = code[c].user
    BY <1>1, RowFields
  <2>2. code' = [code EXCEPT ![c] = row]
    BY <1>3
  <2> HIDE DEF row
  <2> QED
    BY <1>1, <2>1, <2>2 DEF RowsKept
<1> QED
  BY <1>2, <1>3

\* One request moves to x and the rows are kept.
LEMMA TypedMove ==
  ASSUME Typed, RowsKept,
         NEW r \in Reqs, NEW x \in ExchangeRecord,
         req' = [req EXCEPT ![r] = x],
         x.pc # "idle" => x.code \in Codes /\ code[x.code].state # "free",
         taken' \in [Codes -> Nat], sessions' \in [Codes -> Nat],
         UNCHANGED <<clock, user, issuer, pruning>>
  PROVE  Typed'
<1>1. TypeOK'
  BY DEF Typed, TypeOK, RowsKept
<1>2. \A q \in Reqs : req'[q].pc # "idle" =>
        req'[q].code \in Codes /\ code'[req'[q].code].state # "free"
  <2> SUFFICES ASSUME NEW q \in Reqs, req'[q].pc # "idle"
               PROVE  req'[q].code \in Codes /\ code'[req'[q].code].state # "free"
    OBVIOUS
  <2>1. CASE q = r
    BY <2>1 DEF Typed, TypeOK, RowsKept
  <2>2. CASE q # r
    BY <2>2 DEF Typed, TypeOK, Placed, RowsKept
  <2> QED
    BY <2>1, <2>2
<1>3. \A c \in Codes : code'[c].state # "free" => code'[c].user \in Users
  BY DEF Typed, Placed, RowsKept
<1> QED
  BY <1>1, <1>2, <1>3 DEF Typed, Placed

LEMMA TypedExchange ==
  ASSUME Typed, ExchangeStep
  PROVE  Typed'
<1> PICK r \in Reqs :
      \/ \E c \in Codes \ Lost, o \in Origins : BeginExchange(r, c, o)
      \/ FindCode(r) \/ BurnCode(r) \/ SpendCode(r) \/ SessionForUser(r) \/ FailExchange(r)
  BY DEF ExchangeStep
<1> DEFINE At(p) == [req[r] EXCEPT !.pc = p]
<1>a. /\ req[r] \in ExchangeRecord
      /\ taken \in [Codes -> Nat] /\ sessions \in [Codes -> Nat]
      /\ code \in [Codes -> CodeRow] /\ clock \in Nat
  BY DEF Typed, TypeOK
<1>b. req[r].pc # "idle" => req[r].code \in Codes /\ code[req[r].code].state # "free"
  BY DEF Typed, Placed
<1>c. \A p \in {"burn", "spend", "session", "refused"} :
        At(p) \in ExchangeRecord /\ At(p).pc = p /\ At(p).code = req[r].code
  BY <1>a, ExchangeFields
<1>d. UNCHANGED code => RowsKept
  BY <1>a DEF RowsKept
<1>e. NoExchange \in ExchangeRecord /\ NoExchange.pc = "idle"
  BY ExchangeFields DEF NoExchange
<1> HIDE DEF At
<1>1. CASE \E c \in Codes \ Lost, o \in Origins : BeginExchange(r, c, o)
  <2> PICK c \in Codes \ Lost, o \in Origins : BeginExchange(r, c, o)
    BY <1>1
  <2> DEFINE x == [pc |-> "find", code |-> c, origin |-> o, now |-> clock]
  <2>1. x \in ExchangeRecord /\ x.code = c
    BY <1>a, ExchangeFields
  <2>2. /\ code[c].state # "free"
        /\ req' = [req EXCEPT ![r] = x]
        /\ UNCHANGED <<clock, user, code, issuer, pruning, taken, sessions>>
    BY DEF BeginExchange
  <2> HIDE DEF x
  <2> QED
    BY <1>a, <1>d, <2>1, <2>2, TypedMove
<1>2. CASE FindCode(r)
  <2>1. PICK p \in {"burn", "spend", "refused"} : req' = [req EXCEPT ![r] = At(p)]
    BY <1>2 DEF FindCode, Refuse, At
  <2>2. req[r].pc = "find" /\ UNCHANGED <<clock, user, code, issuer, pruning, taken, sessions>>
    BY <1>2 DEF FindCode
  <2> QED
    BY <1>a, <1>b, <1>c, <1>d, <2>1, <2>2, TypedMove
<1>3. CASE BurnCode(r)
  <2>1. req[r].pc = "burn" /\ req' = [req EXCEPT ![r] = At("refused")]
    BY <1>3 DEF BurnCode, Refuse, At
  <2>2. code' = code \/ code' = [code EXCEPT ![req[r].code].state = "consumed"]
    BY <1>3 DEF BurnCode
  <2>3. UNCHANGED <<clock, user, issuer, pruning, taken, sessions>>
    BY <1>3 DEF BurnCode
  <2>4. RowsKept
    BY <1>b, <2>1, <2>2, ConsumedKeepsRows
  <2> QED
    BY <1>a, <1>b, <1>c, <2>1, <2>3, <2>4, TypedMove
<1>4. CASE SpendCode(r)
  <2>1. req[r].pc = "spend"
    BY <1>4 DEF SpendCode
  <2>2. PICK p \in {"session", "refused"} : req' = [req EXCEPT ![r] = At(p)]
    BY <1>4 DEF SpendCode, Refuse, At
  <2>3. code' = code \/ code' = [code EXCEPT ![req[r].code].state = "consumed"]
    BY <1>4 DEF SpendCode
  <2>4. UNCHANGED <<clock, user, issuer, pruning, sessions>>
    BY <1>4 DEF SpendCode
  <2>5. taken' \in [Codes -> Nat]
    BY <1>4, <1>a, <1>b, <2>1 DEF SpendCode
  <2>6. RowsKept
    BY <1>b, <2>1, <2>3, ConsumedKeepsRows
  <2> QED
    BY <1>a, <1>b, <1>c, <2>1, <2>2, <2>4, <2>5, <2>6, TypedMove
<1>5. CASE SessionForUser(r)
  <2>1. req[r].pc = "session" /\ UNCHANGED <<clock, user, code, issuer, pruning, taken>>
    BY <1>5 DEF SessionForUser
  <2>2. \/ req' = [req EXCEPT ![r] = At("refused")]
        \/ req' = [req EXCEPT ![r] = NoExchange]
    BY <1>5 DEF SessionForUser, Refuse, Forget, At
  <2>3. sessions' \in [Codes -> Nat]
    BY <1>5, <1>a, <1>b, <2>1 DEF SessionForUser
  <2>4. CASE req' = [req EXCEPT ![r] = At("refused")]
    BY <1>a, <1>b, <1>c, <1>d, <2>1, <2>3, <2>4, TypedMove
  <2>5. CASE req' = [req EXCEPT ![r] = NoExchange]
    BY <1>a, <1>d, <1>e, <2>1, <2>3, <2>5, TypedMove
  <2> QED
    BY <2>2, <2>4, <2>5
<1>6. CASE FailExchange(r)
  <2>1. /\ req' = [req EXCEPT ![r] = NoExchange]
        /\ UNCHANGED <<clock, user, code, issuer, pruning, taken, sessions>>
    BY <1>6 DEF FailExchange, Forget
  <2> QED
    BY <1>a, <1>d, <1>e, <2>1, TypedMove
<1> QED
  BY <1>1, <1>2, <1>3, <1>4, <1>5, <1>6

LEMMA TypedOther ==
  ASSUME Typed, OtherStep
  PROVE  Typed'
<1> USE DEF Typed, TypeOK, Placed
<1>1. CASE \E k \in pruning : Prune(k) \/ PruneFails(k)
  <2>1. PICK k \in pruning : Prune(k) \/ PruneFails(k)
    BY <1>1
  <2>2. CASE PruneFails(k)
    BY <2>2 DEF PruneFails
  <2>3. CASE Prune(k)
    <3> DEFINE row(c) == IF code[c].state \in {"open", "consumed"} /\ code[c].expiresAt < k
                         THEN [code[c] EXCEPT !.state = "pruned"] ELSE code[c]
    <3>1. \A c \in Codes : /\ row(c) \in CodeRow /\ row(c).user = code[c].user
                           /\ row(c).state = "free" <=> code[c].state = "free"
      BY RowFields
    <3>2. /\ code' = [c \in Codes |-> row(c)] /\ pruning' = pruning \ {k}
          /\ UNCHANGED <<clock, user, issuer, req, taken, sessions>>
      BY <2>3 DEF Prune
    <3> HIDE DEF row
    <3>3. TypeOK'
      BY <3>1, <3>2
    <3>4. Placed'
      BY <3>1, <3>2
    <3> QED
      BY <3>3, <3>4
  <2> QED
    BY <2>1, <2>2, <2>3
<1>2. CASE \E u \in Users : DeactivateUser(u) \/ ReactivateUser(u) \/ DeleteUser(u)
  BY <1>2 DEF DeactivateUser, ReactivateUser, DeleteUser, SetUser
<1>3. CASE Tick
  BY <1>3 DEF Tick
<1>4. CASE UNCHANGED vars
  BY <1>4 DEF vars
<1> QED
  BY <1>1, <1>2, <1>3, <1>4 DEF OtherStep

LEMMA TypedStep == Typed /\ [Next]_vars => Typed'
  BY Steps, TypedIssue, TypedExchange, TypedOther

\* Every variable keeps its type, whatever requests overlap and wherever they fail.
THEOREM TypeCorrect == Spec => []TypeOK
<1>1. Spec => []Typed
  BY TypedInit, TypedStep, PTL DEF Spec
<1>2. Typed => TypeOK
  BY DEF Typed
<1> QED
  BY <1>1, <1>2, PTL

-----------------------------------------------------------------------------
(* How a row and a request may move in one step *)

\* An issued row keeps its origin and its time; once closed it never opens again.
LEMMA RowMoves ==
  ASSUME Typed, [Next]_vars, NEW c \in Codes, code[c].state # "free"
  PROVE  /\ code'[c].origin = code[c].origin
         /\ code'[c].expiresAt = code[c].expiresAt
         /\ code'[c].state = "open" => code[c].state = "open"
         /\ code'[c].state # "free"
<1>1. code \in [Codes -> CodeRow]
  BY DEF Typed, TypeOK
<1>2. CASE UNCHANGED code
  BY <1>2
<1>3. ASSUME NEW i \in Issuers, CreateCode(i)
      PROVE  code'[c] = code[c]
  BY <1>1, <1>3 DEF CreateCode
<1>4. ASSUME NEW k \in pruning, Prune(k)
      PROVE  code'[c] \in {code[c], [code[c] EXCEPT !.state = "pruned"]}
  BY <1>1, <1>4 DEF Prune
<1>5. ASSUME NEW r \in Reqs, BurnCode(r) \/ SpendCode(r)
      PROVE  code'[c] \in {code[c], [code[c] EXCEPT !.state = "consumed"]}
  <2>1. code' = code \/ code' = [code EXCEPT ![req[r].code].state = "consumed"]
    BY <1>5 DEF BurnCode, SpendCode
  <2> QED
    BY <1>1, <2>1
<1>6. \/ UNCHANGED code
      \/ \E i \in Issuers : CreateCode(i)
      \/ \E k \in pruning : Prune(k)
      \/ \E r \in Reqs : BurnCode(r) \/ SpendCode(r)
  BY DEF Next, vars, BeginIssue, FindIssuer, FailIssue, PruneFails, BeginExchange, FindCode,
     SessionForUser, FailExchange, DeactivateUser, ReactivateUser, DeleteUser, SetUser, Tick
<1>7. code[c] \in CodeRow
  BY <1>1
<1>8. code'[c] \in {code[c], [code[c] EXCEPT !.state = "consumed"],
                   [code[c] EXCEPT !.state = "pruned"]}
  BY <1>3, <1>4, <1>5, <1>6
<1> QED
  BY <1>7, <1>8, RowFields

\* A request moves only by a step of its own.
LEMMA RequestMoves ==
  ASSUME Typed, [Next]_vars, NEW q \in Reqs, req'[q] # req[q]
  PROVE  \/ \E c \in Codes \ Lost, o \in Origins : BeginExchange(q, c, o)
         \/ FindCode(q) \/ BurnCode(q) \/ SpendCode(q) \/ SessionForUser(q) \/ FailExchange(q)
<1>1. req \in [Reqs -> ExchangeRecord]
  BY DEF Typed, TypeOK
<1>2. ~IssueStep /\ ~OtherStep
  BY DEF IssueStep, OtherStep, vars, BeginIssue, FindIssuer, CreateCode, FailIssue, Prune,
     PruneFails, DeactivateUser, ReactivateUser, DeleteUser, SetUser, Tick
<1>3. PICK r \in Reqs :
        \/ \E c \in Codes \ Lost, o \in Origins : BeginExchange(r, c, o)
        \/ FindCode(r) \/ BurnCode(r) \/ SpendCode(r) \/ SessionForUser(r) \/ FailExchange(r)
  BY <1>2, Steps DEF ExchangeStep
<1>4. \E x : req' = [req EXCEPT ![r] = x]
  BY <1>1, <1>3 DEF BeginExchange, FindCode, BurnCode, SpendCode, SessionForUser, FailExchange,
     Refuse, Forget
<1>5. r = q
  BY <1>1, <1>4
<1> QED
  BY <1>3, <1>5

-----------------------------------------------------------------------------
(* A refusal leaves nothing to try again *)

\* A request that spends comes from the code's origin, one that signs in has
\* closed the code.
SettledReq(r) ==
  LET row == code[req[r].code]
  IN /\ req[r].pc = "spend" => req[r].origin = row.origin
     /\ req[r].pc = "session" => row.state # "open"
     /\ req[r].pc = "refused" =>
          row.state # "open" \/ (req[r].origin = row.origin /\ req[r].now >= row.expiresAt)

Settled == \A r \in Reqs : SettledReq(r)

LEMMA SettledStep == Typed /\ Settled /\ [Next]_vars => Settled'
<1> SUFFICES ASSUME Typed, Settled, [Next]_vars, NEW q \in Reqs
             PROVE  SettledReq(q)'
  BY DEF Settled
<1> DEFINE c == req[q].code
<1>1. /\ req \in [Reqs -> ExchangeRecord]
      /\ req[q] \in ExchangeRecord
      /\ code \in [Codes -> CodeRow]
      /\ clock \in Nat
  BY DEF Typed, TypeOK
<1>2. req[q].pc # "idle" => c \in Codes /\ code[c].state # "free" /\ code[c] \in CodeRow
  BY <1>1 DEF Typed, Placed
<1>3. req[q].pc # "idle" =>
        /\ code'[c].origin = code[c].origin
        /\ code'[c].expiresAt = code[c].expiresAt
        /\ code'[c].state = "open" => code[c].state = "open"
  BY <1>2, RowMoves
<1>4. SettledReq(q)
  BY DEF Settled
<1>5. \A p \in {"burn", "spend", "session", "refused"} :
        LET x == [req[q] EXCEPT !.pc = p]
        IN x.pc = p /\ x.code = c /\ x.origin = req[q].origin /\ x.now = req[q].now
  BY <1>1, ExchangeFields
<1>6. CASE req'[q] = req[q]
  BY <1>1, <1>3, <1>4, <1>6 DEF SettledReq, ExchangeRecord
<1>7. CASE \E d \in Codes \ Lost, o \in Origins : BeginExchange(q, d, o)
  <2>1. req'[q].pc = "find"
    BY <1>1, <1>7 DEF BeginExchange
  <2> QED
    BY <2>1 DEF SettledReq
<1>8. CASE FindCode(q)
  <2>1. CASE code[c].state = "pruned"
    <3>1. req'[q] = [req[q] EXCEPT !.pc = "refused"] /\ code' = code
      BY <1>1, <1>8, <2>1 DEF FindCode, Refuse
    <3> QED
      BY <1>5, <2>1, <3>1 DEF SettledReq
  <2>2. CASE code[c].state # "pruned"
    <3>1. /\ code' = code
          /\ req'[q] = [req[q] EXCEPT !.pc = IF code[c].origin # req[q].origin
                                            THEN "burn" ELSE "spend"]
      BY <1>1, <1>8, <2>2 DEF FindCode
    <3> QED
      BY <1>5, <3>1 DEF SettledReq
  <2> QED
    BY <2>1, <2>2
<1>9. CASE BurnCode(q)
  <2>1. req'[q] = [req[q] EXCEPT !.pc = "refused"] /\ req[q].pc = "burn"
    BY <1>1, <1>9 DEF BurnCode, Refuse
  <2>2. code'[c].state # "open"
    BY <1>1, <1>2, <1>9, <2>1 DEF BurnCode, CodeRow
  <2> QED
    BY <1>5, <2>1, <2>2 DEF SettledReq
<1>10. CASE SpendCode(q)
  <2>1. req[q].pc = "spend" /\ req[q].origin = code[c].origin
    BY <1>4, <1>10 DEF SpendCode, SettledReq
  <2>2. CASE code[c].state = "open" /\ code[c].expiresAt > req[q].now
    <3>1. req'[q] = [req[q] EXCEPT !.pc = "session"]
      BY <1>1, <1>10, <2>2 DEF SpendCode
    <3>2. code'[c].state # "open"
      BY <1>1, <1>2, <1>10, <2>1, <2>2 DEF SpendCode, CodeRow
    <3> QED
      BY <1>5, <3>1, <3>2 DEF SettledReq
  <2>3. CASE ~(code[c].state = "open" /\ code[c].expiresAt > req[q].now)
    <3>1. req'[q] = [req[q] EXCEPT !.pc = "refused"] /\ code' = code
      BY <1>1, <1>10, <2>3 DEF SpendCode, Refuse
    <3>2. code[c].state # "open" \/ req[q].now >= code[c].expiresAt
      BY <1>1, <1>2, <2>1, <2>3 DEF CodeRow, ExchangeRecord
    <3> QED
      BY <1>5, <2>1, <3>1, <3>2 DEF SettledReq
  <2> QED
    BY <2>2, <2>3
<1>11. CASE SessionForUser(q)
  <2>1. /\ req[q].pc = "session" /\ code' = code
        /\ \/ req'[q] = [req[q] EXCEPT !.pc = "refused"]
           \/ req'[q] = NoExchange
    BY <1>1, <1>11 DEF SessionForUser, Refuse, Forget
  <2>2. code[c].state # "open"
    BY <1>4, <2>1 DEF SettledReq
  <2>3. CASE req'[q] = [req[q] EXCEPT !.pc = "refused"]
    BY <1>5, <2>1, <2>2, <2>3 DEF SettledReq
  <2>4. CASE req'[q] = NoExchange
    <3>1. req'[q].pc = "idle"
      BY <2>4 DEF NoExchange
    <3> QED
      BY <3>1 DEF SettledReq
  <2> QED
    BY <2>1, <2>3, <2>4
<1>12. CASE FailExchange(q)
  <2>1. req'[q].pc = "idle"
    BY <1>1, <1>12 DEF FailExchange, Forget, NoExchange
  <2> QED
    BY <2>1 DEF SettledReq
<1> QED
  BY <1>6, <1>7, <1>8, <1>9, <1>10, <1>11, <1>12, RequestMoves

\* Whoever presents a code and is refused in time has closed it, or found it
\* closed: at every number of requests, codes and origins.
THEOREM RefusalsCloseCodes == Spec => []RefusedMeansClosed
<1>1. Init => Settled
  BY DEF Init, Settled, SettledReq, NoExchange
<1>2. Settled => RefusedMeansClosed
  BY DEF Settled, SettledReq, RefusedMeansClosed
<1> QED
  BY TypedInit, TypedStep, SettledStep, <1>1, <1>2, PTL DEF Spec

-----------------------------------------------------------------------------
(* Pruning takes expired rows only *)

\* No request, and so no cutoff, is of the future.
Punctual ==
  /\ \A i \in Issuers : issuer[i].now <= clock
  /\ \A k \in pruning : k <= clock
  /\ PrunedIsExpired

LEMMA PunctualStep == Typed /\ Punctual /\ [Next]_vars => Punctual'
<1> SUFFICES ASSUME Typed, Punctual, [Next]_vars
             PROVE  Punctual'
  OBVIOUS
<1>1. /\ clock \in Nat /\ clock' \in Nat /\ clock <= clock'
      /\ pruning \subseteq Nat
      /\ issuer \in [Issuers -> IssueRecord]
      /\ code \in [Codes -> CodeRow]
      /\ PrunedIsExpired
      /\ \A k \in pruning : k <= clock
      /\ \A i \in Issuers : issuer[i].now <= clock
  <2>1. clock' = clock \/ clock' = clock + 1
    BY DEF Next, vars, BeginIssue, FindIssuer, CreateCode, FailIssue, Prune, PruneFails,
       BeginExchange, FindCode, BurnCode, SpendCode, SessionForUser, FailExchange,
       DeactivateUser, ReactivateUser, DeleteUser, SetUser, Tick
  <2> QED
    BY <2>1 DEF Typed, TypeOK, Punctual
<1>2. \A i \in Issuers : issuer'[i].now <= clock'
  <2> SUFFICES ASSUME NEW i \in Issuers
               PROVE  issuer'[i].now <= clock'
    OBVIOUS
  <2>1. issuer[i].now \in Nat /\ issuer[i].now <= clock
    BY <1>1 DEF IssueRecord
  <2>2. issuer'[i].now \in {issuer[i].now, clock, 0}
    <3>1. CASE UNCHANGED issuer
      BY <3>1
    <3>2. ASSUME NEW j \in Issuers, NEW u \in Users, NEW o \in Origins, BeginIssue(j, u, o)
          PROVE  issuer'[i].now \in {issuer[i].now, clock}
      BY <1>1, <3>2 DEF BeginIssue
    <3>3. ASSUME NEW j \in Issuers, FindIssuer(j)
          PROVE  issuer'[i].now \in {issuer[i].now, 0}
      BY <1>1, <3>3, IssueFields DEF FindIssuer, NoIssue
    <3>4. ASSUME NEW j \in Issuers, CreateCode(j) \/ FailIssue(j)
          PROVE  issuer'[i].now \in {issuer[i].now, 0}
      BY <1>1, <3>4 DEF CreateCode, FailIssue, NoIssue
    <3>5. UNCHANGED issuer \/ IssueStep
      BY DEF Next, vars, IssueStep, Prune, PruneFails, BeginExchange, FindCode, BurnCode,
         SpendCode, SessionForUser, FailExchange, DeactivateUser, ReactivateUser, DeleteUser,
         SetUser, Tick
    <3> QED
      BY <3>1, <3>2, <3>3, <3>4, <3>5 DEF IssueStep
  <2> QED
    BY <1>1, <2>1, <2>2
<1>3. \A k \in pruning' : k <= clock'
  <2>1. ASSUME NEW i \in Issuers, CreateCode(i), NEW k \in Cutoff(issuer[i].now)
        PROVE  k \in Nat /\ k <= clock
    <3>1. issuer[i].now \in Nat /\ issuer[i].now <= clock
      BY <1>1 DEF IssueRecord
    <3> QED
      BY <1>1, <2>1, <3>1, DurationsAreNat DEF Cutoff
  <2>2. \/ pruning' \subseteq pruning
        \/ \E i \in Issuers : CreateCode(i) /\ pruning' = pruning \cup Cutoff(issuer[i].now)
    BY DEF Next, vars, BeginIssue, FindIssuer, CreateCode, FailIssue, Prune, PruneFails,
       BeginExchange, FindCode, BurnCode, SpendCode, SessionForUser, FailExchange,
       DeactivateUser, ReactivateUser, DeleteUser, SetUser, Tick
  <2>3. \A k \in pruning' : k \in Nat /\ k <= clock
    BY <1>1, <2>1, <2>2
  <2> QED
    BY <1>1, <2>3
<1>4. PrunedIsExpired'
  <2> SUFFICES ASSUME NEW c \in Codes, code'[c].state = "pruned"
               PROVE  code'[c].expiresAt < clock'
    BY DEF PrunedIsExpired
  <2>1. code[c] \in CodeRow /\ code[c].expiresAt \in Nat
    BY <1>1 DEF CodeRow
  <2>2. CASE code[c].state = "pruned"
    BY <1>1, <2>1, <2>2, RowMoves DEF PrunedIsExpired
  <2>3. CASE code[c].state # "pruned"
    <3>1. ~ \E i \in Issuers : CreateCode(i)
      BY <1>1, <2>1, <2>3 DEF CreateCode
    <3>2. ~ \E r \in Reqs : BurnCode(r) \/ SpendCode(r)
      <4> SUFFICES ASSUME NEW r \in Reqs,
                          code' = code \/ code' = [code EXCEPT ![req[r].code].state = "consumed"]
                   PROVE  FALSE
        BY DEF BurnCode, SpendCode
      <4> QED
        BY <1>1, <2>1, <2>3, RowFields
    <3>3. PICK k \in pruning : Prune(k)
      BY <2>3, <3>1, <3>2 DEF Next, vars, BeginIssue, FindIssuer, FailIssue, PruneFails,
         BeginExchange, FindCode, SessionForUser, FailExchange, DeactivateUser, ReactivateUser,
         DeleteUser, SetUser, Tick
    <3>4. code[c].state # "free" /\ code[c].expiresAt < k
      BY <2>3, <3>3 DEF Prune
    <3>5. k \in Nat /\ k <= clock
      BY <1>1
    <3> QED
      BY <1>1, <2>1, <3>4, <3>5, RowMoves
  <2> QED
    BY <2>2, <2>3
<1> QED
  BY <1>2, <1>3, <1>4 DEF Punctual

\* However late a pruning runs, it takes no row a request arriving now could
\* still use.
THEOREM PruningIsSafe == Spec => []PrunedIsExpired
<1>1. Init => Punctual
  BY DEF Init, Punctual, PrunedIsExpired, NoIssue, NoCode
<1>2. Punctual => PrunedIsExpired
  BY DEF Punctual
<1> QED
  BY TypedInit, TypedStep, PunctualStep, <1>1, <1>2, PTL DEF Spec

-----------------------------------------------------------------------------
(* Handoff implements OneTimeCode *)

\* A code is taken once, while open, by the one request that may still sign in
\* with it.
Spent ==
  /\ \A c \in Codes : code[c].state \in {"free", "open"} => taken[c] = 0
  /\ \A c \in Codes : taken[c] = 0 => sessions[c] = 0
  /\ \A r \in Reqs : req[r].pc = "session" =>
       taken[req[r].code] > 0 /\ sessions[req[r].code] = 0
  /\ \A q, r \in Reqs :
       req[q].pc = "session" /\ req[r].pc = "session" /\ req[q].code = req[r].code => q = r

LEMMA SignInEnds ==
  ASSUME Typed, NEW q \in Reqs, SessionForUser(q)
  PROVE  req'[q].pc # "session"
<1>1. req \in [Reqs -> ExchangeRecord] /\ req[q] \in ExchangeRecord
  BY DEF Typed, TypeOK
<1>2. CASE req' = [req EXCEPT ![q] = [@ EXCEPT !.pc = "refused"]]
  <2>1. req'[q] = [req[q] EXCEPT !.pc = "refused"]
    BY <1>1, <1>2
  <2> QED
    BY <1>1, <2>1, ExchangeFields
<1>3. CASE req' = [req EXCEPT ![q] = NoExchange]
  BY <1>1, <1>3 DEF NoExchange
<1> QED
  BY <1>2, <1>3 DEF SessionForUser, Refuse, Forget

\* Only the conditional update puts a request into sign-in.
LEMMA SignIns ==
  ASSUME Typed, [Next]_vars, NEW q \in Reqs, req'[q].pc = "session"
  PROVE  \/ req'[q] = req[q] /\ ~SpendCode(q) /\ ~SessionForUser(q)
         \/ SpendCode(q)
<1>1. req \in [Reqs -> ExchangeRecord] /\ req[q] \in ExchangeRecord
  BY DEF Typed, TypeOK
<1>2. CASE req'[q] = req[q]
  <2>1. ~SpendCode(q)
    BY <1>2 DEF SpendCode
  <2>2. ~SessionForUser(q)
    BY SignInEnds
  <2> QED
    BY <1>2, <2>1, <2>2
<1>3. CASE req'[q] # req[q]
  <2>1. ~ \E c \in Codes \ Lost, o \in Origins : BeginExchange(q, c, o)
    BY <1>1 DEF BeginExchange
  <2>2. ~FindCode(q)
    <3> SUFFICES ASSUME FindCode(q)
                 PROVE  FALSE
      OBVIOUS
    <3>1. PICK p \in {"burn", "spend", "refused"} : req'[q] = [req[q] EXCEPT !.pc = p]
      BY <1>1 DEF FindCode, Refuse
    <3> QED
      BY <1>1, <3>1, ExchangeFields
  <2>3. ~BurnCode(q)
    BY <1>1, ExchangeFields DEF BurnCode, Refuse
  <2>4. ~SessionForUser(q)
    BY SignInEnds
  <2>5. ~FailExchange(q)
    BY <1>1 DEF FailExchange, Forget, NoExchange
  <2> QED
    BY <1>3, <2>1, <2>2, <2>3, <2>4, <2>5, RequestMoves
<1> QED
  BY <1>2, <1>3

LEMMA SpentStep == Typed /\ Spent /\ [Next]_vars => Spent'
<1> SUFFICES ASSUME Typed, Spent, [Next]_vars
             PROVE  Spent'
  OBVIOUS
<1>1. /\ req \in [Reqs -> ExchangeRecord]
      /\ code \in [Codes -> CodeRow] /\ code' \in [Codes -> CodeRow]
      /\ taken \in [Codes -> Nat] /\ sessions \in [Codes -> Nat]
  BY TypedStep DEF Typed, TypeOK
<1>2. \A r \in Reqs : req[r].pc # "idle" => req[r].code \in Codes /\ code[req[r].code].state # "free"
  BY DEF Typed, Placed
<1>3. ASSUME NEW r \in Reqs, SpendCode(r), req'[r].pc = "session"
      PROVE  Spent'
  <2> DEFINE c == req[r].code
  <2>1. req'[r] = [req[r] EXCEPT !.pc = "session"]
    BY <1>1, <1>3 DEF SpendCode, Refuse
  <2>2. c \in Codes /\ req'[r].code = c
    BY <1>1, <1>2, <1>3, <2>1 DEF SpendCode, ExchangeRecord
  <2>3. code[c].state = "open"
    <3> SUFFICES ASSUME code[c].state # "open"
                 PROVE  FALSE
      OBVIOUS
    <3>1. req' = [req EXCEPT ![r] = [@ EXCEPT !.pc = "refused"]]
      BY <1>3 DEF SpendCode, Refuse
    <3>2. req'[r] = [req[r] EXCEPT !.pc = "refused"]
      BY <1>1, <3>1
    <3> QED
      BY <1>1, <1>3, <3>2, ExchangeFields
  <2>4. taken[c] = 0 /\ sessions[c] = 0
    BY <2>2, <2>3 DEF Spent
  <2>5. /\ code' = [code EXCEPT ![c].state = "consumed"]
        /\ taken' = [taken EXCEPT ![c] = @ + 1]
        /\ sessions' = sessions
        /\ \A q \in Reqs : q # r => req'[q] = req[q]
    <3>1. req'[r].pc # "refused"
      BY <1>3
    <3>2. ~ (req' = [req EXCEPT ![r] = [@ EXCEPT !.pc = "refused"]])
      <4> SUFFICES ASSUME req' = [req EXCEPT ![r] = [@ EXCEPT !.pc = "refused"]]
                   PROVE  FALSE
        OBVIOUS
      <4>1. req'[r] = [req[r] EXCEPT !.pc = "refused"]
        BY <1>1
      <4> QED
        BY <1>1, <3>1, <4>1, ExchangeFields
    <3> QED
      BY <1>1, <1>3, <3>2 DEF SpendCode, Refuse
  <2>6. code'[c].state = "consumed" /\ \A d \in Codes : d # c => code'[d] = code[d]
    BY <1>1, <2>2, <2>5 DEF CodeRow
  <2>7. taken'[c] = 1 /\ \A d \in Codes : d # c => taken'[d] = taken[d]
    BY <1>1, <2>2, <2>4, <2>5
  <2>8. \A q \in Reqs : q # r /\ req[q].pc = "session" => req[q].code # c
    BY <2>2, <2>4 DEF Spent
  <2> HIDE DEF c
  <2>9. \A d \in Codes : code'[d].state \in {"free", "open"} => taken'[d] = 0
    BY <2>6, <2>7 DEF Spent
  <2>10. \A d \in Codes : taken'[d] = 0 => sessions'[d] = 0
    BY <2>5, <2>7 DEF Spent
  <2>11. \A q \in Reqs : req'[q].pc = "session" =>
           taken'[req'[q].code] > 0 /\ sessions'[req'[q].code] = 0
    BY <1>2, <2>2, <2>4, <2>5, <2>7, <2>8 DEF Spent
  <2>12. \A p, q \in Reqs :
           req'[p].pc = "session" /\ req'[q].pc = "session" /\ req'[p].code = req'[q].code => p = q
    BY <2>2, <2>5, <2>8 DEF Spent
  <2> QED
    BY <2>9, <2>10, <2>11, <2>12 DEF Spent
<1>4. CASE ~ \E r \in Reqs : SpendCode(r) /\ req'[r].pc = "session"
  <2>1. \A q \in Reqs : req'[q].pc = "session" =>
          req'[q] = req[q] /\ ~SessionForUser(q)
    BY <1>4, SignIns
  <2>2. taken' = taken
    <3>1. ASSUME NEW r \in Reqs, SpendCode(r)
          PROVE  taken' = taken
      <4>1. CASE req' = [req EXCEPT ![r] = [@ EXCEPT !.pc = "session"]]
        <5>1. req'[r] = [req[r] EXCEPT !.pc = "session"]
          BY <1>1, <4>1
        <5>2. req'[r].pc = "session"
          BY <1>1, <5>1, ExchangeFields
        <5> QED
          BY <1>4, <3>1, <5>2
      <4>2. CASE req' # [req EXCEPT ![r] = [@ EXCEPT !.pc = "session"]]
        BY <3>1, <4>2 DEF SpendCode
      <4> QED
        BY <4>1, <4>2
    <3>2. taken' = taken \/ \E r \in Reqs : SpendCode(r)
      BY DEF Next, vars, BeginIssue, FindIssuer, CreateCode, FailIssue, Prune, PruneFails,
         BeginExchange, FindCode, BurnCode, SessionForUser, FailExchange, DeactivateUser,
         ReactivateUser, DeleteUser, SetUser, Tick
    <3> QED
      BY <3>1, <3>2
  <2>3. \A c \in Codes : code'[c].state \in {"free", "open"} => code[c].state \in {"free", "open"}
    BY <1>1, RowMoves
  <2>4. sessions' = sessions \/ \E r \in Reqs :
          SessionForUser(r) /\ sessions' = [sessions EXCEPT ![req[r].code] = @ + 1]
    BY DEF Next, vars, BeginIssue, FindIssuer, CreateCode, FailIssue, Prune, PruneFails,
       BeginExchange, FindCode, BurnCode, SpendCode, SessionForUser, FailExchange, DeactivateUser,
       ReactivateUser, DeleteUser, SetUser, Tick
  <2>5. \A c \in Codes : code'[c].state \in {"free", "open"} => taken'[c] = 0
    BY <2>2, <2>3 DEF Spent
  <2>6. \A q, r \in Reqs :
          req'[q].pc = "session" /\ req'[r].pc = "session" /\ req'[q].code = req'[r].code => q = r
    BY <2>1 DEF Spent
  <2>7. CASE sessions' = sessions
    <3>1. \A c \in Codes : taken'[c] = 0 => sessions'[c] = 0
      BY <2>2, <2>7 DEF Spent
    <3>2. \A q \in Reqs : req'[q].pc = "session" =>
            taken'[req'[q].code] > 0 /\ sessions'[req'[q].code] = 0
      BY <2>1, <2>2, <2>7 DEF Spent
    <3> QED
      BY <2>5, <2>6, <3>1, <3>2 DEF Spent
  <2>8. ASSUME NEW r \in Reqs, SessionForUser(r), sessions' = [sessions EXCEPT ![req[r].code] = @ + 1]
        PROVE  Spent'
    <3>1. req[r].pc = "session" /\ req[r].code \in Codes /\ taken[req[r].code] > 0
      BY <1>2, <2>8 DEF SessionForUser, Spent
    <3>2. \A c \in Codes : taken'[c] = 0 => sessions'[c] = 0
      BY <1>1, <2>2, <2>8, <3>1 DEF Spent
    <3>3. \A q \in Reqs : req'[q].pc = "session" => req[q].code # req[r].code
      BY <2>1, <2>8, <3>1 DEF Spent
    <3>4. \A q \in Reqs : req'[q].pc = "session" =>
            taken'[req'[q].code] > 0 /\ sessions'[req'[q].code] = 0
      BY <1>1, <1>2, <2>1, <2>2, <2>8, <3>1, <3>3 DEF Spent
    <3> QED
      BY <2>5, <2>6, <3>2, <3>4 DEF Spent
  <2> QED
    BY <2>4, <2>7, <2>8
<1> QED
  BY <1>3, <1>4

\* The steps that write no row and no history are stutters of the promise.
LEMMA QuietSteps ==
  ASSUME [Next]_vars,
         ~ \E i \in Issuers : CreateCode(i),
         ~ \E k \in pruning : Prune(k),
         ~ \E r \in Reqs : BurnCode(r) \/ SpendCode(r) \/ SessionForUser(r)
  PROVE  UNCHANGED <<code, taken, sessions>>
  BY DEF Next, vars, BeginIssue, FindIssuer, FailIssue, PruneFails, BeginExchange, FindCode,
     FailExchange, DeactivateUser, ReactivateUser, DeleteUser, SetUser, Tick

LEMMA Stutter ==
  ASSUME UNCHANGED <<code, taken, sessions>>
  PROVE  UNCHANGED Abstract!vars
  BY DEF Abstract!vars, CodeStatus

\* Rows closed in one step, none of them by an exchange.
LEMMA Closing ==
  ASSUME Typed, Spent, NEW S \in SUBSET Codes,
         UNCHANGED <<taken, sessions>>,
         \A c \in Codes : code'[c].state = code[c].state \/ code'[c].state \notin {"free", "open"},
         \A c \in Codes : code[c].state = "open" => (c \in S <=> code'[c].state # "open"),
         \A c \in Codes : code[c].state = "free" => code'[c].state = "free"
  PROVE  Abstract!Close(S)
<1>1. \A c \in Codes : CodeStatus(c)' =
        IF c \in S /\ CodeStatus(c) = "open" THEN "closed" ELSE CodeStatus(c)
  <2> SUFFICES ASSUME NEW c \in Codes
               PROVE  CodeStatus(c)' =
                        IF c \in S /\ CodeStatus(c) = "open" THEN "closed" ELSE CodeStatus(c)
    OBVIOUS
  <2>1. CASE taken[c] > 0
    BY <2>1 DEF CodeStatus
  <2>2. CASE ~(taken[c] > 0)
    BY <2>2 DEF CodeStatus
  <2> QED
    BY <2>1, <2>2
<1> QED
  BY <1>1 DEF Abstract!Close

LEMMA AbstractInit == Init => Abstract!Init
  BY DEF Init, Abstract!Init, CodeStatus, NoCode

LEMMA AbstractStep == Typed /\ Spent /\ [Next]_vars => [Abstract!Next]_(Abstract!vars)
<1> SUFFICES ASSUME Typed, Spent, [Next]_vars
             PROVE  Abstract!Next \/ UNCHANGED Abstract!vars
  OBVIOUS
<1>1. /\ req \in [Reqs -> ExchangeRecord]
      /\ code \in [Codes -> CodeRow]
      /\ taken \in [Codes -> Nat] /\ sessions \in [Codes -> Nat]
  BY DEF Typed, TypeOK
<1>2. \A r \in Reqs : req[r].pc # "idle" => req[r].code \in Codes /\ code[req[r].code].state # "free"
  BY DEF Typed, Placed
<1>3. ASSUME NEW i \in Issuers, CreateCode(i)
      PROVE  Abstract!Next
  <2>1. PICK c \in Codes :
          /\ code[c].state = "free" /\ code'[c].state = "open"
          /\ \A d \in Codes : d # c => code'[d] = code[d]
    BY <1>1, <1>3 DEF CreateCode
  <2>2. UNCHANGED <<taken, sessions>> /\ taken[c] = 0
    BY <1>3, <2>1 DEF CreateCode, Spent
  <2>3. CodeStatus(c) = "unissued" /\ CodeStatus(c)' = "open"
    BY <2>1, <2>2 DEF CodeStatus
  <2>4. \A d \in Codes : d # c => CodeStatus(d)' = CodeStatus(d)
    BY <2>1, <2>2 DEF CodeStatus
  <2>5. Abstract!Issue(c)
    BY <2>2, <2>3, <2>4 DEF Abstract!Issue, Abstract!Change
  <2> QED
    BY <2>5 DEF Abstract!Next
<1>4. ASSUME NEW k \in pruning, Prune(k)
      PROVE  Abstract!Next
  <2> DEFINE S == {c \in Codes : code[c].state = "open" /\ code[c].expiresAt < k}
  <2>1. UNCHANGED <<taken, sessions>>
    BY <1>4 DEF Prune
  <2>2. \A c \in Codes : code'[c].state =
          IF code[c].state \in {"open", "consumed"} /\ code[c].expiresAt < k
          THEN "pruned" ELSE code[c].state
    BY <1>1, <1>4, RowFields DEF Prune
  <2>3. Abstract!Close(S)
    BY <2>1, <2>2, Closing
  <2> QED
    BY <2>3 DEF Abstract!Next
<1>5. ASSUME NEW r \in Reqs, BurnCode(r)
      PROVE  Abstract!Next
  <2>1. UNCHANGED <<taken, sessions>> /\ req[r].code \in Codes
    BY <1>2, <1>5 DEF BurnCode
  <2>2. \A c \in Codes : code'[c].state =
          IF c = req[r].code /\ code[c].state = "open" THEN "consumed" ELSE code[c].state
    BY <1>1, <1>5, <2>1 DEF BurnCode, CodeRow
  <2>3. Abstract!Close({req[r].code})
    BY <2>1, <2>2, Closing
  <2> QED
    BY <2>1, <2>3 DEF Abstract!Next
<1>6. ASSUME NEW r \in Reqs, SpendCode(r)
      PROVE  Abstract!Next \/ UNCHANGED Abstract!vars
  <2> PICK c \in Codes : c = req[r].code
    BY <1>2, <1>6 DEF SpendCode
  <2>1. UNCHANGED sessions
    BY <1>6 DEF SpendCode
  <2>2. CASE code[c].state = "open" /\ code[c].expiresAt > req[r].now
    <3>1. /\ code' = [code EXCEPT ![c].state = "consumed"]
          /\ taken' = [taken EXCEPT ![c] = @ + 1]
      BY <1>6, <2>2 DEF SpendCode
    <3>2. taken[c] = 0 /\ taken'[c] = 1
      BY <1>1, <2>1, <2>2, <3>1 DEF Spent
    <3>3. CodeStatus(c) = "open" /\ CodeStatus(c)' = "taken"
      BY <2>2, <3>2 DEF CodeStatus
    <3>4. \A d \in Codes : d # c => CodeStatus(d)' = CodeStatus(d)
      BY <1>1, <2>1, <3>1 DEF CodeStatus
    <3>5. Abstract!Take(c)
      BY <2>1, <3>3, <3>4 DEF Abstract!Take, Abstract!Change
    <3> QED
      BY <2>1, <3>5 DEF Abstract!Next
  <2>3. CASE ~(code[c].state = "open" /\ code[c].expiresAt > req[r].now)
    BY <1>6, <2>3, Stutter DEF SpendCode
  <2> QED
    BY <2>2, <2>3
<1>7. ASSUME NEW r \in Reqs, SessionForUser(r)
      PROVE  Abstract!Next \/ UNCHANGED Abstract!vars
  <2> PICK c \in Codes : c = req[r].code
    BY <1>2, <1>7 DEF SessionForUser
  <2>1. taken[c] > 0 /\ sessions[c] = 0 /\ UNCHANGED <<code, taken>>
    BY <1>7 DEF SessionForUser, Spent
  <2>2. CASE sessions' = [sessions EXCEPT ![c] = @ + 1]
    <3>1. sessions' = [sessions EXCEPT ![c] = 1]
      BY <2>1, <2>2
    <3>2. CodeStatus(c) = "taken" /\ \A d \in Codes : CodeStatus(d)' = CodeStatus(d)
      BY <2>1 DEF CodeStatus
    <3>3. Abstract!Deliver(c)
      BY <2>1, <3>1, <3>2 DEF Abstract!Deliver
    <3> QED
      BY <2>1, <3>3 DEF Abstract!Next
  <2>3. CASE sessions' = sessions
    BY <2>1, <2>3, Stutter
  <2> QED
    BY <1>7, <2>2, <2>3 DEF SessionForUser
<1> QED
  BY <1>3, <1>4, <1>5, <1>6, <1>7, QuietSteps, Stutter

\* However many exchanges of a code overlap, and wherever one of them fails,
\* codes do what OneTimeCode promises: taken once, while open, for one session.
THEOREM OneTimeCodeImplemented == Spec => ImplementsOneTimeCode
<1>1. Init => Spent
  BY DEF Init, Spent, NoExchange
<1> QED
  BY TypedInit, TypedStep, SpentStep, AbstractInit, AbstractStep, <1>1, PTL
     DEF Spec, ImplementsOneTimeCode, Abstract!Spec
=============================================================================

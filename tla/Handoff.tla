------------------------------- MODULE Handoff -------------------------------
(***************************************************************************)
(* The one-time cross-app sign-in codes of HandoffService: issue, exchange *)
(* and the pruning issue starts.  A handler is a process that stops at     *)
(* every `await`; `now` is taken when the request arrives and may be old   *)
(* by the time it is compared.  AuthHandoffCode has no foreign key, so     *)
(* deleting a user leaves the codes.                                       *)
(***************************************************************************)
EXTENDS Naturals

CONSTANTS
  Users,       \* user ids
  Origins,     \* the origins a code may be bound to or presented from
  Codes,       \* the codes ever drawn (a bound)
  Lost,        \* those of them nobody ever presents (a bound)
  Issuers,     \* issue requests in progress at once
  Reqs,        \* exchange requests in progress at once
  TTL,         \* handoffTtlSec
  PruneAfter,  \* PRUNE_AFTER_MS
  MaxTime,     \* a bound on the clock
  None

ASSUME NoneIsNoId == None \notin Users \cup Origins \cup Codes
ASSUME LostAreCodes == Lost \subseteq Codes
ASSUME DurationsAreNat == TTL \in Nat /\ PruneAfter \in Nat /\ MaxTime \in Nat

VARIABLES
  clock,    \* the time
  user,     \* [Users -> state of the User row]
  code,     \* [Codes -> AuthHandoffCode row]
  issuer,   \* [Issuers -> issue in progress]
  req,      \* [Reqs -> exchange in progress, or the last one, refused]
  pruning,  \* the cutoffs of deleteMany calls not yet executed
  (* history, read by properties only *)
  taken,    \* [Codes -> exchanges that flipped consumedAt]
  sessions  \* [Codes -> sessions the code bought]

vars == <<clock, user, code, issuer, req, pruning, taken, sessions>>

CodeRow ==
  [state : {"free", "open", "consumed", "pruned"}, user : Users \cup {None},
   origin : Origins \cup {None}, expiresAt : Nat]

IssueRecord ==
  [pc : {"idle", "find", "create"}, user : Users \cup {None},
   origin : Origins \cup {None}, now : Nat]

ExchangeRecord ==
  [pc : {"idle", "find", "burn", "spend", "session", "refused"}, code : Codes \cup {None},
   origin : Origins \cup {None}, now : Nat]

TypeOK ==
  /\ clock \in Nat
  /\ user \in [Users -> {"active", "inactive", "deleted"}]
  /\ code \in [Codes -> CodeRow]
  /\ issuer \in [Issuers -> IssueRecord]
  /\ req \in [Reqs -> ExchangeRecord]
  /\ pruning \subseteq Nat
  /\ taken \in [Codes -> Nat]
  /\ sessions \in [Codes -> Nat]

NoCode == [state |-> "free", user |-> None, origin |-> None, expiresAt |-> 0]
NoIssue == [pc |-> "idle", user |-> None, origin |-> None, now |-> 0]
NoExchange == [pc |-> "idle", code |-> None, origin |-> None, now |-> 0]

Init ==
  /\ clock = 0
  /\ user = [u \in Users |-> "active"]
  /\ code = [c \in Codes |-> NoCode]
  /\ issuer = [i \in Issuers |-> NoIssue]
  /\ req = [r \in Reqs |-> NoExchange]
  /\ pruning = {}
  /\ taken = [c \in Codes |-> 0]
  /\ sessions = [c \in Codes |-> 0]

-----------------------------------------------------------------------------
(* issue *)

\* The session guard asks for a valid token only, so the account may be in any
\* state; the target is one of the estate's origins.
BeginIssue(i, u, o) ==
  /\ issuer[i].pc = "idle"
  /\ issuer' = [issuer EXCEPT ![i] = [pc |-> "find", user |-> u, origin |-> o, now |-> clock]]
  /\ UNCHANGED <<clock, user, code, req, pruning, taken, sessions>>

FindIssuer(i) ==
  /\ issuer[i].pc = "find"
  /\ issuer' = [issuer EXCEPT ![i] =
                  IF user[issuer[i].user] = "active" THEN [@ EXCEPT !.pc = "create"] ELSE NoIssue]
  /\ UNCHANGED <<clock, user, code, req, pruning, taken, sessions>>

\* Mutant: rows are pruned ahead of their time.
CutoffAhead(now) == {now + PruneAfter}

\* The cutoff of the pruning a request arrived at `now` starts; before the
\* epoch of the model there is nothing to prune.
Cutoff(now) == IF now >= PruneAfter THEN {now - PruneAfter} ELSE {}

\* Mutant: the row is written without expiresAt.
CreateCodeForGood(i) ==
  /\ issuer[i].pc = "create"
  /\ \E c \in Codes :
       /\ code[c].state = "free"
       /\ code' = [code EXCEPT ![c] = [state |-> "open", user |-> issuer[i].user,
                                       origin |-> issuer[i].origin, expiresAt |-> None]]
  /\ issuer' = [issuer EXCEPT ![i] = NoIssue]
  /\ pruning' = pruning \cup Cutoff(issuer[i].now)
  /\ UNCHANGED <<clock, user, req, taken, sessions>>

\* The row is written; the pruning is started and not awaited.
CreateCode(i) ==
  LET now == issuer[i].now
  IN /\ issuer[i].pc = "create"
     /\ \E c \in Codes :
          /\ code[c].state = "free"
          /\ code' = [code EXCEPT ![c] =
                        [state |-> "open", user |-> issuer[i].user,
                         origin |-> issuer[i].origin, expiresAt |-> now + TTL]]
     /\ issuer' = [issuer EXCEPT ![i] = NoIssue]
     /\ pruning' = pruning \cup Cutoff(now)
     /\ UNCHANGED <<clock, user, req, taken, sessions>>

FailIssue(i) ==
  /\ issuer[i].pc # "idle"
  /\ issuer' = [issuer EXCEPT ![i] = NoIssue]
  /\ UNCHANGED <<clock, user, code, req, pruning, taken, sessions>>

Prune(k) ==
  /\ k \in pruning
  /\ pruning' = pruning \ {k}
  /\ code' = [c \in Codes |->
                IF code[c].state \in {"open", "consumed"} /\ code[c].expiresAt < k
                THEN [code[c] EXCEPT !.state = "pruned"] ELSE code[c]]
  /\ UNCHANGED <<clock, user, issuer, req, taken, sessions>>

\* Best effort: .catch(() => undefined)
PruneFails(k) ==
  /\ k \in pruning
  /\ pruning' = pruning \ {k}
  /\ UNCHANGED <<clock, user, code, issuer, req, taken, sessions>>

-----------------------------------------------------------------------------
(* exchange *)

\* A code somebody was given is presented from some origin.
BeginExchange(r, c, o) ==
  /\ req[r].pc \in {"idle", "refused"}
  /\ code[c].state # "free"
  /\ req' = [req EXCEPT ![r] = [pc |-> "find", code |-> c, origin |-> o, now |-> clock]]
  /\ UNCHANGED <<clock, user, code, issuer, pruning, taken, sessions>>

\* A refused request is remembered, for RefusedMeansClosed.
Refuse(r) == req' = [req EXCEPT ![r] = [@ EXCEPT !.pc = "refused"]]
Forget(r) == req' = [req EXCEPT ![r] = NoExchange]

FindCode(r) ==
  LET row == code[req[r].code]
  IN /\ req[r].pc = "find"
     /\ \/ row.state = "pruned" /\ Refuse(r)
        \/ /\ row.state # "pruned"
           /\ req' = [req EXCEPT ![r] =
                [@ EXCEPT !.pc = IF row.origin # req[r].origin THEN "burn" ELSE "spend"]]
     /\ UNCHANGED <<clock, user, code, issuer, pruning, taken, sessions>>

\* Mutant: a foreign origin is refused and the code left alone.
BurnNothing(r) ==
  /\ req[r].pc = "burn"
  /\ Refuse(r)
  /\ UNCHANGED <<clock, user, code, issuer, pruning, taken, sessions>>

BurnCode(r) ==
  LET c == req[r].code
  IN /\ req[r].pc = "burn"
     /\ code' = IF code[c].state = "open" THEN [code EXCEPT ![c].state = "consumed"] ELSE code
     /\ Refuse(r)
     /\ UNCHANGED <<clock, user, issuer, pruning, taken, sessions>>

\* Mutant: consumedAt is not part of the condition, as in oauth.exchangeCode.
SpendAnyCode(r) ==
  LET c == req[r].code
  IN /\ req[r].pc = "spend"
     /\ code[c].state \in {"open", "consumed"}
     /\ code' = [code EXCEPT ![c].state = "consumed"]
     /\ req' = [req EXCEPT ![r] = [@ EXCEPT !.pc = "session"]]
     /\ taken' = [taken EXCEPT ![c] = @ + 1]
     /\ UNCHANGED <<clock, user, issuer, pruning, sessions>>

\* The conditional update: only the request that flips consumedAt goes on.
SpendCode(r) ==
  LET c == req[r].code
      match == code[c].state = "open" /\ code[c].expiresAt > req[r].now
  IN /\ req[r].pc = "spend"
     /\ \/ ~match /\ Refuse(r) /\ UNCHANGED <<code, taken>>
        \/ /\ match
           /\ code' = [code EXCEPT ![c].state = "consumed"]
           /\ req' = [req EXCEPT ![r] = [@ EXCEPT !.pc = "session"]]
           /\ taken' = [taken EXCEPT ![c] = @ + 1]
     /\ UNCHANGED <<clock, user, issuer, pruning, sessions>>

\* sessionForUser reads the account again.
SessionForUser(r) ==
  LET c == req[r].code
      ok == user[code[c].user] = "active"
  IN /\ req[r].pc = "session"
     /\ IF ok THEN Forget(r) ELSE Refuse(r)
     /\ sessions' = IF ok THEN [sessions EXCEPT ![c] = @ + 1] ELSE sessions
     /\ UNCHANGED <<clock, user, code, issuer, pruning, taken>>

FailExchange(r) ==
  /\ req[r].pc \notin {"idle", "refused"}
  /\ Forget(r)
  /\ UNCHANGED <<clock, user, code, issuer, pruning, taken, sessions>>

-----------------------------------------------------------------------------
(* Accounts and time *)

SetUser(u, from, to) ==
  /\ user[u] \in from
  /\ user' = [user EXCEPT ![u] = to]
  /\ UNCHANGED <<clock, code, issuer, req, pruning, taken, sessions>>

DeactivateUser(u) == SetUser(u, {"active"}, "inactive")
ReactivateUser(u) == SetUser(u, {"inactive"}, "active")
DeleteUser(u) == SetUser(u, {"active", "inactive"}, "deleted")

Tick ==
  /\ clock < MaxTime
  /\ clock' = clock + 1
  /\ UNCHANGED <<user, code, issuer, req, pruning, taken, sessions>>

Next ==
  \/ \E i \in Issuers :
       \/ \E u \in Users, o \in Origins : BeginIssue(i, u, o)
       \/ FindIssuer(i) \/ CreateCode(i) \/ FailIssue(i)
  \/ \E k \in pruning : Prune(k) \/ PruneFails(k)
  \/ \E r \in Reqs :
       \/ \E c \in Codes \ Lost, o \in Origins : BeginExchange(r, c, o)
       \/ FindCode(r) \/ BurnCode(r) \/ SpendCode(r) \/ SessionForUser(r) \/ FailExchange(r)
  \/ \E u \in Users : DeactivateUser(u) \/ ReactivateUser(u) \/ DeleteUser(u)
  \/ Tick

Spec == Init /\ [][Next]_vars

-----------------------------------------------------------------------------
(* Properties *)

\* What a code promises, implemented.
CodeStatus(c) ==
  IF taken[c] > 0 THEN "taken"
  ELSE IF code[c].state = "open" THEN "open"
  ELSE IF code[c].state = "free" THEN "unissued" ELSE "closed"

Abstract == INSTANCE OneTimeCode WITH
  status <- [c \in Codes |-> CodeStatus(c)], sessions <- sessions

\* However many exchanges of a code arrive at once, from the right origin or a
\* foreign one, it is taken at most once, only while open, and buys at most one
\* session (the conditional updates of exchange).
ImplementsOneTimeCode == Abstract!Spec

\* A refusal leaves nothing to try again: unless the request came after the
\* code's time, the code it presented is no longer open.  In particular a code
\* presented from a foreign origin is burnt.
RefusedMeansClosed ==
  \A r \in Reqs :
    req[r].pc = "refused" =>
      \/ code[req[r].code].state # "open"
      \/ req[r].origin = code[req[r].code].origin /\ req[r].now >= code[req[r].code].expiresAt

\* Pruning, however late it runs, only takes rows whose time is up: no request that
\* arrives from now on could use one (issue).
PrunedIsExpired ==
  \A c \in Codes : code[c].state = "pruned" => code[c].expiresAt < clock
=============================================================================

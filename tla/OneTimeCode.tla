----------------------------- MODULE OneTimeCode -----------------------------
(***************************************************************************)
(* What a one-time sign-in code promises: it is taken at most once, while  *)
(* it is open; a code closed any other way (burnt by a foreign origin,     *)
(* pruned) is never taken; and a taken code buys at most one session.      *)
(***************************************************************************)
EXTENDS Naturals

CONSTANT Codes

VARIABLES
  status,   \* the state of each code
  sessions  \* the number of sessions it bought

vars == <<status, sessions>>

Init ==
  /\ status = [c \in Codes |-> "unissued"]
  /\ sessions = [c \in Codes |-> 0]

Change(c, from, to) ==
  /\ status[c] = from
  /\ status' = [status EXCEPT ![c] = to]
  /\ UNCHANGED sessions

Issue(c) == Change(c, "unissued", "open")
Take(c)  == Change(c, "open", "taken")

\* Several codes may be pruned at once.
Close(S) ==
  /\ status' = [c \in Codes |-> IF c \in S /\ status[c] = "open" THEN "closed" ELSE status[c]]
  /\ UNCHANGED sessions

Deliver(c) ==
  /\ status[c] = "taken"
  /\ sessions[c] = 0
  /\ sessions' = [sessions EXCEPT ![c] = 1]
  /\ UNCHANGED status

Next ==
  \/ \E c \in Codes : Issue(c) \/ Take(c) \/ Deliver(c)
  \/ \E S \in SUBSET Codes : Close(S)

Spec == Init /\ [][Next]_vars
=============================================================================

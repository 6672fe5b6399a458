--------------------------- MODULE StandingConsent ---------------------------
(***************************************************************************)
(* What the OAuth half of auth-api promises of one person's consent: it is *)
(* given once; revoking it, or deleting the person, ends it for good; and  *)
(* an internal Nairon session is opened only for a program that asked      *)
(* while the consent was unrevoked, at a moment when the account is        *)
(* active.  Between asking and opening a revocation may pass unseen, so    *)
(* consent and account need not have been good at one single moment.  A    *)
(* session already open is not recalled: it lapses by itself.              *)
(***************************************************************************)
CONSTANT Grants

VARIABLES
  consent,  \* the state of each consent
  active,   \* the consents of people whose account is active
  asked,    \* the consents a program is waiting for a session of
  session   \* the consents with an unexpired internal session

vars == <<consent, active, asked, session>>

TypeOK ==
  /\ consent \in [Grants -> {"none", "given", "revoked", "gone"}]
  /\ active \subseteq Grants
  /\ asked \subseteq Grants
  /\ session \subseteq Grants

Init ==
  /\ consent = [g \in Grants |-> "none"]
  /\ active = {} /\ asked = {} /\ session = {}

\* The account may have been deactivated since the person was asked.
Give(g) ==
  /\ consent[g] = "none"
  /\ consent' = [consent EXCEPT ![g] = "given"]
  /\ active' \in {active, active \cup {g}}
  /\ UNCHANGED <<asked, session>>

Revoke(g) ==
  /\ consent[g] = "given"
  /\ consent' = [consent EXCEPT ![g] = "revoked"]
  /\ UNCHANGED <<active, asked, session>>

\* The accounts behind the consents of S are deactivated, reactivated, deleted.
Pause(S) ==
  /\ active' = active \ S
  /\ UNCHANGED <<consent, asked, session>>

Resume(S) ==
  /\ \A g \in S : consent[g] \in {"given", "revoked"}
  /\ active' = active \cup S
  /\ UNCHANGED <<consent, asked, session>>

Delete(S) ==
  /\ \A g \in S : consent[g] # "none"
  /\ consent' = [g \in Grants |-> IF g \in S THEN "gone" ELSE consent[g]]
  /\ active' = active \ S
  /\ UNCHANGED <<asked, session>>

Ask(g) ==
  /\ consent[g] = "given"
  /\ asked' = asked \cup {g}
  /\ UNCHANGED <<consent, active, session>>

Drop(g) ==
  /\ asked' = asked \ {g}
  /\ UNCHANGED <<consent, active, session>>

\* Another program may still be waiting.
OpenSession(g) ==
  /\ g \in asked /\ g \in active
  /\ session' = session \cup {g}
  /\ asked' \in {asked, asked \ {g}}
  /\ UNCHANGED <<consent, active>>

Lapse(g) ==
  /\ session' = session \ {g}
  /\ UNCHANGED <<consent, active, asked>>

Next ==
  \/ \E g \in Grants :
       Give(g) \/ Revoke(g) \/ Ask(g) \/ Drop(g) \/ OpenSession(g) \/ Lapse(g)
  \/ \E S \in SUBSET Grants : Pause(S) \/ Resume(S) \/ Delete(S)

Spec == Init /\ [][Next]_vars
=============================================================================

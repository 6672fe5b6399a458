-------------------------- MODULE MCDelegatedTokens --------------------------
(* The forms posted and the tokens asked for, for the runs of DelegatedTokens. *)
EXTENDS DelegatedTokens, TLC

CONSTANTS u1, r1, e0, e1, e2

\* A person has no role, or the one role in the first organisation.
OneRole == {{}, {<<r1, e1>>}}

\* The role may be given the AI rights everywhere, one of the warehouse in the second
\* organisation, and given or refused it in the first.
FewForms ==
  {<<r1, e0, Needs["chat.messages.send"]>>,
   <<r1, e1, {}>>, <<r1, e1, {"manage_reservations"}>>, <<r1, e2, {"manage_reservations"}>>}

FewAsked == {<<"warehouse.reservations.create", u1, e1>>, <<"ai-goal", u1, e1>>, <<"ai-goal", u1, e0>>}

Symmetric == Permutations(Savers)
=============================================================================

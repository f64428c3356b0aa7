------------------------- MODULE MCLeadRegistration -------------------------
(***************************************************************************)
(* Small instances of LeadRegistration for TLC.                            *)
(***************************************************************************)
EXTENDS LeadRegistration, TLC

CONSTANTS r1, r2, w1, w2

\* Two submissions of one lead, the second a change of mind or a double click.
MCRequests == {r1, r2}
MCLeadOf == [r \in MCRequests |-> "lead"]

MCLeads == {"lead"}

MCOneConsumer == {w1}
MCTwoConsumers == {w1, w2}

MCSymmetry == Permutations(MCTwoConsumers)
=============================================================================

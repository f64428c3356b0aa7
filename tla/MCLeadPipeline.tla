--------------------------- MODULE MCLeadPipeline ---------------------------
(***************************************************************************)
(* Small instances of LeadPipeline for TLC.                               *)
(***************************************************************************)
EXTENDS LeadPipeline, TLC

CONSTANTS r1, r2, w1, s1, s2, x1, x2, f1

\* Two submissions of one lead or of two.
MCRequests == {r1, r2}
MCLeads == {"lead", "other"}
MCSameLead == [r \in MCRequests |-> "lead"]
MCTwoLeads == [r \in MCRequests |-> IF r = r1 THEN "lead" ELSE "other"]
MCConsumers == {w1}

\* Two scores of the first submission, two answers of one form; the second may be one that
\* is not sent.
MCUnsent == {s2}
MCTwoScores == {s1, s2}
MCTwoRegistrationOf == [s \in MCTwoScores |-> r1]
MCTwoFormOf == [s \in MCTwoScores |-> f1]

MCForms == {f1}
MCOneScorer == {x1}
MCTwoScorers == {x1, x2}

\* The handlers are alike; used where only safety is checked.
MCSymmetry == Permutations(MCTwoScorers)
=============================================================================

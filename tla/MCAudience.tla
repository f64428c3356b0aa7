---------------------------- MODULE MCAudience ----------------------------
(* Two of nearly everything, and three requests where two are not enough.  *)
EXTENDS Audience, TLC

CONSTANTS a1, a2

\* Who acts in a part, requests, processes or scans, is one of two that are alike.
MCSymmetry == Permutations({a1, a2})

MCOptions == [b \in {1} |-> 1]

\* Two ranges that meet, an open one; a range that ends before the answers do.
MCRanges ==
  [b \in {1, 2} |->
     IF b = 1 THEN {[min |-> 0, max |-> 2, gives |-> 1],
                    [min |-> 2, max |-> Absent, gives |-> 3]}
     ELSE {[min |-> Absent, max |-> 2, gives |-> 5]}]

MCTiers ==
  [b \in {1} |->
     {[min |-> Absent, max |-> 2, gives |-> 1], [min |-> 2, max |-> 4, gives |-> 2]}]
=============================================================================

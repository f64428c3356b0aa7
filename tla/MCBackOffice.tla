---------------------------- MODULE MCBackOffice ----------------------------
(* Two of nearly everything, and three requests where two are not enough;  *)
(* three captures in two milliseconds.  Of the dashboards' answers, those  *)
(* with a scope are asked for that of one ad, or of both and one of them.  *)
EXTENDS BackOffice, TLC

CONSTANTS a1, a2, m1, m2, ad1, ad2

\* Who acts in a part, requests, processes or scans, is one of two that are alike.
MCSymmetry == Permutations({a1, a2})

Arriving ==
  {[person |-> m1, ad |-> ad1, organic |-> FALSE, day |-> 1],
   [person |-> m1, ad |-> ad2, organic |-> FALSE, day |-> 2],
   [person |-> m2, ad |-> Absent, organic |-> TRUE, day |-> 2]}

All == [from |-> 1, scope |-> Absent, ad |-> Absent]
Scoped == [from |-> 1, scope |-> {ad1}, ad |-> Absent]
OneAd == [from |-> 2, scope |-> {ad1, ad2}, ad |-> ad2]

\* One account fits a page, the other does not.
Holding == <<1, 2>>

For(K, Q, n) == {[kind |-> k, query |-> q, writes |-> n] : k \in K, q \in Q}
Asking ==
  For({"summary", "awareness"}, {Scoped}, 3) \cup For({"summary", "awareness"}, {OneAd}, 2)
    \cup For({"series", "notices"}, {All}, 3) \cup For({"funnel", "overviewDays"}, {All}, 4)
    \cup For({"health"}, {Scoped}, 2) \cup For({"explanations"}, {All}, 1)
    \cup For({"shares", "overview", "table"}, {Scoped}, 4)
=============================================================================

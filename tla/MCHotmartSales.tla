--------------------------- MODULE MCHotmartSales ---------------------------
(***************************************************************************)
(* Small instance of HotmartSales for TLC.                                 *)
(***************************************************************************)
EXTENDS HotmartSales, TLC

CONSTANTS t1, t2, w1, w2, p1, p2

\* Two purchases of one buyer: one is approved, then disputed.
MCSales == {t1, t2}
MCBuyers == {"buyer"}
MCBuyerOf == [t \in MCSales |-> "buyer"]
MCLastVersion == [t \in MCSales |-> IF t = t1 THEN 2 ELSE 1]
MCStatuses == {"approved", "disputed"}
MCStatusOf == <<"approved", "disputed">>
MCReceivers == {w1, w2}
MCProcessors == {p1, p2}

MCModes == BOOLEAN

MCSymmetry == Permutations(MCReceivers) \cup Permutations(MCProcessors)
=============================================================================

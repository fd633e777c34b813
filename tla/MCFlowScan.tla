----------------------------- MODULE MCFlowScan -----------------------------
(***************************************************************************)
(* FlowScan on a small instance: two funds, one of them worded in two ways,*)
(* the longer of which contains the other fund's key as well, so that      *)
(* being the same fund is not transitive; one 13F row.                     *)
(***************************************************************************)
EXTENDS FlowScan, TLC

CONSTANTS t1, f, g

Keys == {{"pershing"}, {"pershing", "square"}, {"square"}}
Worded == (f :> {{"pershing"}, {"pershing", "square"}}) @@ (g :> {{"square"}})
Rows == {[ticker |-> t1, holder |-> g, day |-> 1]}
=============================================================================

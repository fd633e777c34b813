---------------------------- MODULE MCPriceStore ----------------------------
(***************************************************************************)
(* PriceStore on small instances.  Days stand for calendar days: an        *)
(* overlap of one and a widest gap of two keep the order of the code's     *)
(* constants (1 and 730).                                                  *)
(***************************************************************************)
EXTENDS PriceStore, TLC

Charts == Permutations(Chart)
=============================================================================

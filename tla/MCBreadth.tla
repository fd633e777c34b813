------------------------------ MODULE MCBreadth ------------------------------
(***************************************************************************)
(* Breadth on small instances.  Forward windows of one and two sessions    *)
(* stand for five and ten, a divergence window of one for ten.             *)
(***************************************************************************)
EXTENDS Breadth
=============================================================================

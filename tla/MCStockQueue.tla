---------------------------- MODULE MCStockQueue ----------------------------
(***************************************************************************)
(* StockQueue on small instances: which requests the clients of a run      *)
(* send, and the symmetry of the request threads (used in safety runs).    *)
(***************************************************************************)
EXTENDS StockQueue, TLC

EveryOp == {"enqueue", "all", "analyze", "bulk", "delete", "pin", "unpin", "patch"}
RacingOps == {"enqueue", "analyze", "delete"}
SweepingOps == {"all", "analyze", "delete"}

Threads == Permutations(Req)
=============================================================================
